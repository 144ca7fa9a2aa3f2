------------------------------ MODULE SerialWriterProofs ------------------------------
(***************************************************************************)
(* SerialWriter: types, the order of what reaches the strip, who holds the *)
(* port, what a disconnect lets go of and what a paint answers, for any    *)
(* callers, calls and mishaps.                                             *)
(***************************************************************************)
EXTENDS SerialWriter, TLAPS

(* The invariant, part by part *)

Counted ==
  /\ plugged <= mishaps /\ \A s \in Sessions : cable[s] <= plugged
  /\ \A c \in Callers : call[c].upto <= opened /\ call[c].session <= opened
  /\ \A s \in Sessions : s > opened => writer[s].at = "none"

\* Where a writer is decides whether its port is open, and whether it says it has left.
WritersKnown ==
  \A s \in Sessions :
    /\ s \in handles <=> writer[s].at \in {"waits", "writes", "stuck", "wrote", "leaves"}
    /\ slot[s].exited <=> writer[s].at = "gone"
    /\ writer[s].at = "none" => ~slot[s].pending

\* What a call has in hand where it is.
CallsKnown ==
  /\ live # NoSession => writer[live].at # "none"
  /\ \A c \in Callers :
       LET f == call[c]
       IN /\ f.at \in {"looks", "sleeps", "opens"} => f.answer = "none"
          /\ f.op = "drop" => f.at \in {"removes", "drops", "leaves", "answered"}
          /\ f.at = "removes" => f.op = "drop"
          /\ f.op = "paint" /\ f.answer = "ok" => f.at = "answered"
          /\ f.at = "checks" => f.answer = "none"
          /\ f.at \in {"opens", "files", "checks", "forgets", "drops", "leaves"}
               => f.session \in Sessions
          /\ f.at = "opens" => writer[f.session].at = "none"
          /\ f.at = "files" => (f.answer = "none" <=> writer[f.session].at # "none")
          /\ f.at = "leaves" => slot[f.session].closing

Opens(c) == call[c].at \in {"opens", "files"}
OneOpener ==
  /\ opening => live = NoSession
  /\ \A c \in Callers : Opens(c) => opening
  /\ \A c, d \in Callers : Opens(c) /\ Opens(d) => c = d

Dropping(c) == call[c].op = "drop" /\ call[c].at \in {"drops", "leaves", "answered"}
DropsHold ==
  \A c \in Callers : Dropping(c) =>
    /\ live = NoSession \/ live > call[c].upto
    /\ \A d \in Callers : Opens(d) => dropped \/ call[d].session > call[c].upto

Current(s) == s \in handles /\ cable[s] = plugged
Writing(s) == writer[s].at \in {"writes", "stuck"}
Newest ==
  /\ wire <= accepted
  /\ \A s \in Sessions : slot[s].packet <= accepted
  /\ \A s, t \in Sessions : Current(s) /\ Current(t) => s = t
  /\ \A s \in Sessions :
       /\ Writing(s) => writer[s].packet <= slot[s].packet
       /\ Current(s) /\ Writing(s) => wire <= writer[s].packet
       /\ Current(s) /\ slot[s].pending => wire <= slot[s].packet

WrittenIsShown ==
  /\ \A s \in Sessions :
       /\ slot[s].packet = slot[s].queued /\ writer[s].packet = writer[s].seq
       /\ writer[s].at = "wrote" /\ writer[s].result = "none" => writer[s].seq <= wire
       /\ slot[s].failure = "none" => slot[s].written <= wire

\* The one who opens has the newest session, which nobody has used yet; nobody drops the
\* port's session; and a writer ends for a reason its slot shows.
Unused(s) == slot[s] = NewSlot /\ writer[s].at \in {"none", "waits"}
OpenersKnown ==
  /\ opening => \E c \in Callers : Opens(c)
  /\ dropped => opening
Reserved(s) == s > opened \/ (opening /\ s = opened)
NewestIsUnused ==
  /\ \A s \in Sessions : Reserved(s) => Unused(s)
  /\ \A c \in Callers : Opens(c) =>
       call[c].session = opened /\ \A d \in Callers \ {c} : call[d].session < opened
LiveIsKept ==
  /\ live # NoSession => ~slot[live].closing
  /\ \A c \in Callers : call[c].at = "drops" => call[c].session # live
Past(s) == writer[s].at \in {"leaves", "closed", "gone"}
EndsHaveReasons == \A s \in Sessions : Past(s) => slot[s].closing \/ slot[s].failure # "none"

\* A paint that nothing disturbed is alone and finds no other's handle in its way; the session
\* it tries again on works.
Healthy(s) ==
  /\ Current(s) /\ slot[s].failure = "none" /\ ~slot[s].closing
  /\ writer[s].at \in {"waits", "writes", "wrote"}
  /\ writer[s].at = "wrote" => writer[s].result = "none"
Alone(c) == \A d \in Callers \ {c} : call[d].at = "idle"
WayIsClear(c) ==
  /\ handles \subseteq {live, call[c].session} /\ (\A s \in handles : writer[s].at # "stuck")
  /\ ~dropped
Tries(f) ==
  /\ f.at \in {"looks", "opens", "files", "checks", "forgets", "drops", "leaves", "answered"}
  /\ f.at = "looks" => f.session = NoSession /\ (f.again => live = NoSession)
  /\ f.at = "opens" => handles = {}
  /\ f.at = "files" => f.answer = "none" /\ Current(f.session)
  /\ f.at = "checks" => f.session = live /\ (f.again => Healthy(f.session))
  /\ f.at \in {"forgets", "drops", "leaves"} => f.answer = "write failed" /\ ~f.again
  /\ f.at = "forgets" => f.session = live
  /\ f.at \in {"drops", "leaves"} => live = NoSession
  /\ f.at = "answered" => f.answer = "ok"
Clean(c) == call[c].op = "paint" /\ call[c].clean /\ call[c].at # "idle"
CleanRuns == \A c \in Callers : Clean(c) => Alone(c) /\ WayIsClear(c) /\ Tries(call[c])

-----------------------------------------------------------------------------
(* Types *)

LEMMA InitIsTyped == Init => TypeOK
<1> SUFFICES ASSUME Init PROVE TypeOK
  OBVIOUS
<1>1. 0 \in Packets /\ 0 \in 0..MaxMishaps /\ 0 \in 0..MaxCalls
  BY CountsAreNumbers DEF Packets
<1>2. NewSlot \in Slots /\ NoWriter \in Writers
  BY <1>1 DEF NewSlot, NoWriter, Slots, Writers, NoPacket
<1>3. Idle \in CallStates
  BY <1>1 DEF Idle, CallStates, Ops, NoSession, NoPacket
<1> QED
  BY <1>1, <1>2, <1>3 DEF Init, TypeOK, NoSession, NoPacket

LEMMA MishapIsCounted ==
  ASSUME mishaps \in 0..MaxMishaps, NEW m, Mishap(m)
  PROVE  mishaps' \in 0..MaxMishaps /\ mishaps' = mishaps + 1
  BY CountsAreNumbers DEF Mishap

\* What the helpers make of typed calls.
LEMMA SpoiltIsTyped ==
  ASSUME NEW cs \in [Callers -> CallStates] PROVE Spoil(cs) \in [Callers -> CallStates]
  BY DEF Spoil, CallStates

LEMMA AwakeIsTyped ==
  ASSUME NEW cs \in [Callers -> CallStates] PROVE Awake(cs) \in [Callers -> CallStates]
  BY DEF Awake, CallStates

LEMMA AnsweredIsTyped ==
  ASSUME NEW f \in CallStates,
         NEW answer \in {"none", "ok", "open failed", "unavailable", "write failed"}
  PROVE  Answered(f, answer) \in CallStates
  BY CountsAreNumbers DEF Answered, TriesAgain, CallStates, NoSession

LEMMA QueuedIsTyped ==
  ASSUME NEW f \in CallStates, NEW s \in Sessions, accepted + 1 \in Packets
  PROVE  Queued(f, s) \in CallStates
  BY DEF Queued, CallStates

LEMMA AcceptIsTyped ==
  ASSUME TypeOK, NEW s \in Sessions, NEW drain \in BOOLEAN, Accept(s, drain)
  PROVE  accepted' \in Packets /\ slot' \in [Sessions -> Slots]
<1> DEFINE new == [slot[s] EXCEPT !.packet = accepted + 1, !.pending = TRUE,
                                 !.queued = accepted + 1,
                                 !.drain_through = IF drain THEN accepted + 1 ELSE @]
<1>1. accepted + 1 \in Packets /\ slot[s] \in Slots
  BY DEF Accept, TypeOK
<1>2. new \in Slots
  BY <1>1 DEF Slots
<1>3. slot' = [slot EXCEPT ![s] = new]
  BY DEF Accept
<1> QED
  BY <1>1, <1>2, <1>3 DEF Accept, TypeOK

LEMMA FreshIsTyped ==
  /\ Idle \in CallStates /\ NoWriter \in Writers /\ NewWriter \in Writers
  /\ [NoWriter EXCEPT !.at = "leaves"] \in Writers
<1>1. 0 \in Packets
  BY CountsAreNumbers DEF Packets
<1> QED
  BY <1>1 DEF Idle, CallStates, NoWriter, NewWriter, Writers, NoSession, NoPacket

LEMMA WakeIsTyped ==
  ASSUME TypeOK, NEW s, Wake(s)
  PROVE  sleeping' \in [Sessions -> SUBSET (Callers \cup {"writer"})]
  BY DEF Wake, TypeOK

LEMMA GoneIsTyped ==
  ASSUME TypeOK, NEW c \in Callers, NEW f \in CallStates
  PROVE  Goes(c, f) \in [Callers -> CallStates]
  BY DEF Goes, TypeOK

LEMMA FiledIsTyped ==
  ASSUME TypeOK, CallsKnown, NEW c \in Callers, Files(c)
  PROVE  \E f \in CallStates : call' = Awake(Goes(c, f))
<1> DEFINE s == call[c].session
<1>0. s \in Sessions /\ call[c] \in CallStates
  BY DEF Files, CallsKnown, TypeOK
<1>1. CASE call[c].answer = "none" /\ KeptWhenDropped
  <2>1. Accept(s, call[c].op = "paint") /\ call' = Awake(Goes(c, Queued(call[c], s)))
    BY <1>1 DEF Files
  <2> QED
    BY <1>0, <2>1, QueuedIsTyped DEF Accept
<1>2. CASE call[c].answer = "none" /\ ~KeptWhenDropped
  <2>1. [call[c] EXCEPT !.at = "drops", !.answer = "unavailable"] \in CallStates
    BY <1>0 DEF CallStates
  <2> QED
    BY <1>2, <2>1 DEF Files
<1>3. CASE call[c].answer # "none"
  <2>1. call[c].answer \in {"none", "ok", "open failed", "unavailable", "write failed"}
    BY <1>0 DEF CallStates
  <2> QED
    BY <1>0, <1>3, <2>1, AnsweredIsTyped DEF Files
<1> QED
  BY <1>1, <1>2, <1>3

LEMMA BeginKeepsTypes ==
  ASSUME TypeOK, NEW c \in Callers, NEW op \in Ops, Begin(c, op)
  PROVE  TypeOK'
<1> DEFINE f == [Idle EXCEPT !.op = op, !.at = IF op = "drop" THEN "removes" ELSE "looks",
                             !.upto = opened, !.clean = (Busy = {} /\ NothingDetached)]
<1>0. Idle \in CallStates /\ opened \in Sessions \cup {NoSession}
  BY FreshIsTyped DEF TypeOK
<1>1. f \in CallStates
  BY <1>0 DEF CallStates, Ops
<1>2. call' = [(IF Busy = {} THEN call ELSE Spoil(call)) EXCEPT ![c] = f]
  BY DEF Begin
<1>3. call' \in [Callers -> CallStates]
  BY <1>1, <1>2, SpoiltIsTyped DEF TypeOK
<1>4. calls' \in 0..MaxCalls
  BY CountsAreNumbers DEF Begin, TypeOK
<1> QED
  BY <1>3, <1>4 DEF Begin, TypeOK, table, port

LEMMA CallsKeepTypes ==
  ASSUME TypeOK, CallsKnown, NEW c \in Callers, CallSteps(c)
  PROVE  TypeOK'
<1>0. /\ call[c] \in CallStates /\ live \in Sessions \cup {NoSession}
      /\ mishaps \in 0..MaxMishaps /\ call \in [Callers -> CallStates]
  BY DEF TypeOK
<1>a. call[c].answer \in {"none", "ok", "open failed", "unavailable", "write failed"}
  BY <1>0 DEF CallStates
<1>1. CASE Returns(c)
  <2>1. Idle \in CallStates
    BY FreshIsTyped
  <2> QED
    BY <1>1, <2>1, GoneIsTyped DEF Returns, TypeOK, table, port
<1>2. CASE WaitsForOpen(c)
  <2>1. [call[c] EXCEPT !.at = "sleeps"] \in CallStates
    BY <1>0 DEF CallStates
  <2> QED
    BY <1>2, <2>1, GoneIsTyped DEF WaitsForOpen, TypeOK, table, port
<1>3. CASE StartsOpen(c)
  <2>1. opened + 1 \in Sessions
    BY <1>3 DEF StartsOpen
  <2>2. [call[c] EXCEPT !.at = "opens", !.session = opened + 1] \in CallStates
    BY <1>0, <2>1 DEF CallStates
  <2> QED
    BY <1>3, <2>1, <2>2, GoneIsTyped DEF StartsOpen, TypeOK, port
<1>4. CASE PortOpens(c)
  <2> DEFINE s == call[c].session
  <2>1. [call[c] EXCEPT !.at = "files"] \in CallStates
    BY <1>0 DEF CallStates
  <2>2. NewWriter \in Writers
    BY FreshIsTyped
  <2>3. s \in Sessions
    BY <1>4 DEF PortOpens, CallsKnown
  <2>4. writer' \in [Sessions -> Writers] /\ handles' \subseteq Sessions
    BY <1>4, <2>2, <2>3 DEF PortOpens, TypeOK
  <2>5. cable' \in [Sessions -> 0..MaxMishaps]
    BY <1>4 DEF PortOpens, TypeOK
  <2>6. call' \in [Callers -> CallStates]
    BY <1>4, <2>1, GoneIsTyped DEF PortOpens
  <2> QED
    BY <1>4, <2>4, <2>5, <2>6 DEF PortOpens, TypeOK, table, Fine
<1>5. CASE PortRefuses(c)
  <2> DEFINE f == [call[c] EXCEPT !.at = "files", !.answer = "open failed",
                                  !.clean = @ /\ handles # {}]
  <2>1. f \in CallStates
    BY <1>0 DEF CallStates
  <2>2. call' = [(IF handles # {} THEN call ELSE Spoil(call)) EXCEPT ![c] = f]
    BY <1>5 DEF PortRefuses
  <2>3. call' \in [Callers -> CallStates]
    BY <1>0, <2>1, <2>2, SpoiltIsTyped
  <2>4. mishaps' \in 0..MaxMishaps
    BY <1>0, <1>5, MishapIsCounted DEF PortRefuses, Fine
  <2> QED
    BY <1>5, <2>3, <2>4 DEF PortRefuses, TypeOK, table, port
<1>6. CASE Files(c)
  <2> DEFINE s == call[c].session
  <2>0. PICK f \in CallStates : call' = Awake(Goes(c, f))
    BY <1>6, FiledIsTyped
  <2>1. s \in Sessions /\ call' \in [Callers -> CallStates]
    BY <1>6, <2>0, GoneIsTyped, AwakeIsTyped DEF Files, CallsKnown
  <2>2. CASE call[c].answer = "none" /\ KeptWhenDropped
    <3>1. Accept(s, call[c].op = "paint") /\ Wake(s) /\ live' = s
      BY <1>6, <2>2 DEF Files
    <3>2. accepted' \in Packets /\ slot' \in [Sessions -> Slots]
      BY <2>1, <3>1, AcceptIsTyped
    <3>3. sleeping' \in [Sessions -> SUBSET (Callers \cup {"writer"})]
      BY <3>1, WakeIsTyped
    <3> QED
      BY <1>6, <2>1, <3>1, <3>2, <3>3 DEF Files, TypeOK, port
  <2>3. CASE ~(call[c].answer = "none" /\ KeptWhenDropped)
    <3>1. UNCHANGED <<live, slot, sleeping, accepted>>
      BY <1>6, <2>3 DEF Files
    <3> QED
      BY <1>6, <2>1, <3>1 DEF Files, TypeOK, port
  <2> QED
    BY <2>2, <2>3
<1>7. CASE Queues(c)
  <2>0. live \in Sessions /\ call[c] \in CallStates
    BY <1>7 DEF Queues, TypeOK
  <2>1. Queued(call[c], live) \in CallStates
    BY <1>7, <2>0, QueuedIsTyped DEF Queues, Accept
  <2>2. accepted' \in Packets /\ slot' \in [Sessions -> Slots]
    BY <1>7, <2>0, AcceptIsTyped DEF Queues
  <2>3. sleeping' \in [Sessions -> SUBSET (Callers \cup {"writer"})]
    BY <1>7, WakeIsTyped DEF Queues
  <2> QED
    BY <1>7, <2>1, <2>2, <2>3, GoneIsTyped DEF Queues, TypeOK, table, port
<1>8. CASE QueueFindsDead(c)
  <2> DEFINE a == IF slot[live].failure # "none" THEN "write failed" ELSE "unavailable"
             f == [call[c] EXCEPT !.at = "drops", !.session = live, !.answer = a]
  <2>1. f \in CallStates
    BY <1>0 DEF CallStates
  <2>2. call' = Goes(c, f)
    BY <1>8 DEF QueueFindsDead
  <2> QED
    BY <1>8, <2>1, <2>2, GoneIsTyped DEF QueueFindsDead, TypeOK, port
<1>9. CASE WaitSucceeds(c)
  <2>1. Answered(call[c], "ok") \in CallStates
    BY <1>0, AnsweredIsTyped
  <2> QED
    BY <1>9, <2>1, GoneIsTyped DEF WaitSucceeds, TypeOK, table, port
<1>10. CASE WaitSleeps(c)
  <2> QED
    BY <1>10 DEF WaitSleeps, TypeOK, table, port
<1>11. CASE WaitFails(c)
  <2>1. [call[c] EXCEPT !.at = "forgets", !.answer = "write failed"] \in CallStates
    BY <1>0 DEF CallStates
  <2> QED
    BY <1>11, <2>1, GoneIsTyped DEF WaitFails, TypeOK, table, port
<1>12. CASE RemoveIfCurrent(c)
  <2>1. [call[c] EXCEPT !.at = "drops"] \in CallStates
    BY <1>0 DEF CallStates
  <2>2. Answered(call[c], call[c].answer) \in CallStates
    BY <1>0, <1>a, AnsweredIsTyped
  <2> QED
    BY <1>12, <2>1, <2>2, GoneIsTyped DEF RemoveIfCurrent, TypeOK, port
<1>13. CASE Removes(c)
  <2>1. [call[c] EXCEPT !.at = "drops", !.session = live, !.answer = "ok"] \in CallStates
    BY <1>0 DEF CallStates
  <2>2. Answered(call[c], "ok") \in CallStates
    BY <1>0, AnsweredIsTyped
  <2>3. call' \in [Callers -> CallStates]
    BY <1>13, <2>1, <2>2, GoneIsTyped DEF Removes
  <2> QED
    BY <1>13, <2>3 DEF Removes, TypeOK, port
<1>14. CASE MarksClosing(c)
  <2>1. [call[c] EXCEPT !.at = "leaves"] \in CallStates
    BY <1>0 DEF CallStates
  <2>2. slot' \in [Sessions -> Slots]
    <3>1. \A t \in Sessions : [slot[t] EXCEPT !.closing = TRUE] \in Slots
      BY DEF TypeOK, Slots
    <3> QED
      BY <1>14, <3>1 DEF MarksClosing, TypeOK
  <2>3. sleeping' \in [Sessions -> SUBSET (Callers \cup {"writer"})]
    BY <1>14, WakeIsTyped DEF MarksClosing
  <2> QED
    BY <1>14, <2>1, <2>2, <2>3, GoneIsTyped DEF MarksClosing, TypeOK, table, port
<1>15. CASE Detaches(c)
  <2>1. Answered(call[c], call[c].answer) \in CallStates
    BY <1>0, <1>a, AnsweredIsTyped
  <2> QED
    BY <1>15, <2>1, GoneIsTyped DEF Detaches, TypeOK, table, port
<1>16. CASE DropSleeps(c)
  <2> QED
    BY <1>16 DEF DropSleeps, TypeOK, table, port
<1> QED
  BY <1>1, <1>2, <1>3, <1>4, <1>5, <1>6, <1>7, <1>8, <1>9, <1>10, <1>11, <1>12, <1>13, <1>14, <1>15, <1>16 DEF CallSteps

LEMMA WritersKeepTypes ==
  ASSUME TypeOK, NEW s \in Sessions, WriterSteps(s)
  PROVE  TypeOK'
<1>0. /\ slot[s] \in Slots /\ writer[s] \in Writers
      /\ mishaps \in 0..MaxMishaps /\ call \in [Callers -> CallStates]
  BY DEF TypeOK
<1>1. CASE WriterSleeps(s)
  <2> QED
    BY <1>1 DEF WriterSleeps, TypeOK, table, port
<1>2. CASE WriterTakes(s)
  <2>1. slot[s] \in Slots
    BY DEF TypeOK
  <2>2. [at |-> "writes", packet |-> slot[s].packet, seq |-> slot[s].queued,
         drain |-> slot[s].queued <= slot[s].drain_through, result |-> "none"] \in Writers
    <3>1. slot[s].packet \in Packets /\ slot[s].queued \in Packets
      BY <2>1 DEF Slots
    <3>2. (slot[s].queued <= slot[s].drain_through) \in BOOLEAN
      OBVIOUS
    <3> QED
      BY <3>1, <3>2, Zenon DEF Writers
  <2>3. [slot[s] EXCEPT !.pending = FALSE] \in Slots
    BY <2>1 DEF Slots
  <2>4. slot' \in [Sessions -> Slots]
    BY <1>2, <2>3 DEF WriterTakes, TypeOK
  <2> QED
    BY <1>2, <2>2, <2>4 DEF WriterTakes, TypeOK, table, port
<1>3. CASE \E result \in {"none", "write failed", "flush failed"} : WriteEnds(s, result)
  <2>1. PICK result \in {"none", "write failed", "flush failed"} : WriteEnds(s, result)
    BY <1>3
  <2>2. [writer[s] EXCEPT !.at = "wrote", !.result = result] \in Writers
    BY <1>0 DEF Writers
  <2>3. writer' \in [Sessions -> Writers] /\ wire' \in Packets
    BY <2>1, <2>2 DEF WriteEnds, TypeOK, Writers
  <2>4. mishaps' \in 0..MaxMishaps
    BY <1>0, <2>1, MishapIsCounted DEF WriteEnds, Fine
  <2>5. call' \in [Callers -> CallStates]
    BY <1>0, <2>1, SpoiltIsTyped DEF WriteEnds
  <2> QED
    BY <2>1, <2>3, <2>4, <2>5 DEF WriteEnds, TypeOK, table
<1>4. CASE Publishes(s)
  <2>1. NewWriter \in Writers /\ [NoWriter EXCEPT !.at = "leaves"] \in Writers
    BY FreshIsTyped
  <2>2. [slot[s] EXCEPT !.written = writer[s].seq, !.failure = writer[s].result] \in Slots
    BY <1>0 DEF Slots, Writers
  <2>3. slot' \in [Sessions -> Slots]
    BY <1>4, <2>2 DEF Publishes, TypeOK
  <2>4. /\ writer' \in [Sessions -> Writers]
        /\ sleeping' \in [Sessions -> SUBSET (Callers \cup {"writer"})]
    BY <1>4, <2>1, WakeIsTyped DEF Publishes, TypeOK
  <2> QED
    BY <1>4, <2>3, <2>4 DEF Publishes, TypeOK, table, port
<1>5. CASE WriterLeaves(s)
  <2>1. [writer[s] EXCEPT !.at = "leaves"] \in Writers
    BY <1>0 DEF Writers
  <2> QED
    BY <1>5, <2>1 DEF WriterLeaves, TypeOK, table, port
<1>6. CASE ClosesPort(s)
  <2>1. [writer[s] EXCEPT !.at = "closed"] \in Writers
    BY <1>0 DEF Writers
  <2> QED
    BY <1>6, <2>1 DEF ClosesPort, TypeOK, table
<1>7. CASE HasLeft(s)
  <2>0. /\ [slot[s] EXCEPT !.exited = TRUE] \in Slots
        /\ [writer[s] EXCEPT !.at = "gone"] \in Writers
    BY <1>0 DEF Slots, Writers
  <2>1. slot' \in [Sessions -> Slots] /\ writer' \in [Sessions -> Writers]
    BY <1>7, <2>0 DEF HasLeft, TypeOK
  <2>2. sleeping' \in [Sessions -> SUBSET (Callers \cup {"writer"})]
    BY <1>7, WakeIsTyped DEF HasLeft
  <2> QED
    BY <1>7, <2>1, <2>2 DEF HasLeft, TypeOK, table, port
<1> QED
  BY <1>1, <1>2, <1>3, <1>4, <1>5, <1>6, <1>7 DEF WriterSteps

LEMMA WorldKeepsTypes ==
  ASSUME TypeOK, plugged <= mishaps
  PROVE  /\ Replug => TypeOK'
         /\ \A s \in Sessions : GetsStuck(s) => TypeOK'
         /\ UNCHANGED vars => TypeOK'
<1>1. ASSUME Replug PROVE TypeOK'
  <2>1. mishaps' \in 0..MaxMishaps /\ plugged' \in 0..MaxMishaps
    BY <1>1, CountsAreNumbers DEF Replug, Mishap, TypeOK
  <2>2. call' \in [Callers -> CallStates]
    BY <1>1, SpoiltIsTyped DEF Replug, TypeOK
  <2> QED
    BY <1>1, <2>1, <2>2 DEF Replug, TypeOK, table
<1>2. ASSUME NEW s \in Sessions, GetsStuck(s) PROVE TypeOK'
  <2>1. mishaps' \in 0..MaxMishaps
    BY <1>2, MishapIsCounted DEF GetsStuck, TypeOK
  <2>2. call' \in [Callers -> CallStates]
    BY <1>2, SpoiltIsTyped DEF GetsStuck, TypeOK
  <2>3. writer' \in [Sessions -> Writers]
    BY <1>2 DEF GetsStuck, TypeOK, Writers
  <2> QED
    BY <1>2, <2>1, <2>2, <2>3 DEF GetsStuck, TypeOK, table, port
<1>3. ASSUME UNCHANGED vars PROVE TypeOK'
  BY <1>3 DEF vars, table, port, TypeOK
<1> QED
  BY <1>1, <1>2, <1>3

-----------------------------------------------------------------------------
(* What a step leaves of the other calls *)

\* What no step of another one changes of a call.
Alike(f, g) ==
  /\ g.op = f.op /\ g.session = f.session /\ g.seq = f.seq /\ g.answer = f.answer
  /\ g.upto = f.upto /\ (g.at = f.at \/ (f.at = "sleeps" /\ g.at = "looks"))

LEMMA AwakeAlike ==
  ASSUME NEW cs \in [Callers -> CallStates], NEW d \in Callers
  PROVE  Alike(cs[d], Awake(cs)[d]) /\ (cs[d].at # "sleeps" => Awake(cs)[d] = cs[d])
  BY DEF Alike, Awake, CallStates

LEMMA SpoiltAlike ==
  ASSUME NEW cs \in [Callers -> CallStates], NEW d \in Callers
  PROVE  Alike(cs[d], Spoil(cs)[d])
  BY DEF Alike, Spoil, CallStates

LEMMA GoesThere ==
  ASSUME TypeOK, NEW c \in Callers, NEW f
  PROVE  Goes(c, f)[c] = f /\ \A d \in Callers \ {c} : Goes(c, f)[d] = call[d]
  BY DEF Goes, TypeOK

LEMMA OthersAlike ==
  ASSUME TypeOK, CallsKnown, NEW c \in Callers, NEW d \in Callers \ {c}, CallSteps(c)
  PROVE  Alike(call[d], call'[d])
<1>0. call \in [Callers -> CallStates] /\ Alike(call[d], call[d])
  BY DEF TypeOK, Alike
<1>1. ASSUME NEW f, call' = Goes(c, f) PROVE Alike(call[d], call'[d])
  BY <1>0, <1>1, GoesThere
<1>2. ASSUME NEW f \in CallStates, call' = Awake(Goes(c, f)) PROVE Alike(call[d], call'[d])
  <2>1. Goes(c, f)[d] = call[d]
    BY GoesThere
  <2>2. Alike(Goes(c, f)[d], Awake(Goes(c, f))[d])
    BY GoneIsTyped, AwakeAlike
  <2> QED
    BY <1>2, <2>1, <2>2
<1>3. CASE PortRefuses(c)
  <2>1. call'[d] = call[d] \/ call'[d] = Spoil(call)[d]
    BY <1>0, <1>3 DEF PortRefuses, Spoil
  <2> QED
    BY <1>0, <2>1, SpoiltAlike
<1>4. CASE Files(c)
  <2>1. \E f \in CallStates : call' = Awake(Goes(c, f))
    BY <1>4, FiledIsTyped
  <2> QED
    BY <1>2, <2>1
<1>5. CASE WaitSleeps(c) \/ DropSleeps(c)
  BY <1>0, <1>5 DEF WaitSleeps, DropSleeps
<1>6. CASE \/ Returns(c) \/ WaitsForOpen(c) \/ StartsOpen(c) \/ PortOpens(c) \/ Queues(c)
           \/ QueueFindsDead(c) \/ WaitSucceeds(c) \/ WaitFails(c) \/ RemoveIfCurrent(c)
           \/ Removes(c) \/ MarksClosing(c) \/ Detaches(c)
  <2>1. \E f : call' = Goes(c, f)
    BY <1>6 DEF Returns, WaitsForOpen, StartsOpen, PortOpens, Queues, QueueFindsDead,
                WaitSucceeds, WaitFails, RemoveIfCurrent, Removes, MarksClosing, Detaches
  <2> QED
    BY <1>1, <2>1
<1> QED
  BY <1>3, <1>4, <1>5, <1>6 DEF CallSteps

\* A step of a writer or of the world, and the beginning of another call.
LEMMA AllAlike ==
  ASSUME TypeOK, NEW d \in Callers,
         \/ \E s \in Sessions : WriterSteps(s) \/ GetsStuck(s)
         \/ Replug
         \/ \E c \in Callers \ {d}, op \in Ops : Begin(c, op)
         \/ UNCHANGED vars
  PROVE  Alike(call[d], call'[d])
<1>0. call \in [Callers -> CallStates] /\ Alike(call[d], call[d])
  BY DEF TypeOK, Alike
<1>1. call'[d] = call[d] \/ call'[d] = Spoil(call)[d]
  BY <1>0 DEF WriterSteps, WriterSleeps, WriterTakes, WriteEnds, Publishes, WriterLeaves,
              ClosesPort, HasLeft, GetsStuck, Replug, Begin, vars, Spoil
<1> QED
  BY <1>0, <1>1, SpoiltAlike

-----------------------------------------------------------------------------
(* Where a step takes its own call *)

Moves(c, at, session, answer) ==
  /\ call'[c].at = at /\ call'[c].session = session /\ call'[c].answer = answer
  /\ call'[c].op = call[c].op /\ call'[c].upto = call[c].upto

Ends(c, answer) ==
  \/ call[c].op = "paint" /\ Moves(c, "looks", NoSession, "none")
  \/ Moves(c, "answered", call[c].session, answer) /\ call'[c].seq = call[c].seq

LEMMA AnsweredEnds ==
  ASSUME TypeOK, NEW c \in Callers, NEW answer, call'[c] = Answered(call[c], answer)
  PROVE  /\ Ends(c, answer)
         /\ answer = "ok" => Moves(c, "answered", call[c].session, "ok")
                               /\ call'[c].seq = call[c].seq
<1>1. call[c] \in CallStates
  BY DEF TypeOK
<1>2. CASE TriesAgain(call[c], answer)
  <2>1. call'[c] = [call[c] EXCEPT !.at = "looks", !.session = NoSession, !.again = TRUE,
                                   !.answer = "none"]
    BY <1>2 DEF Answered
  <2> QED
    BY <1>1, <1>2, <2>1 DEF CallStates, Ends, Moves, TriesAgain
<1>3. CASE ~TriesAgain(call[c], answer)
  <2>1. call'[c] = [call[c] EXCEPT !.at = "answered", !.answer = answer]
    BY <1>3 DEF Answered
  <2> QED
    BY <1>1, <2>1 DEF CallStates, Ends, Moves
<1> QED
  BY <1>2, <1>3

LEMMA QueuedMoves ==
  ASSUME TypeOK, NEW c \in Callers, NEW s, call'[c] = Queued(call[c], s)
  PROVE  \/ Moves(c, "checks", s, call[c].answer) /\ call[c].op = "paint"
         \/ Moves(c, "answered", s, "ok") /\ call[c].op # "paint"
<1>1. call[c] \in CallStates
  BY DEF TypeOK
<1> QED
  BY <1>1 DEF Queued, CallStates, Moves

LEMMA ReturnsMoves ==
  ASSUME TypeOK, NEW c \in Callers, Returns(c)
  PROVE  call'[c] = Idle
  BY GoesThere DEF Returns

LEMMA WaitsForOpenMoves ==
  ASSUME TypeOK, NEW c \in Callers, WaitsForOpen(c)
  PROVE  Moves(c, "sleeps", call[c].session, call[c].answer)
<1>1. call[c] \in CallStates /\ call' = Goes(c, [call[c] EXCEPT !.at = "sleeps"])
  BY DEF TypeOK, WaitsForOpen
<1>2. call'[c] = [call[c] EXCEPT !.at = "sleeps"]
  BY <1>1, GoesThere
<1> QED
  BY <1>1, <1>2 DEF CallStates, Moves

LEMMA StartsOpenMoves ==
  ASSUME TypeOK, NEW c \in Callers, StartsOpen(c)
  PROVE  Moves(c, "opens", opened + 1, call[c].answer)
<1>1. call[c] \in CallStates /\ call' = Goes(c, [call[c] EXCEPT !.at = "opens", !.session = opened + 1])
  BY DEF TypeOK, StartsOpen
<1>2. call'[c] = [call[c] EXCEPT !.at = "opens", !.session = opened + 1]
  BY <1>1, GoesThere
<1> QED
  BY <1>1, <1>2 DEF CallStates, Moves

LEMMA PortOpensMoves ==
  ASSUME TypeOK, NEW c \in Callers, PortOpens(c)
  PROVE  Moves(c, "files", call[c].session, call[c].answer)
<1>1. call[c] \in CallStates /\ call' = Goes(c, [call[c] EXCEPT !.at = "files"])
  BY DEF TypeOK, PortOpens
<1>2. call'[c] = [call[c] EXCEPT !.at = "files"]
  BY <1>1, GoesThere
<1> QED
  BY <1>1, <1>2 DEF CallStates, Moves

LEMMA WaitFailsMoves ==
  ASSUME TypeOK, NEW c \in Callers, WaitFails(c)
  PROVE  Moves(c, "forgets", call[c].session, "write failed")
<1>1. call[c] \in CallStates /\ call' = Goes(c, [call[c] EXCEPT !.at = "forgets", !.answer = "write failed"])
  BY DEF TypeOK, WaitFails
<1>2. call'[c] = [call[c] EXCEPT !.at = "forgets", !.answer = "write failed"]
  BY <1>1, GoesThere
<1> QED
  BY <1>1, <1>2 DEF CallStates, Moves

LEMMA MarksClosingMoves ==
  ASSUME TypeOK, NEW c \in Callers, MarksClosing(c)
  PROVE  Moves(c, "leaves", call[c].session, call[c].answer)
<1>1. call[c] \in CallStates /\ call' = Goes(c, [call[c] EXCEPT !.at = "leaves"])
  BY DEF TypeOK, MarksClosing
<1>2. call'[c] = [call[c] EXCEPT !.at = "leaves"]
  BY <1>1, GoesThere
<1> QED
  BY <1>1, <1>2 DEF CallStates, Moves

LEMMA PortRefusesMoves ==
  ASSUME TypeOK, NEW c \in Callers, PortRefuses(c)
  PROVE  Moves(c, "files", call[c].session, "open failed")
<1>1. call[c] \in CallStates /\ Spoil(call) \in [Callers -> CallStates]
  BY SpoiltIsTyped DEF TypeOK
<1>2. call'[c] = [call[c] EXCEPT !.at = "files", !.answer = "open failed",
                                 !.clean = @ /\ handles # {}]
  BY <1>1 DEF PortRefuses, TypeOK
<1> QED
  BY <1>1, <1>2 DEF CallStates, Moves

LEMMA AnsweredIsPlaced ==
  ASSUME NEW f \in CallStates, NEW answer
  PROVE  Answered(f, answer).at \in {"looks", "answered"}
<1>1. CASE TriesAgain(f, answer)
  BY <1>1 DEF Answered, CallStates
<1>2. CASE ~TriesAgain(f, answer)
  BY <1>2 DEF Answered, CallStates
<1> QED
  BY <1>1, <1>2

\* The caller itself does not sleep.
LEMMA AwakeStays ==
  ASSUME TypeOK, NEW c \in Callers, NEW f \in CallStates, f.at # "sleeps"
  PROVE  Awake(Goes(c, f))[c] = f
<1>1. Goes(c, f) \in [Callers -> CallStates] /\ Goes(c, f)[c] = f
  BY GoesThere, GoneIsTyped
<1> QED
  BY <1>1, AwakeAlike

LEMMA FilesMoves ==
  ASSUME TypeOK, CallsKnown, NEW c \in Callers, Files(c)
  PROVE  LET s == call[c].session
         IN \/ /\ call[c].answer = "none" /\ ~dropped /\ live' = s
               /\ \/ Moves(c, "checks", s, "none") /\ call[c].op = "paint"
                  \/ Moves(c, "answered", s, "ok") /\ call[c].op # "paint"
            \/ /\ call[c].answer = "none" /\ dropped
               /\ Moves(c, "drops", s, "unavailable")
               /\ UNCHANGED <<live, slot, sleeping, accepted>>
            \/ /\ call[c].answer # "none" /\ Ends(c, call[c].answer)
               /\ UNCHANGED <<live, slot, sleeping, accepted>>
<1> DEFINE s == call[c].session
<1>0. s \in Sessions /\ call[c] \in CallStates /\ call \in [Callers -> CallStates]
  BY DEF Files, CallsKnown, TypeOK
<1>1. CASE call[c].answer = "none" /\ ~dropped
  <2>1. /\ Accept(s, call[c].op = "paint") /\ live' = s
        /\ call' = Awake(Goes(c, Queued(call[c], s)))
    BY <1>1 DEF Files, KeptWhenDropped
  <2>2. Queued(call[c], s) \in CallStates /\ Queued(call[c], s).at # "sleeps"
    BY <1>0, <2>1, QueuedIsTyped DEF Accept, Queued, CallStates
  <2>3. call'[c] = Queued(call[c], s)
    BY <2>1, <2>2, AwakeStays
  <2> QED
    BY <1>1, <2>1, <2>3, QueuedMoves
<1>2. CASE call[c].answer = "none" /\ dropped
  <2> DEFINE f == [call[c] EXCEPT !.at = "drops", !.answer = "unavailable"]
  <2>1. call' = Awake(Goes(c, f)) /\ UNCHANGED <<live, slot, sleeping, accepted>>
    BY <1>2 DEF Files, KeptWhenDropped
  <2>2. f \in CallStates /\ f.at # "sleeps"
    BY <1>0 DEF CallStates
  <2>3. call'[c] = f
    BY <2>1, <2>2, AwakeStays
  <2> QED
    BY <1>0, <1>2, <2>1, <2>3 DEF CallStates, Moves
<1>3. CASE call[c].answer # "none"
  <2> DEFINE f == Answered(call[c], call[c].answer)
  <2>1. call' = Awake(Goes(c, f)) /\ UNCHANGED <<live, slot, sleeping, accepted>>
    BY <1>3 DEF Files
  <2>2. call[c].answer \in {"none", "ok", "open failed", "unavailable", "write failed"}
    BY <1>0 DEF CallStates
  <2>3. f \in CallStates /\ f.at # "sleeps"
    BY <1>0, <2>2, AnsweredIsTyped, AnsweredIsPlaced
  <2>4. call'[c] = f
    BY <2>1, <2>3, AwakeStays
  <2> QED
    BY <1>3, <2>1, <2>4, AnsweredEnds
<1> QED
  BY <1>1, <1>2, <1>3

LEMMA QueuesMoves ==
  ASSUME TypeOK, NEW c \in Callers, Queues(c)
  PROVE  \/ Moves(c, "checks", live, call[c].answer) /\ call[c].op = "paint"
         \/ Moves(c, "answered", live, "ok") /\ call[c].op # "paint"
  BY GoesThere, QueuedMoves DEF Queues

LEMMA QueueFindsDeadMoves ==
  ASSUME TypeOK, NEW c \in Callers, QueueFindsDead(c)
  PROVE  Moves(c, "drops", live, call'[c].answer)
<1> DEFINE a == IF slot[live].failure # "none" THEN "write failed" ELSE "unavailable"
           f == [call[c] EXCEPT !.at = "drops", !.session = live, !.answer = a]
<1>1. call[c] \in CallStates /\ call' = Goes(c, f)
  BY DEF TypeOK, QueueFindsDead
<1>2. call'[c] = f
  BY <1>1, GoesThere
<1> QED
  BY <1>1, <1>2 DEF CallStates, Moves

LEMMA WaitSucceedsMoves ==
  ASSUME TypeOK, NEW c \in Callers, WaitSucceeds(c)
  PROVE  Moves(c, "answered", call[c].session, "ok") /\ call'[c].seq = call[c].seq
<1>1. call'[c] = Answered(call[c], "ok")
  BY GoesThere DEF WaitSucceeds
<1> QED
  BY <1>1, AnsweredEnds

LEMMA RemoveIfCurrentMoves ==
  ASSUME TypeOK, NEW c \in Callers, RemoveIfCurrent(c)
  PROVE  \/ /\ live = call[c].session /\ live' = NoSession
            /\ Moves(c, "drops", call[c].session, call[c].answer)
         \/ live # call[c].session /\ live' = live /\ Ends(c, call[c].answer)
<1>0. call[c] \in CallStates
  BY DEF TypeOK
<1>1. CASE live = call[c].session
  <2>1. call'[c] = [call[c] EXCEPT !.at = "drops"] /\ live' = NoSession
    BY <1>1, GoesThere DEF RemoveIfCurrent
  <2> QED
    BY <1>0, <1>1, <2>1 DEF CallStates, Moves
<1>2. CASE live # call[c].session
  <2>1. call'[c] = Answered(call[c], call[c].answer) /\ live' = live
    BY <1>2, GoesThere DEF RemoveIfCurrent
  <2> QED
    BY <1>2, <2>1, AnsweredEnds
<1> QED
  BY <1>1, <1>2

LEMMA RemovesMoves ==
  ASSUME TypeOK, NEW c \in Callers, Removes(c)
  PROVE  \/ live = NoSession /\ Moves(c, "answered", call[c].session, "ok")
         \/ live # NoSession /\ Moves(c, "drops", live, "ok")
<1>0. call[c] \in CallStates
  BY DEF TypeOK
<1>1. CASE live = NoSession
  <2>1. call'[c] = Answered(call[c], "ok")
    BY <1>1, GoesThere DEF Removes
  <2> QED
    BY <1>1, <2>1, AnsweredEnds
<1>2. CASE live # NoSession
  <2>1. call'[c] = [call[c] EXCEPT !.at = "drops", !.session = live, !.answer = "ok"]
    BY <1>2, GoesThere DEF Removes
  <2> QED
    BY <1>0, <1>2, <2>1 DEF CallStates, Moves
<1> QED
  BY <1>1, <1>2

LEMMA DetachesMoves ==
  ASSUME TypeOK, NEW c \in Callers, Detaches(c)
  PROVE  Ends(c, call[c].answer)
<1>1. call'[c] = Answered(call[c], call[c].answer)
  BY GoesThere DEF Detaches
<1> QED
  BY <1>1, AnsweredEnds

-----------------------------------------------------------------------------
(* What a step does to the sessions and the port *)

\* A slot that takes a packet, and the others.
LEMMA AcceptLeaves ==
  ASSUME TypeOK, NEW s \in Sessions, NEW drain, Accept(s, drain)
  PROVE  /\ accepted' = accepted + 1
         /\ \A t \in Sessions \ {s} : slot'[t] = slot[t]
         /\ slot'[s].packet = accepted + 1 /\ slot'[s].queued = accepted + 1
         /\ slot'[s].closing = slot[s].closing /\ slot'[s].exited = slot[s].exited
         /\ slot'[s].failure = slot[s].failure /\ slot'[s].written = slot[s].written
<1>1. slot \in [Sessions -> Slots] /\ slot[s] \in Slots
  BY DEF TypeOK
<1> QED
  BY <1>1 DEF Accept, Slots

\* What a step of a call leaves of a session.
SlotKept(s) ==
  /\ slot'[s].exited = slot[s].exited /\ (slot[s].closing => slot'[s].closing)
  /\ slot'[s].failure = slot[s].failure /\ slot'[s].written = slot[s].written
PacketKept(s) ==
  /\ slot'[s].packet = slot[s].packet /\ slot'[s].queued = slot[s].queued
  /\ slot'[s].pending = slot[s].pending

LEMMA CallsLeave ==
  ASSUME TypeOK, CallsKnown, NEW c \in Callers, CallSteps(c)
  PROVE  /\ plugged' = plugged /\ mishaps' >= mishaps /\ wire' = wire
         /\ \/ StartsOpen(c) /\ opened' = opened + 1
            \/ opened' = opened
         /\ PortOpens(c) \/ UNCHANGED <<writer, handles, cable>>
         /\ \A s \in Sessions : SlotKept(s)
         /\ \/ (\A s \in Sessions : PacketKept(s)) /\ accepted' = accepted
            \/ \E t \in Sessions :
                 /\ writer[t].at # "none" /\ accepted' = accepted + 1
                 /\ slot'[t].packet = accepted + 1 /\ slot'[t].queued = accepted + 1
                 /\ \A s \in Sessions \ {t} : PacketKept(s)
<1>0. mishaps \in Nat /\ slot \in [Sessions -> Slots]
  BY CountsAreNumbers DEF TypeOK
<1>1. CASE slot' = slot /\ accepted' = accepted
  <2>1. \A s \in Sessions : SlotKept(s) /\ PacketKept(s)
    BY <1>1 DEF SlotKept, PacketKept
  <2>2. mishaps' >= mishaps
    BY <1>0 DEF CallSteps, Returns, WaitsForOpen, StartsOpen, PortOpens, PortRefuses, Files,
                Queues, QueueFindsDead, WaitSucceeds, WaitSleeps, WaitFails, RemoveIfCurrent,
                Removes, MarksClosing, Detaches, DropSleeps, Mishap, Fine
  <2>3. /\ plugged' = plugged /\ wire' = wire
        /\ (StartsOpen(c) /\ opened' = opened + 1) \/ opened' = opened
        /\ PortOpens(c) \/ UNCHANGED <<writer, handles, cable>>
    BY DEF CallSteps, Returns, WaitsForOpen, StartsOpen, PortOpens, PortRefuses, Files,
           Queues, QueueFindsDead, WaitSucceeds, WaitSleeps, WaitFails, RemoveIfCurrent,
           Removes, MarksClosing, Detaches, DropSleeps, port
  <2> QED
    BY <1>1, <2>1, <2>2, <2>3
<1>2. ASSUME NEW t \in Sessions, NEW drain, writer[t].at # "none", Accept(t, drain)
      PROVE  /\ \A s \in Sessions : SlotKept(s)
             /\ accepted' = accepted + 1
             /\ slot'[t].packet = accepted + 1 /\ slot'[t].queued = accepted + 1
             /\ \A s \in Sessions \ {t} : PacketKept(s)
  BY <1>2, AcceptLeaves DEF SlotKept, PacketKept
<1>3. CASE Files(c) /\ ~(slot' = slot /\ accepted' = accepted)
  <2> DEFINE s == call[c].session
  <2>1. call[c].answer = "none" /\ Accept(s, call[c].op = "paint")
    BY <1>3 DEF Files
  <2>2. s \in Sessions /\ writer[s].at # "none"
    BY <1>3, <2>1 DEF Files, CallsKnown
  <2>3. UNCHANGED <<writer, port, opened, mishaps>>
    BY <1>3 DEF Files
  <2>4. UNCHANGED <<plugged, wire, writer, handles, cable, opened>> /\ mishaps' >= mishaps
    BY <1>0, <2>3 DEF port
  <2> QED
    BY <1>2, <2>1, <2>2, <2>4
<1>4. CASE Queues(c)
  <2>1. live \in Sessions /\ writer[live].at # "none" /\ Accept(live, call[c].op = "paint")
    BY <1>4 DEF Queues, CallsKnown, TypeOK
  <2>2. UNCHANGED <<plugged, wire, writer, handles, cable, opened>> /\ mishaps' >= mishaps
    BY <1>0, <1>4 DEF Queues, port
  <2> QED
    BY <1>2, <2>1, <2>2
<1>5. CASE MarksClosing(c)
  <2>1. \A s \in Sessions : SlotKept(s) /\ PacketKept(s)
    BY <1>0, <1>5 DEF MarksClosing, SlotKept, PacketKept, Slots
  <2> QED
    BY <1>0, <1>5, <2>1 DEF MarksClosing, port
<1>6. Files(c) \/ Queues(c) \/ MarksClosing(c) \/ (slot' = slot /\ accepted' = accepted)
  BY DEF CallSteps, Returns, WaitsForOpen, StartsOpen, PortOpens, PortRefuses,
         QueueFindsDead, WaitSucceeds, WaitSleeps, WaitFails, RemoveIfCurrent,
         Removes, Detaches, DropSleeps
<1> QED
  BY <1>1, <1>3, <1>4, <1>5, <1>6

\* What the writers' steps leave alone, and where they take their writer.
LEMMA WritersLeave ==
  ASSUME TypeOK, NEW s \in Sessions, WriterSteps(s) \/ GetsStuck(s)
  PROVE  /\ UNCHANGED <<live, opening, dropped, plugged, cable, opened, accepted>>
         /\ mishaps' >= mishaps
         /\ \A t \in Sessions \ {s} : writer'[t] = writer[t] /\ slot'[t] = slot[t]
         /\ \A t \in Sessions \ {s} : t \in handles' <=> t \in handles
         /\ handles' \subseteq handles
         /\ slot'[s].closing = slot[s].closing
         /\ slot'[s].packet = slot[s].packet /\ slot'[s].queued = slot[s].queued
         /\ slot'[s].pending => slot[s].pending
         /\ writer[s].at # "none" /\ writer'[s].at # "none"
         /\ writer'[s].at = "writes" => writer[s].at = "writes" \/ ~slot[s].closing
<1>0. /\ mishaps \in Nat /\ slot \in [Sessions -> Slots] /\ writer \in [Sessions -> Writers]
      /\ slot[s] \in Slots /\ writer[s] \in Writers
  BY CountsAreNumbers DEF TypeOK
<1>1. UNCHANGED <<live, opening, dropped, plugged, cable, opened, accepted>>
  BY DEF WriterSteps, WriterSleeps, WriterTakes, WriteEnds, Publishes, WriterLeaves, ClosesPort, HasLeft,
         GetsStuck, table, port
<1>2. mishaps' >= mishaps
  BY <1>0 DEF WriterSteps, WriterSleeps, WriterTakes, WriteEnds, Publishes, WriterLeaves, ClosesPort, HasLeft,
         GetsStuck, Mishap, Fine
<1>3. \A t \in Sessions \ {s} : writer'[t] = writer[t] /\ slot'[t] = slot[t]
  BY <1>0 DEF WriterSteps, WriterSleeps, WriterTakes, WriteEnds, Publishes, WriterLeaves, ClosesPort, HasLeft,
         GetsStuck
<1>4. handles' = handles \/ handles' = handles \ {s}
  BY DEF WriterSteps, WriterSleeps, WriterTakes, WriteEnds, Publishes, WriterLeaves, ClosesPort, HasLeft,
         GetsStuck, port
<1>5. /\ slot'[s].closing = slot[s].closing
      /\ slot'[s].packet = slot[s].packet /\ slot'[s].queued = slot[s].queued
      /\ slot'[s].pending => slot[s].pending
  <2>1. \/ slot' = slot
        \/ slot' = [slot EXCEPT ![s].pending = FALSE]
        \/ slot' = [slot EXCEPT ![s].exited = TRUE]
        \/ slot' = [slot EXCEPT ![s] = [slot[s] EXCEPT !.written = writer[s].seq,
                                                      !.failure = writer[s].result]]
    BY DEF WriterSteps, WriterSleeps, WriterTakes, WriteEnds, Publishes, WriterLeaves, ClosesPort, HasLeft,
         GetsStuck
  <2> QED
    BY <1>0, <2>1 DEF Slots
<1>6. /\ writer[s].at # "none" /\ writer'[s].at # "none"
      /\ writer'[s].at = "writes" => writer[s].at = "writes" \/ ~slot[s].closing
  <2>1. CASE WriterSleeps(s)
    BY <1>0, <2>1 DEF WriterSleeps
  <2>2. CASE WriterTakes(s)
    BY <1>0, <2>2 DEF WriterTakes
  <2>3. CASE \E result \in {"none", "write failed", "flush failed"} : WriteEnds(s, result)
    BY <1>0, <2>3 DEF WriteEnds, Writers
  <2>4. CASE Publishes(s)
    BY <1>0, <2>4 DEF Publishes, NewWriter, NoWriter, Writers
  <2>5. CASE WriterLeaves(s)
    BY <1>0, <2>5 DEF WriterLeaves, Writers
  <2>6. CASE ClosesPort(s)
    BY <1>0, <2>6 DEF ClosesPort, Writers
  <2>7. CASE HasLeft(s)
    BY <1>0, <2>7 DEF HasLeft, Writers
  <2>8. CASE GetsStuck(s)
    BY <1>0, <2>8 DEF GetsStuck, Writers
  <2> QED
    BY <2>1, <2>2, <2>3, <2>4, <2>5, <2>6, <2>7, <2>8 DEF WriterSteps
<1> QED
  BY <1>1, <1>2, <1>3, <1>4, <1>5, <1>6

LEMMA BeginMoves ==
  ASSUME TypeOK, NEW c \in Callers, NEW op \in Ops, Begin(c, op)
  PROVE  /\ call'[c].at = IF op = "drop" THEN "removes" ELSE "looks"
         /\ call'[c].session = NoSession /\ call'[c].answer = "none"
         /\ call'[c].op = op /\ call'[c].upto = opened
<1> DEFINE f == [Idle EXCEPT !.op = op, !.at = IF op = "drop" THEN "removes" ELSE "looks",
                             !.upto = opened, !.clean = (Busy = {} /\ NothingDetached)]
<1>1. call \in [Callers -> CallStates] /\ Spoil(call) \in [Callers -> CallStates]
  BY SpoiltIsTyped DEF TypeOK
<1>2. call'[c] = f
  BY <1>1 DEF Begin
<1> QED
  BY <1>2 DEF Idle

\* The beginning of a call, a new plugging, and no step.
Quiet == /\ UNCHANGED <<live, opening, dropped, slot, writer, handles, cable, wire, opened, accepted>>
         /\ (plugged' = plugged /\ mishaps' = mishaps) \/ (plugged' = plugged + 1 /\ mishaps' = mishaps + 1)

LEMMA QuietSteps ==
  ASSUME (\E c \in Callers, op \in Ops : Begin(c, op)) \/ Replug \/ UNCHANGED vars
  PROVE  Quiet
  BY DEF Begin, Replug, Mishap, vars, table, port, Quiet

\* Every step is one of these.
LEMMA NextCases ==
  ASSUME [Next]_vars
  PROVE  \/ \E c \in Callers, op \in Ops : Begin(c, op)
         \/ \E c \in Callers : CallSteps(c)
         \/ \E s \in Sessions : WriterSteps(s) \/ GetsStuck(s)
         \/ Replug
         \/ UNCHANGED vars
  BY DEF Next

-----------------------------------------------------------------------------
(* Each part of the control is kept by every step *)

Control == Counted /\ WritersKnown /\ CallsKnown /\ OneOpener /\ DropsHold

\* The session a step gives its call.
LEMMA SessionGiven ==
  ASSUME TypeOK, CallsKnown, NEW c \in Callers, CallSteps(c)
  PROVE  /\ \/ call'[c].session \in {NoSession, live, call[c].session}
            \/ StartsOpen(c) /\ call'[c].session = opened + 1
         /\ call'[c].upto \in {NoSession, call[c].upto}
<1>1. CASE WaitSleeps(c) \/ DropSleeps(c)
  BY <1>1 DEF WaitSleeps, DropSleeps
<1>2. CASE Returns(c)
  BY <1>2, ReturnsMoves DEF Idle
<1>3. CASE Files(c)
  BY <1>3, FilesMoves DEF Moves, Ends
<1>4. CASE \/ WaitsForOpen(c) \/ StartsOpen(c) \/ PortOpens(c) \/ PortRefuses(c) \/ Queues(c)
  BY <1>4, WaitsForOpenMoves, StartsOpenMoves, PortOpensMoves, PortRefusesMoves, QueuesMoves
     DEF Moves
<1>5. CASE \/ QueueFindsDead(c) \/ WaitSucceeds(c) \/ WaitFails(c) \/ MarksClosing(c)
  BY <1>5, QueueFindsDeadMoves, WaitSucceedsMoves, WaitFailsMoves, MarksClosingMoves DEF Moves
<1>6. CASE RemoveIfCurrent(c) \/ Removes(c) \/ Detaches(c)
  BY <1>6, RemoveIfCurrentMoves, RemovesMoves, DetachesMoves DEF Moves, Ends
<1> QED
  BY <1>1, <1>2, <1>3, <1>4, <1>5, <1>6 DEF CallSteps

LEMMA Numbers ==
  ASSUME TypeOK
  PROVE  /\ opened \in Nat /\ live \in Nat /\ accepted \in Nat /\ wire \in Nat
         /\ plugged \in Nat /\ mishaps \in Nat
         /\ \A s \in Sessions : s \in Nat /\ s # NoSession /\ cable[s] \in Nat
         /\ \A c \in Callers : call[c].upto \in Nat /\ call[c].session \in Nat
<1>1. Sessions \subseteq Nat /\ Packets \subseteq Nat /\ NoSession \in Nat /\ NoSession \notin Sessions
  BY CountsAreNumbers DEF Sessions, Packets, NoSession
<1>2. \A c \in Callers : call[c] \in CallStates
  BY DEF TypeOK
<1>3. \A c \in Callers : call[c].upto \in Sessions \cup {NoSession}
                         /\ call[c].session \in Sessions \cup {NoSession}
  BY <1>2 DEF CallStates
<1>4. plugged \in Nat /\ mishaps \in Nat /\ \A s \in Sessions : cable[s] \in Nat
  BY CountsAreNumbers DEF TypeOK
<1> QED
  BY <1>1, <1>3, <1>4 DEF TypeOK

\* Whose step it is, and that it leaves the other calls.
LEMMA StepKinds ==
  ASSUME TypeOK, CallsKnown, [Next]_vars
  PROVE  \/ \E c \in Callers, op \in Ops :
              Begin(c, op) /\ Quiet /\ \A d \in Callers \ {c} : Alike(call[d], call'[d])
         \/ \E c \in Callers : CallSteps(c) /\ \A d \in Callers \ {c} : Alike(call[d], call'[d])
         \/ \E s \in Sessions :
              (WriterSteps(s) \/ GetsStuck(s)) /\ \A d \in Callers : Alike(call[d], call'[d])
         \/ Quiet /\ \A d \in Callers : Alike(call[d], call'[d])
<1>1. CASE \E c \in Callers, op \in Ops : Begin(c, op)
  BY <1>1, AllAlike, QuietSteps
<1>2. CASE \E c \in Callers : CallSteps(c)
  BY <1>2, OthersAlike
<1>3. CASE \E s \in Sessions : WriterSteps(s) \/ GetsStuck(s)
  BY <1>3, AllAlike
<1>4. CASE Replug \/ UNCHANGED vars
  BY <1>4, AllAlike, QuietSteps
<1> QED
  BY <1>1, <1>2, <1>3, <1>4, NextCases

LEMMA CountedKept ==
  ASSUME TypeOK, Control, TypeOK', [Next]_vars
  PROVE  Counted'
<1>0. /\ opened \in Nat /\ plugged \in Nat /\ mishaps \in Nat
      /\ \A c \in Callers : call[c].upto \in Nat /\ call[c].session \in Nat
      /\ live \in Nat /\ \A s \in Sessions : s \in Nat /\ cable[s] \in Nat
  BY Numbers
<1>a. mishaps' \in Nat
  BY CountsAreNumbers DEF TypeOK
<1>l. live <= opened
  BY <1>0 DEF Control, Counted, CallsKnown, NoSession, TypeOK
<1>1. CASE \E c \in Callers, op \in Ops :
             Begin(c, op) /\ Quiet /\ \A d \in Callers \ {c} : Alike(call[d], call'[d])
  <2> PICK c \in Callers, op \in Ops :
             Begin(c, op) /\ Quiet /\ \A d \in Callers \ {c} : Alike(call[d], call'[d])
    BY <1>1
  <2>1. call'[c].upto <= opened' /\ call'[c].session <= opened'
    BY <1>0, BeginMoves DEF Quiet, NoSession
  <2> QED
    BY <1>0, <2>1 DEF Quiet, Alike, Control, Counted
<1>2. CASE \E c \in Callers : CallSteps(c) /\ \A d \in Callers \ {c} : Alike(call[d], call'[d])
  <2> PICK c \in Callers : CallSteps(c) /\ \A d \in Callers \ {c} : Alike(call[d], call'[d])
    BY <1>2
  <2>0. /\ opened' >= opened /\ opened' \in Nat /\ plugged' = plugged /\ mishaps' >= mishaps
        /\ StartsOpen(c) => opened' = opened + 1
        /\ PortOpens(c) \/ UNCHANGED <<writer, handles, cable>>
    <3>1. (StartsOpen(c) /\ opened' = opened + 1) \/ opened' = opened
      BY CallsLeave DEF Control
    <3>2. plugged' = plugged /\ mishaps' >= mishaps
          /\ (PortOpens(c) \/ UNCHANGED <<writer, handles, cable>>)
      BY CallsLeave DEF Control
    <3>3. StartsOpen(c) => opened' = opened + 1
      BY DEF StartsOpen
    <3> QED
      BY <1>0, <3>1, <3>2, <3>3
  <2>1. \A d \in Callers \ {c} : call'[d].upto <= opened' /\ call'[d].session <= opened'
    BY <1>0, <2>0 DEF Alike, Control, Counted
  <2>2. call'[c].upto <= opened' /\ call'[c].session <= opened'
    <3>1. call[c].upto <= opened /\ call[c].session <= opened
      BY DEF Control, Counted
    <3>2. /\ \/ call'[c].session \in {NoSession, live, call[c].session}
             \/ StartsOpen(c) /\ call'[c].session = opened + 1
          /\ call'[c].upto \in {NoSession, call[c].upto}
      BY SessionGiven DEF Control
    <3> QED
      BY <1>0, <1>l, <2>0, <3>1, <3>2 DEF NoSession
  <2>3. CASE PortOpens(c)
    <3>1. /\ call[c].session \in Sessions /\ opened' = opened /\ plugged' = plugged
          /\ writer' = [writer EXCEPT ![call[c].session] = NewWriter]
          /\ cable' = [cable EXCEPT ![call[c].session] = plugged]
      BY <2>3 DEF PortOpens, Control, CallsKnown
    <3>2. \A s \in Sessions : s > opened' => writer'[s].at = "none"
      BY <1>0, <3>1 DEF Control, Counted, TypeOK
    <3>3. \A s \in Sessions : cable'[s] <= plugged'
      BY <1>0, <3>1 DEF Control, Counted, TypeOK
    <3> QED
      BY <1>0, <1>a, <2>0, <2>1, <2>2, <3>2, <3>3 DEF Control, Counted
  <2>4. CASE UNCHANGED <<writer, handles, cable>>
    BY <1>0, <1>a, <2>0, <2>1, <2>2, <2>4 DEF Control, Counted
  <2> QED
    BY <2>0, <2>3, <2>4
<1>3. CASE \E s \in Sessions :
             (WriterSteps(s) \/ GetsStuck(s)) /\ \A d \in Callers : Alike(call[d], call'[d])
  <2> PICK s \in Sessions :
             (WriterSteps(s) \/ GetsStuck(s)) /\ \A d \in Callers : Alike(call[d], call'[d])
    BY <1>3
  <2> QED
    BY <1>0, <1>a, WritersLeave DEF Alike, Control, Counted
<1>4. CASE Quiet /\ \A d \in Callers : Alike(call[d], call'[d])
  BY <1>0, <1>4 DEF Quiet, Alike, Control, Counted
<1> QED
  BY <1>1, <1>2, <1>3, <1>4, StepKinds DEF Control

\* Where the writers are, and what the calls have in hand, as a step leaves them.
LEMMA WritersKnownKept ==
  ASSUME TypeOK, Control, [Next]_vars
  PROVE  WritersKnown'
<1>0. /\ slot \in [Sessions -> Slots] /\ writer \in [Sessions -> Writers]
      /\ handles \subseteq Sessions
      /\ \A s \in Sessions : slot[s] \in Slots /\ writer[s] \in Writers
  BY DEF TypeOK
<1>1. CASE Quiet
  BY <1>1 DEF Quiet, Control, WritersKnown
<1>2. CASE \E c \in Callers : CallSteps(c)
  <2> PICK c \in Callers : CallSteps(c)
    BY <1>2
  <2>1. /\ PortOpens(c) \/ UNCHANGED <<writer, handles, cable>>
        /\ \A s \in Sessions : SlotKept(s)
        /\ \A s \in Sessions : PacketKept(s) \/ writer[s].at # "none"
    BY CallsLeave DEF Control
  <2>2. CASE PortOpens(c)
    <3>1. /\ call[c].session \in Sessions /\ slot' = slot
          /\ handles' = handles \cup {call[c].session}
          /\ writer' = [writer EXCEPT ![call[c].session] = NewWriter]
          /\ writer[call[c].session].at = "none"
      BY <2>2 DEF PortOpens, Control, CallsKnown
    <3>2. NewWriter.at = "waits"
      BY DEF NewWriter, NoWriter
    <3> QED
      BY <1>0, <3>1, <3>2 DEF Control, WritersKnown
  <2>3. CASE UNCHANGED <<writer, handles, cable>>
    BY <2>1, <2>3 DEF SlotKept, PacketKept, Control, WritersKnown
  <2> QED
    BY <2>1, <2>2, <2>3
<1>3. CASE \E s \in Sessions : WriterSteps(s) \/ GetsStuck(s)
  <2> PICK s \in Sessions : WriterSteps(s) \/ GetsStuck(s)
    BY <1>3
  <2>0. /\ s \in handles <=> writer[s].at \in {"waits", "writes", "stuck", "wrote", "leaves"}
        /\ slot[s].exited <=> writer[s].at = "gone"
    BY DEF Control, WritersKnown
  <2>1. /\ s \in handles' <=> writer'[s].at \in {"waits", "writes", "stuck", "wrote", "leaves"}
        /\ slot'[s].exited <=> writer'[s].at = "gone"
    <3>1. CASE WriterSleeps(s)
      BY <1>0, <2>0, <3>1 DEF WriterSleeps, port
    <3>2. CASE WriterTakes(s)
      BY <1>0, <2>0, <3>2 DEF WriterTakes, port, Slots
    <3>3. CASE \E result \in {"none", "write failed", "flush failed"} : WriteEnds(s, result)
      <4>1. /\ writer[s].at \in {"writes", "stuck"} /\ UNCHANGED <<slot, handles>>
            /\ \E result : writer' = [writer EXCEPT ![s] =
                                  [writer[s] EXCEPT !.at = "wrote", !.result = result]]
        BY <3>3 DEF WriteEnds
      <4> QED
        BY <1>0, <2>0, <4>1 DEF Writers
    <3>4. CASE Publishes(s)
      BY <1>0, <2>0, <3>4 DEF Publishes, NewWriter, NoWriter, Slots, port
    <3>5. CASE WriterLeaves(s)
      BY <1>0, <2>0, <3>5 DEF WriterLeaves, Writers, port
    <3>6. CASE ClosesPort(s)
      BY <1>0, <2>0, <3>6 DEF ClosesPort, Writers
    <3>7. CASE HasLeft(s)
      BY <1>0, <2>0, <3>7 DEF HasLeft, Writers, Slots, port
    <3>8. CASE GetsStuck(s)
      BY <1>0, <2>0, <3>8 DEF GetsStuck, Writers, port
    <3> QED
      BY <3>1, <3>2, <3>3, <3>4, <3>5, <3>6, <3>7, <3>8 DEF WriterSteps
  <2>2. /\ \A t \in Sessions \ {s} : writer'[t] = writer[t] /\ slot'[t] = slot[t]
        /\ \A t \in Sessions \ {s} : t \in handles' <=> t \in handles
        /\ writer'[s].at # "none"
    BY WritersLeave
  <2>3. ASSUME NEW t \in Sessions \ {s}
        PROVE  /\ t \in handles' <=> writer'[t].at \in {"waits", "writes", "stuck", "wrote", "leaves"}
               /\ slot'[t].exited <=> writer'[t].at = "gone"
               /\ writer'[t].at = "none" => ~slot'[t].pending
    BY <2>2 DEF Control, WritersKnown
  <2> QED
    BY <2>1, <2>2, <2>3 DEF WritersKnown
<1> QED
  BY <1>1, <1>2, <1>3, StepKinds DEF Control

\* What CallsKnown says of one call.
CallKnown(f) ==
  /\ f.at \in {"looks", "sleeps", "opens"} => f.answer = "none"
  /\ f.op = "drop" => f.at \in {"removes", "drops", "leaves", "answered"}
  /\ f.at = "removes" => f.op = "drop"
  /\ f.op = "paint" /\ f.answer = "ok" => f.at = "answered"
  /\ f.at = "checks" => f.answer = "none"
  /\ f.at \in {"opens", "files", "checks", "forgets", "drops", "leaves"} => f.session \in Sessions
  /\ f.at = "opens" => writer[f.session].at = "none"
  /\ f.at = "files" => (f.answer = "none" <=> writer[f.session].at # "none")
  /\ f.at = "leaves" => slot[f.session].closing

LEMMA CallsAreKnown ==
  CallsKnown <=> (live # NoSession => writer[live].at # "none") /\ \A c \in Callers : CallKnown(call[c])
  BY DEF CallsKnown, CallKnown

LEMMA OwnCallKnown ==
  ASSUME TypeOK, Control, NEW c \in Callers, CallSteps(c)
  PROVE  CallKnown(call[c])'
<1>0. /\ call[c] \in CallStates /\ live \in Sessions \cup {NoSession} /\ CallKnown(call[c])
      /\ live # NoSession => live \in Sessions
  BY CallsAreKnown DEF TypeOK, Control
<1>1. CASE WaitSleeps(c) \/ DropSleeps(c)
  BY <1>0, <1>1 DEF WaitSleeps, DropSleeps, CallKnown
<1>2. CASE Returns(c)
  BY <1>2, ReturnsMoves DEF Idle, CallKnown
<1>3. CASE Files(c)
  <2>1. call[c].at = "files"
    BY <1>3 DEF Files
  <2> QED
    BY <1>0, <1>3, <2>1, FilesMoves DEF Moves, Ends, CallKnown, Control
<1>4. CASE WaitsForOpen(c)
  <2>1. call[c].at = "looks"
    BY <1>4 DEF WaitsForOpen
  <2> QED
    BY <1>0, <1>4, <2>1, WaitsForOpenMoves DEF Moves, CallKnown
<1>5. CASE StartsOpen(c)
  <2>1. /\ call[c].at = "looks" /\ opened + 1 \in Sessions /\ writer' = writer
    BY <1>5 DEF StartsOpen
  <2>2. writer[opened + 1].at = "none"
    BY <2>1, Numbers DEF Control, Counted
  <2> QED
    BY <1>0, <1>5, <2>1, <2>2, StartsOpenMoves DEF Moves, CallKnown
<1>6. CASE PortOpens(c)
  <2>1. /\ call[c].at = "opens" /\ writer' = [writer EXCEPT ![call[c].session] = NewWriter]
    BY <1>6 DEF PortOpens
  <2>2. call[c].session \in Sessions /\ call[c].answer = "none"
    BY <1>0, <2>1 DEF CallKnown
  <2>3. writer'[call[c].session].at = "waits"
    BY <2>1, <2>2 DEF TypeOK, NewWriter, NoWriter
  <2> QED
    BY <1>0, <1>6, <2>1, <2>2, <2>3, PortOpensMoves DEF Moves, CallKnown
<1>7. CASE PortRefuses(c)
  <2>1. call[c].at = "opens" /\ writer' = writer
    BY <1>7 DEF PortRefuses
  <2> QED
    BY <1>0, <1>7, <2>1, PortRefusesMoves DEF Moves, CallKnown
<1>8. CASE Queues(c)
  <2>1. call[c].at = "looks" /\ live # NoSession
    BY <1>8 DEF Queues
  <2> QED
    BY <1>0, <1>8, <2>1, QueuesMoves DEF Moves, CallKnown
<1>9. CASE QueueFindsDead(c)
  <2>1. call[c].at = "looks" /\ live # NoSession
    BY <1>9 DEF QueueFindsDead
  <2>2. call'[c].answer \in {"write failed", "unavailable"}
    <3>1. call'[c] = [call[c] EXCEPT !.at = "drops", !.session = live,
            !.answer = IF slot[live].failure # "none" THEN "write failed" ELSE "unavailable"]
      BY <1>9, GoesThere DEF QueueFindsDead
    <3> QED
      BY <1>0, <3>1 DEF CallStates
  <2> QED
    BY <1>0, <1>9, <2>1, <2>2, QueueFindsDeadMoves DEF Moves, CallKnown
<1>10. CASE WaitSucceeds(c)
  <2>1. call[c].at = "checks"
    BY <1>10 DEF WaitSucceeds
  <2> QED
    BY <1>0, <1>10, <2>1, WaitSucceedsMoves DEF Moves, CallKnown
<1>11. CASE WaitFails(c)
  <2>1. call[c].at = "checks"
    BY <1>11 DEF WaitFails
  <2> QED
    BY <1>0, <1>11, <2>1, WaitFailsMoves DEF Moves, CallKnown
<1>12. CASE RemoveIfCurrent(c)
  <2>1. call[c].at = "forgets"
    BY <1>12 DEF RemoveIfCurrent
  <2> QED
    BY <1>0, <1>12, <2>1, RemoveIfCurrentMoves DEF Moves, Ends, CallKnown
<1>13. CASE Removes(c)
  <2>1. call[c].at = "removes" /\ call[c].op = "drop"
    BY <1>0, <1>13 DEF Removes, CallKnown, CallStates
  <2> QED
    BY <1>0, <1>13, <2>1, RemovesMoves DEF Moves, CallKnown
<1>14. CASE MarksClosing(c)
  <2>1. call[c].at = "drops" /\ slot' = [slot EXCEPT ![call[c].session].closing = TRUE]
    BY <1>14 DEF MarksClosing
  <2>2. call[c].session \in Sessions
    BY <1>0, <2>1 DEF CallKnown
  <2>3. slot'[call[c].session].closing
    BY <2>1, <2>2 DEF TypeOK, Slots
  <2> QED
    BY <1>0, <1>14, <2>1, <2>2, <2>3, MarksClosingMoves DEF Moves, CallKnown
<1>15. CASE Detaches(c)
  <2>1. call[c].at = "leaves"
    BY <1>15 DEF Detaches
  <2> QED
    BY <1>0, <1>15, <2>1, DetachesMoves DEF Moves, Ends, CallKnown
<1> QED
  BY <1>1, <1>2, <1>3, <1>4, <1>5, <1>6, <1>7, <1>8, <1>9, <1>10, <1>11, <1>12, <1>13, <1>14, <1>15
     DEF CallSteps

\* The table, as a step of a call leaves it.
LEMMA TableMoves ==
  ASSUME TypeOK, CallsKnown, NEW c \in Callers, CallSteps(c)
  PROVE  \/ Files(c) /\ opening' = FALSE /\ dropped' = FALSE
            /\ (live' = live \/ (live' = call[c].session /\ call[c].answer = "none" /\ ~dropped))
         \/ StartsOpen(c) /\ ~opening /\ opening' /\ live = NoSession /\ UNCHANGED <<live, dropped>>
         \/ Removes(c) /\ opening' = opening /\ dropped' = (dropped \/ opening) /\ live' = NoSession
         \/ /\ UNCHANGED <<opening, dropped>> /\ live' \in {live, NoSession}
            /\ ~Files(c) /\ ~StartsOpen(c) /\ ~Removes(c)
<1>1. CASE Files(c)
  <2>1. opening' = FALSE /\ dropped' = FALSE
    BY <1>1 DEF Files
  <2>2. live' = live \/ (live' = call[c].session /\ call[c].answer = "none" /\ ~dropped)
    BY <1>1, FilesMoves
  <2> QED
    BY <1>1, <2>1, <2>2
<1>2. CASE StartsOpen(c)
  BY <1>2 DEF StartsOpen
<1>3. CASE Removes(c)
  BY <1>3 DEF Removes
<1>4. CASE ~Files(c) /\ ~StartsOpen(c) /\ ~Removes(c)
  BY <1>4 DEF CallSteps, Returns, WaitsForOpen, PortOpens, PortRefuses, Queues,
         QueueFindsDead, WaitSucceeds, WaitSleeps, WaitFails, RemoveIfCurrent,
         MarksClosing, Detaches, DropSleeps, table
<1> QED
  BY <1>1, <1>2, <1>3, <1>4

LEMMA OtherCallKnown ==
  ASSUME TypeOK, NEW d \in Callers, CallKnown(call[d]), Alike(call[d], call'[d]),
         \A s \in Sessions : slot[s].closing => slot'[s].closing,
         Opens(d) => \A s \in Sessions :
           s = call[d].session => (writer'[s].at = "none" <=> writer[s].at = "none")
  PROVE  CallKnown(call[d])'
  BY DEF CallKnown, Alike, Opens

LEMMA CallsKnownKept ==
  ASSUME TypeOK, Control, [Next]_vars
  PROVE  CallsKnown'
<1>0. /\ CallsKnown /\ \A d \in Callers : CallKnown(call[d])
      /\ live \in Sessions \cup {NoSession}
      /\ live # NoSession => writer[live].at # "none"
  BY CallsAreKnown DEF Control, TypeOK
<1>c. ASSUME live' # NoSession => writer'[live'].at # "none",
             \A d \in Callers : CallKnown(call[d])'
      PROVE  CallsKnown'
  BY <1>c DEF CallsKnown, CallKnown
<1>1. CASE \E c \in Callers, op \in Ops :
             Begin(c, op) /\ Quiet /\ \A d \in Callers \ {c} : Alike(call[d], call'[d])
  <2> PICK c \in Callers, op \in Ops :
             Begin(c, op) /\ Quiet /\ \A d \in Callers \ {c} : Alike(call[d], call'[d])
    BY <1>1
  <2>1. CallKnown(call[c])'
    BY BeginMoves DEF CallKnown, Ops
  <2>2. \A d \in Callers \ {c} : CallKnown(call[d])'
    BY <1>0, OtherCallKnown DEF Quiet
  <2> QED
    BY <1>0, <1>c, <2>1, <2>2 DEF Quiet
<1>2. CASE \E c \in Callers : CallSteps(c) /\ \A d \in Callers \ {c} : Alike(call[d], call'[d])
  <2> PICK c \in Callers : CallSteps(c) /\ \A d \in Callers \ {c} : Alike(call[d], call'[d])
    BY <1>2
  <2>1. /\ PortOpens(c) \/ UNCHANGED <<writer, handles, cable>>
        /\ \A s \in Sessions : slot[s].closing => slot'[s].closing
    BY <1>0, CallsLeave DEF SlotKept
  <2>2. /\ PortOpens(c) => /\ call[c].session \in Sessions
                           /\ writer' = [writer EXCEPT ![call[c].session] = NewWriter]
                           /\ Opens(c)
        /\ NewWriter.at = "waits"
    BY <1>0 DEF PortOpens, CallKnown, Opens, NewWriter, NoWriter
  <2>3. \A s \in Sessions : writer[s].at # "none" => writer'[s].at # "none"
    BY <2>1, <2>2 DEF TypeOK
  <2>4. live' # NoSession => writer'[live'].at # "none"
    <3>1. CASE Files(c) /\ live' = call[c].session /\ call[c].answer = "none"
      <4>1. call[c].at = "files"
        BY <3>1 DEF Files
      <4>2. call[c].session \in Sessions /\ writer[call[c].session].at # "none"
        BY <1>0, <3>1, <4>1 DEF CallKnown
      <4> QED
        BY <2>3, <3>1, <4>2
    <3>2. CASE live' \in {live, NoSession}
      BY <1>0, <2>3, <3>2
    <3> QED
      BY <1>0, <3>1, <3>2, TableMoves
  <2>5. ASSUME NEW d \in Callers \ {c} PROVE CallKnown(call[d])'
    <3>1. ASSUME Opens(d) PROVE ~PortOpens(c)
      BY <2>2, <3>1 DEF Control, OneOpener
    <3>2. Opens(d) => writer' = writer
      BY <2>1, <3>1
    <3> QED
      BY <1>0, <2>1, <3>2, OtherCallKnown
  <2> QED
    BY <1>c, <2>4, <2>5, OwnCallKnown
<1>3. CASE \E s \in Sessions :
             (WriterSteps(s) \/ GetsStuck(s)) /\ \A d \in Callers : Alike(call[d], call'[d])
  <2> PICK s \in Sessions :
             (WriterSteps(s) \/ GetsStuck(s)) /\ \A d \in Callers : Alike(call[d], call'[d])
    BY <1>3
  <2>1. /\ live' = live
        /\ \A t \in Sessions : slot[t].closing => slot'[t].closing
        /\ \A t \in Sessions : writer'[t].at = "none" <=> writer[t].at = "none"
    BY WritersLeave
  <2>2. \A d \in Callers : CallKnown(call[d])'
    BY <1>0, <2>1, OtherCallKnown
  <2> QED
    BY <1>0, <1>c, <2>1, <2>2
<1>4. CASE Quiet /\ \A d \in Callers : Alike(call[d], call'[d])
  <2>1. \A d \in Callers : CallKnown(call[d])'
    BY <1>0, <1>4, OtherCallKnown DEF Quiet
  <2> QED
    BY <1>0, <1>4, <1>c, <2>1 DEF Quiet
<1> QED
  BY <1>0, <1>1, <1>2, <1>3, <1>4, StepKinds

-----------------------------------------------------------------------------
(* One caller opens at a time, and a disconnect holds *)

\* Where its step takes a call among the openers.
LEMMA OwnOpens ==
  ASSUME TypeOK, CallsKnown, NEW c \in Callers, CallSteps(c), Opens(c)'
  PROVE  /\ ~Files(c)
         /\ \/ StartsOpen(c) /\ call'[c].session = opened + 1
            \/ Opens(c) /\ call'[c].session = call[c].session /\ ~StartsOpen(c)
<1>1. CASE WaitSleeps(c) \/ DropSleeps(c)
  BY <1>1 DEF WaitSleeps, DropSleeps, Opens
<1>2. CASE Returns(c)
  BY <1>2, ReturnsMoves DEF Idle, Opens
<1>3. CASE Files(c)
  BY <1>3, FilesMoves DEF Moves, Ends, Opens
<1>4. CASE StartsOpen(c)
  <2>1. call[c].at = "looks"
    BY <1>4 DEF StartsOpen
  <2> QED
    BY <1>4, <2>1, StartsOpenMoves DEF Moves, Files
<1>5. CASE PortOpens(c) \/ PortRefuses(c)
  <2>1. call[c].at = "opens"
    BY <1>5 DEF PortOpens, PortRefuses
  <2> QED
    BY <1>5, <2>1, PortOpensMoves, PortRefusesMoves DEF Moves, Opens, Files, StartsOpen
<1>6. CASE \/ WaitsForOpen(c) \/ Queues(c) \/ QueueFindsDead(c) \/ WaitSucceeds(c)
           \/ WaitFails(c) \/ MarksClosing(c)
  BY <1>6, WaitsForOpenMoves, QueuesMoves, QueueFindsDeadMoves, WaitSucceedsMoves,
     WaitFailsMoves, MarksClosingMoves DEF Moves, Opens
<1>7. CASE RemoveIfCurrent(c) \/ Removes(c) \/ Detaches(c)
  BY <1>7, RemoveIfCurrentMoves, RemovesMoves, DetachesMoves DEF Moves, Ends, Opens
<1> QED
  BY <1>1, <1>2, <1>3, <1>4, <1>5, <1>6, <1>7 DEF CallSteps

LEMMA OneOpenerKept ==
  ASSUME TypeOK, Control, [Next]_vars
  PROVE  OneOpener'
<1>0. CallsKnown /\ OneOpener
  BY DEF Control
<1>1. CASE \E c \in Callers, op \in Ops :
             Begin(c, op) /\ Quiet /\ \A d \in Callers \ {c} : Alike(call[d], call'[d])
  <2> PICK c \in Callers, op \in Ops :
             Begin(c, op) /\ Quiet /\ \A d \in Callers \ {c} : Alike(call[d], call'[d])
    BY <1>1
  <2>1. ~Opens(c)'
    BY BeginMoves DEF Opens
  <2> QED
    BY <1>0, <2>1 DEF Quiet, OneOpener, Opens, Alike
<1>2. CASE \E c \in Callers : CallSteps(c) /\ \A d \in Callers \ {c} : Alike(call[d], call'[d])
  <2> PICK c \in Callers : CallSteps(c) /\ \A d \in Callers \ {c} : Alike(call[d], call'[d])
    BY <1>2
  <2>1. \A d \in Callers \ {c} : Opens(d)' => Opens(d)
    BY DEF Opens, Alike
  <2>2. CASE Files(c)
    <3>1. Opens(c) /\ opening' = FALSE
      BY <2>2 DEF Files, Opens
    <3>2. \A d \in Callers : ~Opens(d)'
      BY <1>0, <2>1, <2>2, <3>1, OwnOpens DEF OneOpener
    <3> QED
      BY <3>1, <3>2 DEF OneOpener
  <2>3. CASE StartsOpen(c)
    <3>1. ~opening /\ opening' /\ live' = NoSession
      BY <2>3 DEF StartsOpen
    <3>2. \A d \in Callers \ {c} : ~Opens(d)'
      BY <1>0, <2>1, <3>1 DEF OneOpener
    <3> QED
      BY <3>1, <3>2 DEF OneOpener
  <2>4. CASE ~Files(c) /\ ~StartsOpen(c)
    <3>1. opening' = opening /\ live' \in {live, NoSession}
      BY <1>0, <2>4, TableMoves
    <3>2. \A d \in Callers : Opens(d)' => Opens(d)
      BY <1>0, <2>1, <2>4, OwnOpens
    <3> QED
      BY <1>0, <3>1, <3>2 DEF OneOpener
  <2> QED
    BY <2>2, <2>3, <2>4
<1>3. CASE \E s \in Sessions :
             (WriterSteps(s) \/ GetsStuck(s)) /\ \A d \in Callers : Alike(call[d], call'[d])
  <2> PICK s \in Sessions :
             (WriterSteps(s) \/ GetsStuck(s)) /\ \A d \in Callers : Alike(call[d], call'[d])
    BY <1>3
  <2>1. opening' = opening /\ live' = live
    BY WritersLeave
  <2> QED
    BY <1>0, <2>1 DEF OneOpener, Opens, Alike
<1>4. CASE Quiet /\ \A d \in Callers : Alike(call[d], call'[d])
  BY <1>0, <1>4 DEF Quiet, OneOpener, Opens, Alike
<1> QED
  BY <1>0, <1>1, <1>2, <1>3, <1>4, StepKinds

\* Where its step takes a drop.
LEMMA OwnDrop ==
  ASSUME TypeOK, CallsKnown, NEW c \in Callers, CallSteps(c), Dropping(c)'
  PROVE  /\ Removes(c) \/ (Dropping(c) /\ ~Files(c) /\ ~Removes(c) /\ ~StartsOpen(c))
         /\ call'[c].upto = call[c].upto
<1>0. CallKnown(call[c]) /\ call[c] \in CallStates
  BY CallsAreKnown DEF TypeOK
<1>1. CASE WaitSleeps(c) \/ DropSleeps(c)
  BY <1>1 DEF WaitSleeps, DropSleeps, Dropping, Files, Removes, StartsOpen
<1>2. CASE Returns(c)
  BY <1>2, ReturnsMoves DEF Idle, Dropping
<1>3. CASE Files(c)
  <2>1. call[c].op # "drop"
    BY <1>0, <1>3 DEF Files, CallKnown
  <2> QED
    BY <1>3, <2>1, FilesMoves DEF Moves, Ends, Dropping
<1>4. CASE \/ WaitsForOpen(c) \/ StartsOpen(c) \/ PortOpens(c) \/ PortRefuses(c) \/ WaitFails(c)
  BY <1>4, WaitsForOpenMoves, StartsOpenMoves, PortOpensMoves, PortRefusesMoves, WaitFailsMoves
     DEF Moves, Dropping
<1>5. CASE Queues(c) \/ QueueFindsDead(c)
  <2>1. call[c].op # "drop"
    BY <1>0, <1>5 DEF Queues, QueueFindsDead, CallKnown
  <2> QED
    BY <1>5, <2>1, QueuesMoves, QueueFindsDeadMoves DEF Moves, Dropping
<1>6. CASE WaitSucceeds(c) \/ RemoveIfCurrent(c)
  <2>1. call[c].op # "drop"
    BY <1>0, <1>6 DEF WaitSucceeds, RemoveIfCurrent, CallKnown
  <2> QED
    BY <1>6, <2>1, WaitSucceedsMoves, RemoveIfCurrentMoves DEF Moves, Ends, Dropping
<1>7. CASE Removes(c)
  BY <1>7, RemovesMoves DEF Moves
<1>8. CASE MarksClosing(c) \/ Detaches(c)
  <2>1. call[c].at \in {"drops", "leaves"}
    BY <1>8 DEF MarksClosing, Detaches
  <2> QED
    BY <1>8, <2>1, MarksClosingMoves, DetachesMoves
       DEF Moves, Ends, Dropping, Files, Removes, StartsOpen
<1> QED
  BY <1>1, <1>2, <1>3, <1>4, <1>5, <1>6, <1>7, <1>8 DEF CallSteps

LEMMA DropsHoldKept ==
  ASSUME TypeOK, Control, [Next]_vars
  PROVE  DropsHold'
<1>0. CallsKnown /\ OneOpener /\ DropsHold
  BY DEF Control
<1>1. CASE \E c \in Callers, op \in Ops :
             Begin(c, op) /\ Quiet /\ \A d \in Callers \ {c} : Alike(call[d], call'[d])
  <2> PICK c \in Callers, op \in Ops :
             Begin(c, op) /\ Quiet /\ \A d \in Callers \ {c} : Alike(call[d], call'[d])
    BY <1>1
  <2>1. ~Opens(c)' /\ ~Dropping(c)'
    BY BeginMoves DEF Opens, Dropping
  <2>2. \A d \in Callers \ {c} :
          /\ call'[d].upto = call[d].upto /\ call'[d].session = call[d].session
          /\ (Opens(d)' => Opens(d)) /\ (Dropping(d)' => Dropping(d))
    BY DEF Opens, Dropping, Alike
  <2> QED
    BY <1>0, <2>1, <2>2 DEF Quiet, DropsHold
<1>2. CASE \E c \in Callers : CallSteps(c) /\ \A d \in Callers \ {c} : Alike(call[d], call'[d])
  <2> PICK c \in Callers : CallSteps(c) /\ \A d \in Callers \ {c} : Alike(call[d], call'[d])
    BY <1>2
  <2>2. \A d \in Callers \ {c} :
          /\ call'[d].upto = call[d].upto /\ call'[d].session = call[d].session
          /\ (Opens(d)' => Opens(d)) /\ (Dropping(d)' => Dropping(d))
    BY DEF Opens, Dropping, Alike
  <2>3. ASSUME NEW e \in Callers, Dropping(e)'
        PROVE  live' = NoSession \/ live' > call'[e].upto
    <3>1. CASE Removes(c)
      BY <3>1 DEF Removes
    <3>2. CASE ~Removes(c)
      <4>1. Dropping(e) /\ call'[e].upto = call[e].upto
        BY <1>0, <2>2, <2>3, <3>2, OwnDrop
      <4>2. live = NoSession \/ live > call[e].upto
        BY <1>0, <4>1 DEF DropsHold
      <4>3. CASE Files(c)
        <5>1. Opens(c)
          BY <4>3 DEF Files, Opens
        <5>2. dropped \/ call[c].session > call[e].upto
          BY <1>0, <4>1, <5>1 DEF DropsHold
        <5> QED
          BY <1>0, <4>1, <4>2, <4>3, <5>2, TableMoves
      <4>4. CASE ~Files(c)
        BY <1>0, <4>1, <4>2, <4>4, TableMoves
      <4> QED
        BY <4>3, <4>4
    <3> QED
      BY <3>1, <3>2
  <2>4. ASSUME NEW e \in Callers, Dropping(e)', NEW d \in Callers, Opens(d)'
        PROVE  dropped' \/ call'[d].session > call'[e].upto
    <3>0. call'[e].upto = call[e].upto
      BY <1>0, <2>2, <2>4, OwnDrop
    <3>1. CASE Removes(c)
      <4>1. Opens(d)
        BY <1>0, <2>2, <2>4, <3>1, OwnOpens DEF Removes, StartsOpen
      <4> QED
        BY <1>0, <3>1, <4>1 DEF Removes, OneOpener
    <3>2. CASE ~Removes(c)
      <4>1. Dropping(e)
        BY <1>0, <2>2, <2>4, <3>2, OwnDrop
      <4>2. CASE Files(c)
        <5>1. Opens(c) /\ d # c
          BY <1>0, <2>4, <4>2, OwnOpens DEF Files, Opens
        <5> QED
          BY <1>0, <2>2, <2>4, <5>1 DEF OneOpener
      <4>3. CASE StartsOpen(c) /\ d = c
        <5>1. call'[d].session = opened + 1
          BY <1>0, <2>4, <4>3, OwnOpens
        <5>2. call[e].upto <= opened /\ call[e].upto \in Nat /\ opened \in Nat
          BY Numbers DEF Control, Counted
        <5> QED
          BY <3>0, <5>1, <5>2
      <4>4. CASE ~Files(c) /\ ~(StartsOpen(c) /\ d = c)
        <5>1. Opens(d) /\ call'[d].session = call[d].session
          BY <1>0, <2>2, <2>4, <4>4, OwnOpens
        <5>2. dropped' = dropped
          BY <1>0, <3>2, <4>4, TableMoves
        <5> QED
          BY <1>0, <3>0, <4>1, <5>1, <5>2 DEF DropsHold
      <4> QED
        BY <4>2, <4>3, <4>4
    <3> QED
      BY <3>1, <3>2
  <2> QED
    BY <2>3, <2>4 DEF DropsHold
<1>3. CASE \E s \in Sessions :
             (WriterSteps(s) \/ GetsStuck(s)) /\ \A d \in Callers : Alike(call[d], call'[d])
  <2> PICK s \in Sessions :
             (WriterSteps(s) \/ GetsStuck(s)) /\ \A d \in Callers : Alike(call[d], call'[d])
    BY <1>3
  <2>1. live' = live /\ dropped' = dropped
    BY WritersLeave
  <2> QED
    BY <1>0, <2>1 DEF DropsHold, Dropping, Opens, Alike
<1>4. CASE Quiet /\ \A d \in Callers : Alike(call[d], call'[d])
  BY <1>0, <1>4 DEF Quiet, DropsHold, Dropping, Opens, Alike
<1> QED
  BY <1>0, <1>1, <1>2, <1>3, <1>4, StepKinds

LEMMA ControlKept ==
  ASSUME TypeOK, Control, TypeOK', [Next]_vars
  PROVE  Control'
  BY CountedKept, WritersKnownKept, CallsKnownKept, OneOpenerKept, DropsHoldKept DEF Control

LEMMA TypesKept ==
  ASSUME TypeOK, Control, [Next]_vars
  PROVE  TypeOK'
<1>0. CallsKnown /\ plugged <= mishaps
  BY DEF Control, Counted
<1>1. CASE \E c \in Callers, op \in Ops : Begin(c, op)
  BY <1>1, BeginKeepsTypes
<1>2. CASE \E c \in Callers : CallSteps(c)
  BY <1>0, <1>2, CallsKeepTypes
<1>3. CASE \E s \in Sessions : WriterSteps(s)
  BY <1>3, WritersKeepTypes
<1>4. CASE Replug \/ (\E s \in Sessions : GetsStuck(s)) \/ UNCHANGED vars
  BY <1>0, <1>4, WorldKeepsTypes
<1> QED
  BY <1>1, <1>2, <1>3, <1>4, NextCases

LEMMA InitHasControl == Init => Control
<1> SUFFICES ASSUME Init PROVE Control
  OBVIOUS
<1>0. /\ live = NoSession /\ opening = FALSE /\ handles = {} /\ plugged = 0 /\ mishaps = 0 /\ opened = 0
      /\ \A s \in Sessions : slot[s] = NewSlot /\ writer[s] = NoWriter /\ cable[s] = 0
      /\ \A c \in Callers : call[c] = Idle
  BY DEF Init
<1>1. Counted
  BY <1>0 DEF Counted, Idle, NoWriter, NoSession
<1>2. WritersKnown
  BY <1>0 DEF WritersKnown, NewSlot, NoWriter
<1>3. CallsKnown /\ OneOpener /\ DropsHold
  BY <1>0 DEF CallsKnown, OneOpener, DropsHold, Idle, Opens, Dropping
<1> QED
  BY <1>1, <1>2, <1>3 DEF Control

\* Types hold, and what the proofs know of the control.
THEOREM TypesHold == Spec => [](TypeOK /\ Control)
<1>1. Init => TypeOK /\ Control
  BY InitIsTyped, InitHasControl
<1>2. TypeOK /\ Control /\ [Next]_vars => (TypeOK /\ Control)'
  BY TypesKept, ControlKept
<1> QED
  BY <1>1, <1>2, PTL DEF Spec

\* A disconnect that has returned let go of every session there was when it began.
THEOREM DisconnectsLetGo == Spec => []DisconnectLetsGo
<1>1. TypeOK /\ Control => DisconnectLetsGo
  BY DEF Control, DropsHold, Dropping, DisconnectLetsGo
<1> QED
  BY <1>1, TypesHold, PTL

-----------------------------------------------------------------------------
(* Who holds the port *)

Holds(c, s) == call[c].session = s /\ call[c].at \in {"files", "drops", "leaves"}
LeftToItsWrite(s) == slot[s].closing /\ writer[s].at # "writes"

\* A step of the call that holds a session passes it on.
LEMMA HolderPassesOn ==
  ASSUME TypeOK, Control, NEW c \in Callers, CallSteps(c), NEW s \in Sessions,
         s \in handles, Holds(c, s)
  PROVE  s = live' \/ Holds(c, s)' \/ LeftToItsWrite(s)'
<1>0. /\ CallKnown(call[c]) /\ ~slot[s].exited
      /\ writer[s].at \in {"waits", "writes", "stuck", "wrote", "leaves"}
  BY CallsAreKnown DEF Control, WritersKnown
<1>1. CASE Files(c)
  <2>1. call[c].answer = "none"
    BY <1>0, <1>1 DEF Files, Holds, CallKnown
  <2> QED
    BY <1>1, <2>1, FilesMoves DEF Moves, Holds, Control
<1>2. CASE MarksClosing(c)
  BY <1>2, MarksClosingMoves DEF Moves, Holds
<1>3. CASE Detaches(c)
  <2>1. Stuck(s) /\ slot[s].closing /\ UNCHANGED <<slot, writer>>
    BY <1>0, <1>3 DEF Detaches, Holds, CallKnown
  <2> QED
    BY <2>1 DEF Stuck, LeftToItsWrite
<1>4. CASE DropSleeps(c)
  BY <1>4 DEF DropSleeps, Holds
<1> QED
  BY <1>1, <1>2, <1>3, <1>4 DEF Holds, CallSteps, Returns, WaitsForOpen, StartsOpen, PortOpens,
     PortRefuses, Queues, QueueFindsDead, WaitSucceeds, WaitSleeps, WaitFails, RemoveIfCurrent,
     Removes

\* A step of a call that takes a session out of the table has it in hand.
LEMMA TakenOutIsHeld ==
  ASSUME TypeOK, Control, NEW c \in Callers, CallSteps(c), NEW s \in Sessions,
         s = live, live' # s
  PROVE  Holds(c, s)'
<1>1. CASE Files(c)
  <2>1. Opens(c)
    BY <1>1 DEF Files, Opens
  <2>2. live = NoSession
    BY <2>1 DEF Control, OneOpener
  <2> QED
    BY <2>2, Numbers
<1>2. CASE QueueFindsDead(c)
  BY <1>2, QueueFindsDeadMoves DEF Moves, Holds
<1>3. CASE RemoveIfCurrent(c)
  BY <1>3, RemoveIfCurrentMoves DEF Moves, Holds
<1>4. CASE Removes(c)
  BY <1>4, RemovesMoves, Numbers DEF Moves, Holds
<1> QED
  BY <1>1, <1>2, <1>3, <1>4 DEF CallSteps, Returns, WaitsForOpen, StartsOpen, PortOpens,
     PortRefuses, Queues, WaitSucceeds, WaitSleeps, WaitFails, MarksClosing, Detaches,
     DropSleeps, table

LEMMA OwnersKept ==
  ASSUME TypeOK, Control, Control', HandlesAreOwned, [Next]_vars
  PROVE  HandlesAreOwned'
<1>0. \A s \in Sessions : s \in handles' => ~slot'[s].exited
  BY DEF Control, WritersKnown
<1>1. handles \subseteq Sessions /\ CallsKnown
  BY DEF TypeOK, Control
<1>2. \A s \in handles : s = live \/ (\E c \in Callers : Holds(c, s)) \/ LeftToItsWrite(s)
  BY DEF HandlesAreOwned, Holds, LeftToItsWrite
<1>3. ASSUME NEW s \in Sessions, s \in handles'
      PROVE  s = live' \/ (\E c \in Callers : Holds(c, s)') \/ LeftToItsWrite(s)'
  <2>1. CASE \E c \in Callers, op \in Ops :
             Begin(c, op) /\ Quiet /\ \A d \in Callers \ {c} : Alike(call[d], call'[d])
    <3> PICK c \in Callers, op \in Ops :
             Begin(c, op) /\ Quiet /\ \A d \in Callers \ {c} : Alike(call[d], call'[d])
      BY <2>1
    <3>1. ~Holds(c, s)
      BY DEF Begin, Holds
    <3>2. \A d \in Callers : Holds(d, s) => Holds(d, s)'
      BY <3>1 DEF Holds, Alike
    <3> QED
      BY <1>2, <1>3, <3>2 DEF Quiet, LeftToItsWrite
  <2>2. CASE \E c \in Callers : CallSteps(c) /\ \A d \in Callers \ {c} : Alike(call[d], call'[d])
    <3> PICK c \in Callers : CallSteps(c) /\ \A d \in Callers \ {c} : Alike(call[d], call'[d])
      BY <2>2
    <3>0. /\ PortOpens(c) \/ UNCHANGED <<writer, handles, cable>>
          /\ slot[s].closing => slot'[s].closing
      BY <1>1, CallsLeave DEF SlotKept
    <3>1. CASE PortOpens(c) /\ s = call[c].session
      BY <3>1, PortOpensMoves DEF Moves, Holds
    <3>2. CASE ~(PortOpens(c) /\ s = call[c].session)
      <4>1. s \in handles /\ writer'[s] = writer[s]
        <5>1. CASE UNCHANGED <<writer, handles, cable>>
          BY <1>3, <5>1
        <5>2. CASE PortOpens(c)
          BY <1>3, <3>2, <5>2 DEF PortOpens, TypeOK
        <5> QED
          BY <3>0, <5>1, <5>2
      <4>2. CASE s = live
        BY <1>3, <4>2, TakenOutIsHeld
      <4>3. CASE \E d \in Callers : Holds(d, s)
        <5> PICK d \in Callers : Holds(d, s)
          BY <4>3
        <5>1. CASE d = c
          BY <4>1, <5>1, HolderPassesOn
        <5>2. CASE d # c
          BY <5>2 DEF Holds, Alike
        <5> QED
          BY <5>1, <5>2
      <4>4. CASE LeftToItsWrite(s)
        BY <3>0, <4>1, <4>4 DEF LeftToItsWrite
      <4> QED
        BY <1>2, <4>1, <4>2, <4>3, <4>4
    <3> QED
      BY <3>1, <3>2
  <2>3. CASE \E t \in Sessions :
             (WriterSteps(t) \/ GetsStuck(t)) /\ \A d \in Callers : Alike(call[d], call'[d])
    <3> PICK t \in Sessions :
             (WriterSteps(t) \/ GetsStuck(t)) /\ \A d \in Callers : Alike(call[d], call'[d])
      BY <2>3
    <3>1. /\ s \in handles /\ live' = live /\ slot'[s].closing = slot[s].closing
          /\ writer'[s].at = "writes" => writer[s].at = "writes" \/ ~slot[s].closing
      BY <1>3, WritersLeave
    <3> QED
      BY <1>2, <3>1 DEF Holds, Alike, LeftToItsWrite
  <2>4. CASE Quiet /\ \A d \in Callers : Alike(call[d], call'[d])
    BY <1>2, <1>3, <2>4 DEF Quiet, Holds, Alike, LeftToItsWrite
  <2> QED
    BY <1>1, <2>1, <2>2, <2>3, <2>4, StepKinds
<1>4. handles' \subseteq Sessions
  <2>1. \A s \in handles' : s \in handles \/ (\E c \in Callers : PortOpens(c) /\ s = call[c].session)
    <3>1. CASE Quiet
      BY <3>1 DEF Quiet
    <3>2. CASE \E c \in Callers : CallSteps(c)
      BY <1>1, <3>2, CallsLeave DEF PortOpens
    <3>3. CASE \E s \in Sessions : WriterSteps(s) \/ GetsStuck(s)
      BY <3>3, WritersLeave
    <3> QED
      BY <1>1, <3>1, <3>2, <3>3, StepKinds
  <2>2. \A c \in Callers : PortOpens(c) => call[c].session \in Sessions
    BY <1>1 DEF PortOpens, CallsKnown
  <2> QED
    BY <1>1, <2>1, <2>2
<1> QED
  BY <1>0, <1>3, <1>4 DEF HandlesAreOwned, Holds, LeftToItsWrite

\* A handle of the port is open only while its session is in the table, is being put there or
\* dropped, or its writer was left to its write.
THEOREM PortIsOwned == Spec => []HandlesAreOwned
<1>1. Init => HandlesAreOwned
  BY DEF Init, HandlesAreOwned
<1>2. /\ (TypeOK /\ Control) /\ (TypeOK /\ Control)' /\ HandlesAreOwned /\ [Next]_vars
      => HandlesAreOwned'
  BY OwnersKept
<1> QED
  BY <1>1, <1>2, TypesHold, PTL DEF Spec

-----------------------------------------------------------------------------
(* What reaches the strip *)

LEMMA PacketNumbers ==
  ASSUME TypeOK
  PROVE  \A s \in Sessions :
           /\ slot[s].packet \in Nat /\ slot[s].queued \in Nat /\ slot[s].written \in Nat
           /\ writer[s].packet \in Nat /\ writer[s].seq \in Nat
<1>1. Packets \subseteq Nat
  BY CountsAreNumbers DEF Packets
<1>2. \A s \in Sessions : slot[s] \in Slots /\ writer[s] \in Writers
  BY DEF TypeOK
<1> QED
  BY <1>1, <1>2 DEF Slots, Writers

\* What a writer's step makes of its packet and of the strip.
LEMMA PacketMoves ==
  ASSUME TypeOK, NEW s \in Sessions, WriterSteps(s) \/ GetsStuck(s)
  PROVE  /\ \/ wire' = wire
            \/ /\ Writing(s) /\ cable[s] = plugged /\ ~Writing(s)'
               /\ wire' = writer[s].packet
         /\ Writing(s)' => \/ Writing(s) /\ writer'[s].packet = writer[s].packet
                           \/ slot[s].pending /\ writer'[s].packet = slot[s].packet
<1>0. /\ slot \in [Sessions -> Slots] /\ writer \in [Sessions -> Writers]
      /\ slot[s] \in Slots /\ writer[s] \in Writers
  BY DEF TypeOK
<1>1. CASE WriterSleeps(s)
  BY <1>0, <1>1 DEF WriterSleeps, Writing, port, Writers, NewWriter, NoWriter
<1>2. CASE WriterTakes(s)
  BY <1>0, <1>2 DEF WriterTakes, Writing, port, Writers, NewWriter, NoWriter
<1>3. CASE \E result \in {"none", "write failed", "flush failed"} : WriteEnds(s, result)
  <2>1. PICK result \in {"none", "write failed", "flush failed"} : WriteEnds(s, result)
    BY <1>3
  <2>2. /\ writer[s].at \in {"writes", "stuck"} /\ writer'[s].at = "wrote"
        /\ wire' = IF result = "write failed" THEN wire ELSE writer[s].packet
        /\ result # "write failed" => cable[s] = plugged
    BY <1>0, <2>1 DEF WriteEnds, Reaches, Writers
  <2> QED
    BY <2>2 DEF Writing
<1>4. CASE Publishes(s)
  BY <1>0, <1>4 DEF Publishes, Writing, port, Writers, NewWriter, NoWriter
<1>5. CASE WriterLeaves(s)
  BY <1>0, <1>5 DEF WriterLeaves, Writing, port, Writers, NewWriter, NoWriter
<1>6. CASE ClosesPort(s)
  BY <1>0, <1>6 DEF ClosesPort, Writing, port, Writers, NewWriter, NoWriter
<1>7. CASE HasLeft(s)
  BY <1>0, <1>7 DEF HasLeft, Writing, port, Writers, NewWriter, NoWriter
<1>8. CASE GetsStuck(s)
  BY <1>0, <1>8 DEF GetsStuck, Writing, port, Writers, NewWriter, NoWriter
<1> QED
  BY <1>1, <1>2, <1>3, <1>4, <1>5, <1>6, <1>7, <1>8 DEF WriterSteps

LEMMA NewestKept ==
  ASSUME TypeOK, Control, Newest, [Next]_vars
  PROVE  Newest' /\ wire' >= wire
<1>0. /\ accepted \in Nat /\ wire \in Nat /\ CallsKnown
      /\ \A s \in Sessions : slot[s].packet \in Nat /\ writer[s].packet \in Nat
  BY Numbers, PacketNumbers DEF Control
<1>1. CASE Quiet
  <2>1. \A s \in Sessions : cable[s] <= plugged /\ cable[s] \in Nat /\ plugged \in Nat
    BY Numbers DEF Control, Counted
  <2>2. \A s \in Sessions : Current(s)' => Current(s)
    BY <1>1, <2>1 DEF Quiet, Current
  <2> QED
    BY <1>0, <1>1, <2>2 DEF Quiet, Newest, Writing
<1>2. CASE \E c \in Callers : CallSteps(c)
  <2> PICK c \in Callers : CallSteps(c)
    BY <1>2
  <2>0. wire' = wire /\ plugged' = plugged
    BY <1>0, CallsLeave
  <2>1. CASE PortOpens(c)
    <3>0. PICK o \in Sessions : o = call[c].session
      BY <1>0, <2>1 DEF PortOpens, CallsKnown
    <3>1. /\ slot' = slot /\ accepted' = accepted /\ InTheWay = {}
          /\ handles' = handles \cup {o} /\ cable' = [cable EXCEPT ![o] = plugged]
          /\ writer' = [writer EXCEPT ![o] = NewWriter] /\ writer[o].at = "none"
      BY <1>0, <2>1, <3>0 DEF PortOpens, CallsKnown
    <3>2. ~slot[o].pending /\ NewWriter.at = "waits"
      BY <3>1 DEF Control, WritersKnown, NewWriter, NoWriter
    <3>3. \A s \in Sessions : Current(s)' => s = o
      BY <2>0, <3>1 DEF Current, InTheWay, TypeOK
    <3>4. ~Writing(o)' /\ \A s \in Sessions \ {o} : writer'[s] = writer[s]
      BY <3>1, <3>2 DEF Writing, TypeOK
    <3> QED
      BY <1>0, <2>0, <3>1, <3>2, <3>3, <3>4 DEF Newest, Writing
  <2>2. CASE UNCHANGED <<writer, handles, cable>>
    <3>1. CASE (\A s \in Sessions : PacketKept(s)) /\ accepted' = accepted
      BY <1>0, <2>0, <2>2, <3>1 DEF PacketKept, Newest, Current, Writing
    <3>2. CASE \E t \in Sessions :
                 /\ writer[t].at # "none" /\ accepted' = accepted + 1
                 /\ slot'[t].packet = accepted + 1 /\ slot'[t].queued = accepted + 1
                 /\ \A s \in Sessions \ {t} : PacketKept(s)
      BY <1>0, <2>0, <2>2, <3>2 DEF PacketKept, Newest, Current, Writing
    <3> QED
      BY <1>0, <3>1, <3>2, CallsLeave
  <2> QED
    BY <1>0, <2>1, <2>2, CallsLeave
<1>3. CASE \E s \in Sessions : WriterSteps(s) \/ GetsStuck(s)
  <2> PICK s \in Sessions : WriterSteps(s) \/ GetsStuck(s)
    BY <1>3
  <2>1. /\ accepted' = accepted /\ slot'[s].packet = slot[s].packet
        /\ slot'[s].pending => slot[s].pending
        /\ \A t \in Sessions \ {s} : writer'[t] = writer[t] /\ slot'[t] = slot[t]
        /\ cable' = cable /\ plugged' = plugged /\ handles' \subseteq handles
    BY WritersLeave
  <2>2. \A t \in Sessions : Current(t)' => Current(t)
    BY <2>1 DEF Current
  <2>3. Writing(s) /\ cable[s] = plugged => Current(s)
    BY DEF Control, WritersKnown, Writing, Current
  <2>4. wire' >= wire /\ wire' <= accepted
    BY <1>0, <2>3, PacketMoves DEF Newest
  <2>5. ASSUME NEW t \in Sessions
        PROVE  /\ Writing(t)' => writer'[t].packet <= slot'[t].packet
               /\ Current(t)' /\ Writing(t)' => wire' <= writer'[t].packet
               /\ Current(t)' /\ slot'[t].pending => wire' <= slot'[t].packet
    <3>1. CASE t = s
      BY <1>0, <2>1, <2>2, <2>3, <3>1, PacketMoves DEF Newest
    <3>2. CASE t # s
      <4>1. writer'[t] = writer[t] /\ slot'[t] = slot[t]
        BY <2>1, <3>2
      <4>2. Current(t)' => wire' = wire
        BY <2>2, <2>3, <3>2, PacketMoves DEF Newest
      <4> QED
        BY <2>2, <4>1, <4>2 DEF Newest, Writing
    <3> QED
      BY <3>1, <3>2
  <2>6. \A t \in Sessions : slot'[t].packet <= accepted'
    BY <2>1 DEF Newest
  <2> QED
    BY <2>1, <2>2, <2>4, <2>5, <2>6 DEF Newest
<1> QED
  BY <1>0, <1>1, <1>2, <1>3, StepKinds

LEMMA InitIsNewest == Init => Newest /\ WrittenIsShown
<1> SUFFICES ASSUME Init PROVE Newest /\ WrittenIsShown
  OBVIOUS
<1>1. /\ wire = 0 /\ accepted = 0 /\ handles = {}
      /\ \A s \in Sessions : slot[s] = NewSlot /\ writer[s] = NoWriter
  BY DEF Init, NoPacket
<1> QED
  BY <1>1 DEF Newest, WrittenIsShown, NewSlot, NoWriter, NoPacket, Current, Writing

\* The strip never shows a packet older than one it showed.
THEOREM NothingOlderReaches == Spec => NothingOlder
<1>1. Init => Newest
  BY InitIsNewest
<1>2. /\ TypeOK /\ Control /\ Newest /\ [Next]_vars
      => Newest' /\ [wire' >= wire]_wire
  BY NewestKept
<1> QED
  BY <1>1, <1>2, TypesHold, PTL DEF Spec, NothingOlder

-----------------------------------------------------------------------------
(* What a paint answers *)

\* What WrittenIsShown says of one session.
Shown(s) ==
  /\ slot[s].packet = slot[s].queued /\ writer[s].packet = writer[s].seq
  /\ writer[s].at = "wrote" /\ writer[s].result = "none" => writer[s].seq <= wire
  /\ slot[s].failure = "none" => slot[s].written <= wire

LEMMA ShownKept ==
  ASSUME TypeOK, CallsKnown, WrittenIsShown, [Next]_vars, wire' >= wire, wire' \in Nat
  PROVE  WrittenIsShown'
<1>0. /\ wire \in Nat /\ \A s \in Sessions : Shown(s)
      /\ \A s \in Sessions : slot[s].written \in Nat /\ writer[s].seq \in Nat
      /\ slot \in [Sessions -> Slots] /\ writer \in [Sessions -> Writers]
      /\ \A s \in Sessions : slot[s] \in Slots /\ writer[s] \in Writers
  BY Numbers, PacketNumbers DEF WrittenIsShown, Shown, TypeOK
<1>n. \A n \in Nat : n <= wire => n <= wire'
  BY <1>0
<1>s. ASSUME \A s \in Sessions : Shown(s)' PROVE WrittenIsShown'
  BY <1>s DEF WrittenIsShown, Shown
<1>k. ASSUME NEW s \in Sessions, writer'[s] = writer[s], slot'[s] = slot[s] PROVE Shown(s)'
  BY <1>0, <1>k DEF Shown
<1>1. CASE Quiet
  BY <1>1, <1>s, <1>k DEF Quiet
<1>2. CASE \E c \in Callers : CallSteps(c)
  <2> PICK c \in Callers : CallSteps(c)
    BY <1>2
  <2>1. ASSUME NEW s \in Sessions
        PROVE  /\ writer'[s] = writer[s] \/ writer'[s] = NewWriter
               /\ slot'[s].failure = slot[s].failure /\ slot'[s].written = slot[s].written
               /\ slot'[s].packet = slot'[s].queued
    <3>1. writer'[s] = writer[s] \/ writer'[s] = NewWriter
      <4>1. CASE PortOpens(c)
        BY <1>0, <4>1 DEF PortOpens
      <4> QED
        BY <4>1, CallsLeave
    <3>2. SlotKept(s)
      BY CallsLeave
    <3>3. slot'[s].packet = slot'[s].queued
      <4>1. CASE \A t \in Sessions : PacketKept(t)
        BY <1>0, <4>1 DEF PacketKept, Shown
      <4>2. CASE \E t \in Sessions :
                   /\ slot'[t].packet = accepted + 1 /\ slot'[t].queued = accepted + 1
                   /\ \A u \in Sessions \ {t} : PacketKept(u)
        BY <1>0, <4>2 DEF PacketKept, Shown
      <4> QED
        BY <4>1, <4>2, CallsLeave
    <3> QED
      BY <3>1, <3>2, <3>3 DEF SlotKept
  <2>2. NewWriter.packet = NewWriter.seq /\ NewWriter.at = "waits"
    BY DEF NewWriter, NoWriter
  <2>3. ASSUME NEW s \in Sessions PROVE Shown(s)'
    BY <1>0, <2>1, <2>2 DEF Shown
  <2> QED
    BY <1>s, <2>3
<1>3. CASE \E s \in Sessions : WriterSteps(s) \/ GetsStuck(s)
  <2> PICK s \in Sessions : WriterSteps(s) \/ GetsStuck(s)
    BY <1>3
  <2>1. \A t \in Sessions \ {s} : Shown(t)'
    BY <1>k, WritersLeave
  <2>2. Shown(s)'
    <3>0. Shown(s) /\ slot[s] \in Slots /\ writer[s] \in Writers
      BY <1>0
    <3>1. CASE WriterTakes(s)
      <4>1. /\ writer'[s].at = "writes" /\ writer'[s].packet = slot[s].packet
            /\ writer'[s].seq = slot[s].queued /\ wire' = wire
            /\ slot' = [slot EXCEPT ![s].pending = FALSE]
        BY <1>0, <3>1 DEF WriterTakes, port
      <4>2. /\ slot'[s].packet = slot[s].packet /\ slot'[s].queued = slot[s].queued
            /\ slot'[s].failure = slot[s].failure /\ slot'[s].written = slot[s].written
        BY <1>0, <4>1 DEF Slots
      <4> QED
        BY <3>0, <4>1, <4>2 DEF Shown
    <3>2. CASE \E result \in {"none", "write failed", "flush failed"} : WriteEnds(s, result)
      <4>1. PICK result \in {"none", "write failed", "flush failed"} : WriteEnds(s, result)
        BY <3>2
      <4>2. /\ writer'[s].packet = writer[s].packet /\ writer'[s].seq = writer[s].seq
            /\ writer'[s].result = result /\ slot' = slot
            /\ result = "none" => wire' = writer[s].packet
        BY <1>0, <4>1 DEF WriteEnds, Writers
      <4>3. writer'[s].packet = writer'[s].seq /\ slot'[s].packet = slot'[s].queued
        BY <3>0, <4>2 DEF Shown
      <4>4. writer'[s].result = "none" => writer'[s].seq <= wire'
        BY <1>0, <3>0, <4>2 DEF Shown
      <4>5. slot'[s].failure = "none" => slot'[s].written <= wire'
        <5>1. slot[s].failure = "none" => slot[s].written <= wire
          BY <3>0 DEF Shown
        <5>2. slot[s].written \in Nat
          BY <1>0
        <5>3. slot'[s].failure = slot[s].failure /\ slot'[s].written = slot[s].written
          BY <4>2
        <5> QED
          BY <1>n, <5>1, <5>2, <5>3
      <4> QED
        BY <4>3, <4>4, <4>5 DEF Shown
    <3>3. CASE Publishes(s)
      <4>1. /\ writer[s].at = "wrote" /\ wire' = wire
            /\ slot' = [slot EXCEPT ![s] = [slot[s] EXCEPT !.written = writer[s].seq,
                                                          !.failure = writer[s].result]]
        BY <3>3 DEF Publishes, port
      <4>2. /\ slot'[s].packet = slot[s].packet /\ slot'[s].queued = slot[s].queued
            /\ slot'[s].failure = writer[s].result /\ slot'[s].written = writer[s].seq
        BY <1>0, <4>1 DEF Slots
      <4>3. writer'[s].packet = writer'[s].seq /\ writer'[s].at \in {"waits", "leaves"}
        BY <1>0, <3>3 DEF Publishes, NewWriter, NoWriter
      <4> QED
        BY <3>0, <4>1, <4>2, <4>3 DEF Shown
    <3>4. CASE HasLeft(s)
      <4>1. /\ writer' = [writer EXCEPT ![s].at = "gone"] /\ wire' = wire
            /\ slot' = [slot EXCEPT ![s].exited = TRUE]
        BY <3>4 DEF HasLeft, port
      <4>2. /\ slot'[s].packet = slot[s].packet /\ slot'[s].queued = slot[s].queued
            /\ slot'[s].failure = slot[s].failure /\ slot'[s].written = slot[s].written
        BY <1>0, <4>1 DEF Slots
      <4>3. /\ writer'[s].packet = writer[s].packet /\ writer'[s].seq = writer[s].seq
            /\ writer'[s].at = "gone"
        BY <1>0, <4>1 DEF Writers
      <4> QED
        BY <3>0, <4>1, <4>2, <4>3 DEF Shown
    <3>5. CASE WriterSleeps(s) \/ WriterLeaves(s) \/ ClosesPort(s) \/ GetsStuck(s)
      <4>1. slot' = slot
        BY <3>5 DEF WriterSleeps, WriterLeaves, ClosesPort, GetsStuck
      <4>2. /\ writer'[s].packet = writer[s].packet /\ writer'[s].seq = writer[s].seq
            /\ writer'[s] = writer[s] \/ writer'[s].at # "wrote"
        <5>1. writer' = writer \/ \E at \in {"leaves", "closed", "stuck"} :
                                   writer' = [writer EXCEPT ![s].at = at]
          BY <3>5 DEF WriterSleeps, WriterLeaves, ClosesPort, GetsStuck
        <5> QED
          BY <1>0, <5>1 DEF Writers
      <4> QED
        BY <1>0, <3>0, <4>1, <4>2 DEF Shown
    <3> QED
      BY <3>1, <3>2, <3>3, <3>4, <3>5 DEF WriterSteps
  <2> QED
    BY <1>s, <2>1, <2>2
<1> QED
  BY <1>1, <1>2, <1>3, StepKinds

\* Only a wait that succeeds answers ok to a paint.
LEMMA OkIsWaitedFor ==
  ASSUME TypeOK, CallsKnown, NEW c \in Callers, CallSteps(c), Painted(c)', call'[c].answer = "ok"
  PROVE  WaitSucceeds(c) /\ call'[c].seq = call[c].seq
<1>0. CallKnown(call[c]) /\ call[c] \in CallStates
  BY CallsAreKnown DEF TypeOK
<1>1. CASE WaitSleeps(c) \/ DropSleeps(c)
  BY <1>1 DEF WaitSleeps, DropSleeps, Painted
<1>2. CASE Returns(c)
  BY <1>2, ReturnsMoves DEF Idle, Painted
<1>3. CASE Files(c)
  <2>1. call[c].at = "files"
    BY <1>3 DEF Files
  <2> QED
    BY <1>0, <1>3, <2>1, FilesMoves DEF Moves, Ends, Painted, CallKnown
<1>4. CASE \/ WaitsForOpen(c) \/ StartsOpen(c) \/ PortOpens(c) \/ PortRefuses(c) \/ WaitFails(c)
           \/ QueueFindsDead(c) \/ MarksClosing(c) \/ Queues(c)
  BY <1>4, WaitsForOpenMoves, StartsOpenMoves, PortOpensMoves, PortRefusesMoves, WaitFailsMoves,
     QueueFindsDeadMoves, MarksClosingMoves, QueuesMoves DEF Moves, Painted
<1>5. CASE WaitSucceeds(c)
  BY <1>5, WaitSucceedsMoves
<1>6. CASE Removes(c)
  <2>1. call[c].op = "drop"
    BY <1>0, <1>6 DEF Removes, CallKnown
  <2> QED
    BY <1>6, <2>1, RemovesMoves DEF Moves, Painted
<1>7. CASE RemoveIfCurrent(c) \/ Detaches(c)
  <2>1. call[c].at \in {"forgets", "leaves"}
    BY <1>7 DEF RemoveIfCurrent, Detaches
  <2> QED
    BY <1>0, <1>7, <2>1, RemoveIfCurrentMoves, DetachesMoves DEF Moves, Ends, Painted, CallKnown
<1> QED
  BY <1>1, <1>2, <1>3, <1>4, <1>5, <1>6, <1>7 DEF CallSteps

LEMMA OkKept ==
  ASSUME TypeOK, TypeOK', CallsKnown, WrittenIsShown, OkIsWritten, [Next]_vars, wire' >= wire
  PROVE  OkIsWritten'
<1>0. /\ wire \in Nat /\ wire' \in Nat /\ Packets \subseteq Nat
      /\ \A c \in Callers : call[c].seq \in Nat
  <2>1. Packets \subseteq Nat
    BY CountsAreNumbers DEF Packets
  <2>2. \A c \in Callers : call[c] \in CallStates
    BY DEF TypeOK
  <2> QED
    BY <2>1, <2>2 DEF TypeOK, CallStates
<1>o. ASSUME NEW d \in Callers, Alike(call[d], call'[d]), Painted(d)', call'[d].answer = "ok"
      PROVE  wire' >= call'[d].seq
  <2>1. Painted(d) /\ call[d].answer = "ok" /\ call'[d].seq = call[d].seq
    BY <1>o DEF Alike, Painted
  <2>2. wire >= call[d].seq
    BY <2>1 DEF OkIsWritten
  <2> QED
    BY <1>0, <2>1, <2>2
<1>1. CASE \E c \in Callers, op \in Ops :
             Begin(c, op) /\ Quiet /\ \A d \in Callers \ {c} : Alike(call[d], call'[d])
  <2> PICK c \in Callers, op \in Ops :
             Begin(c, op) /\ Quiet /\ \A d \in Callers \ {c} : Alike(call[d], call'[d])
    BY <1>1
  <2>1. ~Painted(c)'
    BY BeginMoves DEF Painted
  <2> QED
    BY <1>o, <2>1 DEF OkIsWritten
<1>2. CASE \E c \in Callers : CallSteps(c) /\ \A d \in Callers \ {c} : Alike(call[d], call'[d])
  <2> PICK c \in Callers : CallSteps(c) /\ \A d \in Callers \ {c} : Alike(call[d], call'[d])
    BY <1>2
  <2>1. ASSUME Painted(c)', call'[c].answer = "ok" PROVE wire' >= call'[c].seq
    <3>1. WaitSucceeds(c) /\ call'[c].seq = call[c].seq
      BY <2>1, OkIsWaitedFor
    <3>2. PICK s \in Sessions : s = call[c].session
      BY <3>1 DEF WaitSucceeds, CallsKnown
    <3>3. slot[s].failure = "none" /\ slot[s].written >= call[c].seq /\ slot[s].written \in Nat
      BY <3>1, <3>2, PacketNumbers DEF WaitSucceeds
    <3>4. slot[s].written <= wire
      BY <3>3 DEF WrittenIsShown
    <3> QED
      BY <1>0, <3>1, <3>3, <3>4
  <2> QED
    BY <1>o, <2>1 DEF OkIsWritten
<1>3. CASE \E s \in Sessions :
             (WriterSteps(s) \/ GetsStuck(s)) /\ \A d \in Callers : Alike(call[d], call'[d])
  BY <1>3, <1>o DEF OkIsWritten
<1>4. CASE Quiet /\ \A d \in Callers : Alike(call[d], call'[d])
  BY <1>4, <1>o DEF OkIsWritten
<1> QED
  BY <1>1, <1>2, <1>3, <1>4, StepKinds

\* A paint that answers ok was written, itself or a newer one in its place.
THEOREM OkPaintsAreWritten == Spec => []OkIsWritten
<1> DEFINE I == Newest /\ WrittenIsShown /\ OkIsWritten
<1>1. Init => I
  BY InitIsNewest DEF Init, OkIsWritten, Painted, Idle
<1>2. /\ (TypeOK /\ Control) /\ (TypeOK /\ Control)' /\ I /\ [Next]_vars => I'
  <2> SUFFICES ASSUME TypeOK, Control, TypeOK', I, [Next]_vars PROVE I'
    OBVIOUS
  <2>1. Newest' /\ wire' >= wire
    BY NewestKept
  <2>2. wire' \in Nat
    BY CountsAreNumbers DEF TypeOK, Packets
  <2> QED
    BY <2>1, <2>2, ShownKept, OkKept DEF Control
<1>3. I => OkIsWritten
  OBVIOUS
<1> QED
  BY <1>1, <1>2, <1>3, TypesHold, PTL DEF Spec

-----------------------------------------------------------------------------
(* Who opens, who drops, and why a writer ends *)

\* An open goes on until its session is filed.
LEMMA OpenStays ==
  ASSUME TypeOK, NEW c \in Callers, CallSteps(c), Opens(c), ~Files(c)
  PROVE  Opens(c)'
<1>1. call[c].at \in {"opens", "files"}
  BY DEF Opens
<1>2. PortOpens(c) \/ PortRefuses(c)
  BY <1>1 DEF CallSteps, Returns, WaitsForOpen, StartsOpen, Queues,
         QueueFindsDead, WaitSucceeds, WaitSleeps, WaitFails, RemoveIfCurrent, Removes,
         MarksClosing, Detaches, DropSleeps
<1>3. call'[c].at = "files"
  <2>1. CASE PortOpens(c)
    BY <2>1, PortOpensMoves DEF Moves
  <2>2. CASE PortRefuses(c)
    BY <2>2, PortRefusesMoves DEF Moves
  <2> QED
    BY <1>2, <2>1, <2>2
<1> QED
  BY <1>3 DEF Opens

LEMMA OpenersKnownKept ==
  ASSUME TypeOK, Control, OpenersKnown, [Next]_vars
  PROVE  OpenersKnown'
<1>0. CallsKnown
  BY DEF Control
<1>1. CASE \E c \in Callers, op \in Ops :
             Begin(c, op) /\ Quiet /\ \A d \in Callers \ {c} : Alike(call[d], call'[d])
  <2> PICK c \in Callers, op \in Ops :
             Begin(c, op) /\ Quiet /\ \A d \in Callers \ {c} : Alike(call[d], call'[d])
    BY <1>1
  <2>1. ~Opens(c)
    BY DEF Begin, Opens
  <2>2. \A d \in Callers : Opens(d) => Opens(d)'
    BY <2>1 DEF Opens, Alike
  <2> QED
    BY <2>2 DEF Quiet, OpenersKnown
<1>2. CASE \E c \in Callers : CallSteps(c) /\ \A d \in Callers \ {c} : Alike(call[d], call'[d])
  <2> PICK c \in Callers : CallSteps(c) /\ \A d \in Callers \ {c} : Alike(call[d], call'[d])
    BY <1>2
  <2>1. CASE Files(c)
    BY <2>1 DEF Files, OpenersKnown
  <2>2. CASE StartsOpen(c)
    <3>1. Opens(c)'
      BY <2>2, StartsOpenMoves DEF Moves, Opens
    <3>2. opening' /\ (dropped' => opening')
      BY <2>2 DEF StartsOpen
    <3> QED
      BY <3>1, <3>2 DEF OpenersKnown
  <2>3. CASE ~Files(c) /\ ~StartsOpen(c)
    <3>1. \A d \in Callers : Opens(d) => Opens(d)'
      BY <2>3, OpenStays DEF Opens, Alike
    <3>2. opening' = opening /\ (dropped' => dropped \/ opening)
      BY <1>0, <2>3, TableMoves
    <3> QED
      BY <3>1, <3>2 DEF OpenersKnown
  <2> QED
    BY <2>1, <2>2, <2>3
<1>3. CASE \E s \in Sessions :
             (WriterSteps(s) \/ GetsStuck(s)) /\ \A d \in Callers : Alike(call[d], call'[d])
  <2>1. opening' = opening /\ dropped' = dropped
    BY <1>3, WritersLeave
  <2>2. \A d \in Callers : Opens(d) => Opens(d)'
    BY <1>3 DEF Opens, Alike
  <2> QED
    BY <2>1, <2>2 DEF OpenersKnown
<1>4. CASE Quiet /\ \A d \in Callers : Alike(call[d], call'[d])
  BY <1>4 DEF Quiet, OpenersKnown, Opens, Alike
<1> QED
  BY <1>0, <1>1, <1>2, <1>3, <1>4, StepKinds

\* Which slots a call changes.
LEMMA SlotMoves ==
  ASSUME TypeOK, CallsKnown, NEW c \in Callers, CallSteps(c), NEW s \in Sessions
  PROVE  /\ slot'[s] = slot[s] \/ Files(c) \/ Queues(c) \/ MarksClosing(c)
         /\ Files(c) \/ MarksClosing(c) => slot'[s] = slot[s] \/ s = call[c].session
         /\ Queues(c) => slot'[s] = slot[s] \/ s = live
         /\ slot'[s].closing => slot[s].closing \/ (MarksClosing(c) /\ s = call[c].session)
<1>0. slot \in [Sessions -> Slots] /\ slot[s] \in Slots
  BY DEF TypeOK
<1>a. ASSUME NEW t \in Sessions, NEW drain, Accept(t, drain)
      PROVE  (slot'[s] = slot[s] \/ s = t) /\ slot'[s].closing = slot[s].closing
  BY <1>a, AcceptLeaves
<1>1. CASE Files(c)
  <2>1. call[c].session \in Sessions
    BY <1>1 DEF Files, CallsKnown
  <2>2. slot' = slot \/ Accept(call[c].session, call[c].op = "paint")
    BY <1>1 DEF Files
  <2>3. ~Queues(c) /\ ~MarksClosing(c)
    BY <1>1 DEF Files, Queues, MarksClosing
  <2> QED
    BY <1>1, <1>a, <2>1, <2>2, <2>3
<1>2. CASE Queues(c)
  <2>1. live \in Sessions /\ Accept(live, call[c].op = "paint")
    BY <1>2 DEF Queues, TypeOK
  <2>2. ~Files(c) /\ ~MarksClosing(c)
    BY <1>2 DEF Files, Queues, MarksClosing
  <2> QED
    BY <1>2, <1>a, <2>1, <2>2
<1>3. CASE MarksClosing(c)
  <2>1. slot' = [slot EXCEPT ![call[c].session].closing = TRUE]
    BY <1>3 DEF MarksClosing
  <2>2. slot'[s] = slot[s] \/ s = call[c].session
    BY <1>0, <2>1
  <2>3. ~Files(c) /\ ~Queues(c)
    BY <1>3 DEF Files, Queues, MarksClosing
  <2> QED
    BY <1>3, <2>2, <2>3
<1>4. CASE ~Files(c) /\ ~Queues(c) /\ ~MarksClosing(c)
  <2>1. slot' = slot
    BY <1>4 DEF CallSteps, Returns, WaitsForOpen, StartsOpen, PortOpens, PortRefuses,
         QueueFindsDead, WaitSucceeds, WaitSleeps, WaitFails, RemoveIfCurrent, Removes,
         Detaches, DropSleeps
  <2> QED
    BY <1>4, <2>1
<1> QED
  BY <1>1, <1>2, <1>3, <1>4

\* A writer whose slot nobody has used does nothing but sleep.
LEMMA UnusedWaits ==
  ASSUME TypeOK, NEW s \in Sessions, Unused(s), WriterSteps(s) \/ GetsStuck(s)
  PROVE  Unused(s)'
<1>1. ~slot[s].closing /\ ~slot[s].pending /\ writer[s].at \in {"none", "waits"}
  BY DEF Unused, NewSlot
<1>2. WriterSleeps(s)
  BY <1>1 DEF WriterSteps, WriterTakes, WriteEnds, Publishes, WriterLeaves, ClosesPort, HasLeft,
         GetsStuck
<1> QED
  BY <1>2 DEF WriterSleeps, Unused

LEMMA NewestIsUnusedKept ==
  ASSUME TypeOK, TypeOK', Control, OpenersKnown, NewestIsUnused, [Next]_vars
  PROVE  NewestIsUnused'
<1>0. CallsKnown /\ OneOpener /\ Counted
  BY DEF Control
<1>n. /\ opened \in Nat /\ \A s \in Sessions : s \in Nat /\ s # NoSession
      /\ \A c \in Callers : call[c].session \in Nat
  BY Numbers
<1>n2. NoSession = 0
  BY DEF NoSession
<1>o. ASSUME NEW c \in Callers, Opens(c) PROVE opened \in Sessions /\ 0 < opened /\ live = NoSession
  <2>1. call[c].session \in Sessions /\ call[c].session = opened
    BY <1>0, <1>o DEF CallsKnown, Opens, NewestIsUnused
  <2> QED
    BY <1>0, <1>o, <1>n, <1>n2, <2>1 DEF OneOpener
<1>1. CASE \E c \in Callers, op \in Ops :
             Begin(c, op) /\ Quiet /\ \A d \in Callers \ {c} : Alike(call[d], call'[d])
  <2> PICK c \in Callers, op \in Ops :
             Begin(c, op) /\ Quiet /\ \A d \in Callers \ {c} : Alike(call[d], call'[d])
    BY <1>1
  <2>1. ~Opens(c)' /\ call'[c].session = NoSession
    BY BeginMoves DEF Opens
  <2>2. \A s \in Sessions : Reserved(s)' => Unused(s)'
    BY DEF NewestIsUnused, Unused, Reserved, Quiet
  <2>3. opened' = opened
    BY DEF Quiet
  <2>4. ASSUME NEW d \in Callers, Opens(d)'
        PROVE  call'[d].session = opened /\ \A e \in Callers \ {d} : call'[e].session < opened
    <3>1. d # c /\ Opens(d) /\ call'[d].session = call[d].session
      BY <2>1, <2>4 DEF Opens, Alike
    <3>2. call[d].session = opened /\ \A e \in Callers \ {d} : call[e].session < opened
      BY <3>1 DEF NewestIsUnused
    <3>3. 0 < opened
      BY <1>o, <3>1
    <3>4. \A e \in Callers \ {d} : call'[e].session \in {0, call[e].session}
      BY <1>n2, <2>1 DEF Alike
    <3> QED
      BY <3>1, <3>2, <3>3, <3>4
  <2> QED
    BY <2>2, <2>3, <2>4 DEF NewestIsUnused
<1>2. CASE \E c \in Callers : CallSteps(c) /\ \A d \in Callers \ {c} : Alike(call[d], call'[d])
  <2> PICK c \in Callers : CallSteps(c) /\ \A d \in Callers \ {c} : Alike(call[d], call'[d])
    BY <1>2
  <2>1. ASSUME NEW s \in Sessions, Reserved(s)' PROVE Reserved(s) /\ ~(Files(c) /\ s = call[c].session)
    <3>1. CASE StartsOpen(c)
      <4>1. opened' = opened + 1 /\ ~Files(c)
        BY <3>1 DEF StartsOpen, Files
      <4> QED
        BY <1>n, <2>1, <4>1 DEF Reserved
    <3>2. CASE ~StartsOpen(c)
      <4>1. opened' = opened /\ (opening' => opening /\ ~Files(c))
        BY <1>0, <3>2, CallsLeave, TableMoves DEF Files
      <4>2. call[c].session <= opened
        BY <1>0 DEF Counted
      <4> QED
        BY <1>n, <2>1, <4>1, <4>2 DEF Reserved
    <3> QED
      BY <3>1, <3>2
  <2>2. ASSUME NEW s \in Sessions, Reserved(s)' PROVE Unused(s)'
    <3>0. Reserved(s) /\ Unused(s) /\ ~(Files(c) /\ s = call[c].session)
      BY <2>1, <2>2 DEF NewestIsUnused
    <3>1. s # live
      BY <1>0, <1>n, <3>0 DEF CallsKnown, Counted, OneOpener, Reserved
    <3>2. MarksClosing(c) => s # call[c].session
      <4>1. CASE s > opened
        BY <1>0, <1>n, <4>1 DEF Counted
      <4>2. CASE opening /\ s = opened
        <5>1. PICK d \in Callers : Opens(d)
          BY <4>2 DEF OpenersKnown
        <5>2. MarksClosing(c) => c # d
          BY <5>1 DEF MarksClosing, Opens
        <5> QED
          BY <1>n, <4>2, <5>1, <5>2 DEF NewestIsUnused
      <4> QED
        BY <3>0, <4>1, <4>2 DEF Reserved
    <3>3. slot'[s] = slot[s]
      BY <1>0, <3>0, <3>1, <3>2, SlotMoves
    <3>4. writer'[s].at \in {"none", "waits"}
      <4>1. CASE PortOpens(c)
        <5>1. writer' = [writer EXCEPT ![call[c].session] = NewWriter]
          BY <4>1 DEF PortOpens
        <5>2. writer'[s] = writer[s] \/ writer'[s] = NewWriter
          BY <5>1 DEF TypeOK
        <5> QED
          BY <3>0, <5>2 DEF Unused, NewWriter, NoWriter
      <4>2. CASE ~PortOpens(c)
        BY <1>0, <3>0, <4>2, CallsLeave DEF Unused
      <4> QED
        BY <4>1, <4>2
    <3> QED
      BY <3>0, <3>3, <3>4 DEF Unused
  <2>3. ASSUME NEW d \in Callers, Opens(d)'
        PROVE  call'[d].session = opened' /\ \A e \in Callers \ {d} : call'[e].session < opened'
    <3>1. CASE StartsOpen(c)
      <4>1. d = c
        BY <1>0, <2>3, <3>1 DEF StartsOpen, OneOpener, Opens, Alike
      <4>2. opened' = opened + 1
        BY <3>1 DEF StartsOpen
      <4>3. call'[c].session = opened + 1
        BY <3>1, StartsOpenMoves DEF Moves
      <4>4. \A e \in Callers \ {d} : call'[e].session = call[e].session /\ call[e].session <= opened
        BY <1>0, <4>1 DEF Alike, Counted
      <4> QED
        BY <1>n, <4>1, <4>2, <4>3, <4>4
    <3>2. CASE ~StartsOpen(c)
      <4>1. opened' = opened
        BY <1>0, <3>2, CallsLeave
      <4>2. Opens(d) /\ call'[d].session = call[d].session
        BY <1>0, <2>3, <3>2, OwnOpens DEF Opens, Alike
      <4>3. call[d].session = opened /\ \A e \in Callers \ {d} : call[e].session < opened
        BY <4>2 DEF NewestIsUnused
      <4>4. live = NoSession /\ 0 < opened
        BY <1>o, <4>2
      <4>5. ASSUME NEW e \in Callers \ {d} PROVE call'[e].session < opened
        <5>1. CASE e = c
          BY <1>0, <1>n2, <3>2, <4>3, <4>4, <5>1, SessionGiven
        <5>2. CASE e # c
          BY <4>3, <5>2 DEF Alike
        <5> QED
          BY <5>1, <5>2
      <4> QED
        BY <4>1, <4>2, <4>3, <4>5
    <3> QED
      BY <3>1, <3>2
  <2> QED
    BY <2>2, <2>3 DEF NewestIsUnused
<1>3. CASE \E s \in Sessions :
             (WriterSteps(s) \/ GetsStuck(s)) /\ \A d \in Callers : Alike(call[d], call'[d])
  <2> PICK s \in Sessions :
             (WriterSteps(s) \/ GetsStuck(s)) /\ \A d \in Callers : Alike(call[d], call'[d])
    BY <1>3
  <2>1. /\ opened' = opened /\ opening' = opening
        /\ \A t \in Sessions \ {s} : writer'[t] = writer[t] /\ slot'[t] = slot[t]
    BY WritersLeave
  <2>2. \A t \in Sessions : Unused(t) => Unused(t)'
    BY <2>1, UnusedWaits DEF Unused
  <2>3. \A d \in Callers : (Opens(d)' => Opens(d)) /\ call'[d].session = call[d].session
    BY DEF Opens, Alike
  <2> QED
    BY <2>1, <2>2, <2>3 DEF NewestIsUnused, Reserved
<1>4. CASE Quiet /\ \A d \in Callers : Alike(call[d], call'[d])
  BY <1>4 DEF Quiet, NewestIsUnused, Reserved, Unused, Opens, Alike
<1> QED
  BY <1>0, <1>1, <1>2, <1>3, <1>4, StepKinds

\* A call that comes to drop a session has taken it out of the table.
LEMMA OwnDropsAreOut ==
  ASSUME TypeOK, CallsKnown, OneOpener, NEW c \in Callers, CallSteps(c), call'[c].at = "drops"
  PROVE  live' = NoSession
<1>0. CallKnown(call[c])
  BY CallsAreKnown
<1>1. CASE Files(c)
  <2>1. Opens(c)
    BY <1>1 DEF Files, Opens
  <2>2. live = NoSession
    BY <2>1 DEF OneOpener
  <2> QED
    BY <1>1, <2>2, FilesMoves DEF Moves, Ends
<1>2. CASE QueueFindsDead(c) \/ Removes(c)
  BY <1>2 DEF QueueFindsDead, Removes
<1>3. CASE RemoveIfCurrent(c)
  BY <1>3, RemoveIfCurrentMoves DEF Moves, Ends
<1>4. CASE Returns(c)
  BY <1>4, ReturnsMoves DEF Idle
<1>5. CASE WaitSleeps(c) \/ DropSleeps(c)
  BY <1>5 DEF WaitSleeps, DropSleeps
<1>6. CASE WaitsForOpen(c) \/ StartsOpen(c) \/ PortOpens(c)
  BY <1>6, WaitsForOpenMoves, StartsOpenMoves, PortOpensMoves DEF Moves
<1>7. CASE PortRefuses(c) \/ Queues(c) \/ WaitSucceeds(c)
  BY <1>7, PortRefusesMoves, QueuesMoves, WaitSucceedsMoves DEF Moves
<1>8. CASE WaitFails(c) \/ MarksClosing(c)
  BY <1>8, WaitFailsMoves, MarksClosingMoves DEF Moves
<1>9. CASE Detaches(c)
  BY <1>9, DetachesMoves DEF Moves, Ends
<1> QED
  BY <1>1, <1>2, <1>3, <1>4, <1>5, <1>6, <1>7, <1>8, <1>9 DEF CallSteps

LEMMA LiveIsKeptKept ==
  ASSUME TypeOK, Control, CallsKnown', OpenersKnown, NewestIsUnused, LiveIsKept, [Next]_vars
  PROVE  LiveIsKept'
<1>0. CallsKnown /\ OneOpener /\ live \in Sessions \cup {NoSession}
  BY DEF Control, TypeOK
<1>n. NoSession \notin Sessions /\ \A c \in Callers : call[c].session \in Nat
  BY Numbers
<1>1. CASE \E c \in Callers, op \in Ops :
             Begin(c, op) /\ Quiet /\ \A d \in Callers \ {c} : Alike(call[d], call'[d])
  <2> PICK c \in Callers, op \in Ops :
             Begin(c, op) /\ Quiet /\ \A d \in Callers \ {c} : Alike(call[d], call'[d])
    BY <1>1
  <2>1. call'[c].at # "drops"
    BY BeginMoves
  <2> QED
    BY <2>1 DEF Quiet, LiveIsKept, Alike
<1>2. CASE \E c \in Callers : CallSteps(c) /\ \A d \in Callers \ {c} : Alike(call[d], call'[d])
  <2> PICK c \in Callers : CallSteps(c) /\ \A d \in Callers \ {c} : Alike(call[d], call'[d])
    BY <1>2
  <2>1. live' \in {live, NoSession} \/ (Files(c) /\ live' = call[c].session)
    BY <1>0, TableMoves
  <2>2. ASSUME NEW s \in Sessions, s = live' PROVE ~slot'[s].closing
    <3>1. ~slot[s].closing
      <4>1. CASE s = live
        BY <1>n, <4>1 DEF LiveIsKept
      <4>2. CASE Files(c) /\ s = call[c].session
        <5>1. Opens(c)
          BY <4>2 DEF Files, Opens
        <5>2. s = opened /\ opening
          BY <1>0, <4>2, <5>1 DEF NewestIsUnused, OneOpener
        <5> QED
          BY <5>2 DEF NewestIsUnused, Reserved, Unused, NewSlot
      <4> QED
        BY <1>n, <2>1, <2>2, <4>1, <4>2
    <3>2. ~(MarksClosing(c) /\ s = call[c].session)
      <4>1. SUFFICES ASSUME MarksClosing(c), s = call[c].session PROVE FALSE
        OBVIOUS
      <4>2. live' = live /\ call[c].at = "drops"
        BY <4>1 DEF MarksClosing, table
      <4> QED
        BY <2>2, <4>1, <4>2 DEF LiveIsKept
    <3> QED
      BY <1>0, <3>1, <3>2, SlotMoves
  <2>3. ASSUME NEW d \in Callers, call'[d].at = "drops" PROVE call'[d].session # live'
    <3>1. call'[d].session \in Sessions
      BY <2>3 DEF CallsKnown
    <3>2. CASE d = c
      BY <1>0, <1>n, <2>3, <3>1, <3>2, OwnDropsAreOut
    <3>3. CASE d # c
      <4>1. call[d].at = "drops" /\ call'[d].session = call[d].session
        BY <2>3, <3>3 DEF Alike
      <4>2. Files(c) => call[d].session < call[c].session
        <5>1. Files(c) => Opens(c)
          BY DEF Files, Opens
        <5> QED
          BY <3>3, <5>1 DEF NewestIsUnused
      <4> QED
        BY <1>n, <2>1, <3>1, <4>1, <4>2 DEF LiveIsKept
    <3> QED
      BY <3>2, <3>3
  <2>4. live' \in Sessions \cup {NoSession}
    BY <1>0, <2>1 DEF Files, CallsKnown
  <2> QED
    BY <2>2, <2>3, <2>4 DEF LiveIsKept
<1>3. CASE \E s \in Sessions :
             (WriterSteps(s) \/ GetsStuck(s)) /\ \A d \in Callers : Alike(call[d], call'[d])
  <2> PICK s \in Sessions :
             (WriterSteps(s) \/ GetsStuck(s)) /\ \A d \in Callers : Alike(call[d], call'[d])
    BY <1>3
  <2>1. live' = live /\ \A t \in Sessions : slot'[t].closing = slot[t].closing
    BY WritersLeave
  <2> QED
    BY <1>0, <2>1 DEF LiveIsKept, Alike
<1>4. CASE Quiet /\ \A d \in Callers : Alike(call[d], call'[d])
  BY <1>4 DEF Quiet, LiveIsKept, Alike
<1> QED
  BY <1>0, <1>1, <1>2, <1>3, <1>4, StepKinds

LEMMA EndsHaveReasonsKept ==
  ASSUME TypeOK, CallsKnown, EndsHaveReasons, [Next]_vars
  PROVE  EndsHaveReasons'
<1>0. slot \in [Sessions -> Slots] /\ writer \in [Sessions -> Writers]
  BY DEF TypeOK
<1>1. CASE Quiet
  BY <1>1 DEF Quiet, EndsHaveReasons, Past
<1>2. CASE \E c \in Callers : CallSteps(c)
  <2> PICK c \in Callers : CallSteps(c)
    BY <1>2
  <2>1. \A s \in Sessions : Past(s)' => Past(s)
    <3>1. CASE PortOpens(c)
      BY <1>0, <3>1 DEF PortOpens, Past, NewWriter, NoWriter
    <3>2. CASE ~PortOpens(c)
      BY <3>2, CallsLeave DEF Past
    <3> QED
      BY <3>1, <3>2
  <2>2. \A s \in Sessions : SlotKept(s)
    BY CallsLeave
  <2> QED
    BY <2>1, <2>2 DEF EndsHaveReasons, SlotKept
<1>3. CASE \E s \in Sessions : WriterSteps(s) \/ GetsStuck(s)
  <2> PICK s \in Sessions : WriterSteps(s) \/ GetsStuck(s)
    BY <1>3
  <2>1. \A t \in Sessions \ {s} : writer'[t] = writer[t] /\ slot'[t] = slot[t]
    BY WritersLeave
  <2>2. Past(s)' => slot'[s].closing \/ slot'[s].failure # "none"
    <3>0. slot[s] \in Slots /\ writer[s] \in Writers
      BY <1>0
    <3>1. CASE Publishes(s)
      <4>1. CASE writer[s].result = "none"
        <5>1. writer'[s].at = "waits"
          BY <1>0, <3>1, <4>1 DEF Publishes, NewWriter, NoWriter
        <5> QED
          BY <5>1 DEF Past
      <4>2. CASE writer[s].result # "none"
        <5>1. slot'[s].failure = writer[s].result
          BY <1>0, <3>0, <3>1 DEF Publishes, Slots
        <5> QED
          BY <4>2, <5>1
      <4> QED
        BY <4>1, <4>2
    <3>2. CASE WriterLeaves(s)
      BY <3>2 DEF WriterLeaves
    <3>3. CASE ClosesPort(s)
      BY <3>3 DEF ClosesPort, EndsHaveReasons, Past
    <3>4. CASE HasLeft(s)
      <4>1. Past(s) /\ slot' = [slot EXCEPT ![s].exited = TRUE]
        BY <3>4 DEF HasLeft, Past
      <4>2. slot'[s].closing = slot[s].closing /\ slot'[s].failure = slot[s].failure
        BY <1>0, <3>0, <4>1 DEF Slots
      <4> QED
        BY <4>1, <4>2 DEF EndsHaveReasons
    <3>5. CASE WriterSleeps(s)
      BY <3>5 DEF WriterSleeps, Past, EndsHaveReasons
    <3>7. CASE WriterTakes(s)
      BY <1>0, <3>7 DEF WriterTakes, Past
    <3>8. CASE GetsStuck(s)
      BY <1>0, <3>0, <3>8 DEF GetsStuck, Past, Writers
    <3>6. CASE \E result \in {"none", "write failed", "flush failed"} : WriteEnds(s, result)
      BY <1>0, <3>0, <3>6 DEF WriteEnds, Past, Writers
    <3> QED
      BY <3>1, <3>2, <3>3, <3>4, <3>5, <3>6, <3>7, <3>8 DEF WriterSteps
  <2> QED
    BY <2>1, <2>2 DEF EndsHaveReasons, Past
<1> QED
  BY <1>1, <1>2, <1>3, StepKinds

-----------------------------------------------------------------------------
(* A paint that nothing disturbs *)

\* No step makes another call clean.
LEMMA SpoiltIsNotClean ==
  ASSUME TypeOK, NEW d \in Callers
  PROVE  ~Spoil(call)[d].clean
  BY DEF TypeOK, CallStates, Spoil

LEMMA OthersFade ==
  ASSUME TypeOK, CallsKnown, NEW c \in Callers, CallSteps(c), NEW d \in Callers \ {c}, call'[d].clean
  PROVE  call[d].clean
<1>0. call \in [Callers -> CallStates] /\ call[d] \in CallStates
  BY DEF TypeOK
<1>1. ASSUME NEW f, call' = Goes(c, f) PROVE call'[d] = call[d]
  BY <1>1, GoesThere
<1>2. CASE PortRefuses(c)
  <2>1. call'[d] = call[d] \/ call'[d] = Spoil(call)[d]
    BY <1>0, <1>2 DEF PortRefuses, Spoil
  <2> QED
    BY <2>1, SpoiltIsNotClean
<1>3. CASE Files(c)
  <2>1. PICK f \in CallStates : call' = Awake(Goes(c, f))
    BY <1>3, FiledIsTyped
  <2>2. Goes(c, f)[d] = call[d]
    BY GoesThere
  <2>3. Awake(Goes(c, f))[d].clean = call[d].clean
    BY <1>0, <2>2 DEF Awake, CallStates
  <2> QED
    BY <2>1, <2>3
<1>4. CASE WaitSleeps(c) \/ DropSleeps(c)
  BY <1>4 DEF WaitSleeps, DropSleeps
<1>5. CASE \/ Returns(c) \/ WaitsForOpen(c) \/ StartsOpen(c) \/ PortOpens(c) \/ Queues(c)
           \/ QueueFindsDead(c) \/ WaitSucceeds(c) \/ WaitFails(c) \/ RemoveIfCurrent(c)
           \/ Removes(c) \/ MarksClosing(c) \/ Detaches(c)
  <2>1. \E f : call' = Goes(c, f)
    BY <1>5 DEF Returns, WaitsForOpen, StartsOpen, PortOpens, Queues, QueueFindsDead,
                WaitSucceeds, WaitFails, RemoveIfCurrent, Removes, MarksClosing, Detaches
  <2> QED
    BY <1>1, <2>1
<1> QED
  BY <1>2, <1>3, <1>4, <1>5 DEF CallSteps

\* What its own step does to the history of a paint that goes on.
Remembers(f, g) == (g.clean => f.clean) /\ g.op = f.op /\ (g.again = f.again \/ g.at = "looks")

LEMMA AnsweredRemembers ==
  ASSUME NEW f \in CallStates, NEW answer
  PROVE  Remembers(f, Answered(f, answer))
<1>1. CASE TriesAgain(f, answer)
  <2>1. Answered(f, answer) = [f EXCEPT !.at = "looks", !.session = NoSession, !.again = TRUE,
                                        !.answer = "none"]
    BY <1>1 DEF Answered
  <2> QED
    BY <2>1 DEF Remembers, CallStates
<1>2. CASE ~TriesAgain(f, answer)
  BY <1>2 DEF Answered, Remembers, CallStates
<1> QED
  BY <1>1, <1>2

LEMMA QueuedRemembers ==
  ASSUME NEW f \in CallStates, NEW s
  PROVE  Remembers(f, Queued(f, s))
  BY DEF Queued, Remembers, CallStates

LEMMA OwnRemembers ==
  ASSUME TypeOK, CallsKnown, NEW c \in Callers, CallSteps(c)
  PROVE  Returns(c) \/ Remembers(call[c], call'[c])
<1>0. call \in [Callers -> CallStates] /\ call[c] \in CallStates
  BY DEF TypeOK
<1>a. Remembers(call[c], call[c])
  BY DEF Remembers
<1>1. CASE WaitSleeps(c) \/ DropSleeps(c)
  BY <1>a, <1>1 DEF WaitSleeps, DropSleeps
<1>2. CASE PortRefuses(c)
  <2>0. Spoil(call) \in [Callers -> CallStates]
    BY <1>0, SpoiltIsTyped
  <2>1. call'[c] = [call[c] EXCEPT !.at = "files", !.answer = "open failed",
                                   !.clean = @ /\ handles # {}]
    BY <1>0, <1>2, <2>0 DEF PortRefuses
  <2> QED
    BY <1>0, <2>1 DEF Remembers, CallStates
<1>3. CASE Files(c)
  <2>1. CASE call[c].answer = "none" /\ KeptWhenDropped
    <3>0. call[c].session \in Sessions
      BY <1>3 DEF Files, CallsKnown
    <3>1. /\ call' = Awake(Goes(c, Queued(call[c], call[c].session)))
          /\ Accept(call[c].session, call[c].op = "paint")
      BY <1>3, <2>1 DEF Files
    <3>2. /\ Queued(call[c], call[c].session) \in CallStates
          /\ Queued(call[c], call[c].session).at # "sleeps"
      BY <1>0, <3>0, <3>1, QueuedIsTyped DEF Accept, Queued, CallStates
    <3>3. call'[c] = Queued(call[c], call[c].session)
      BY <3>1, <3>2, AwakeStays
    <3> QED
      BY <1>0, <3>3, QueuedRemembers
  <2>2. CASE call[c].answer = "none" /\ ~KeptWhenDropped
    <3> DEFINE f == [call[c] EXCEPT !.at = "drops", !.answer = "unavailable"]
    <3>1. call' = Awake(Goes(c, f))
      BY <1>3, <2>2 DEF Files
    <3>2. f \in CallStates /\ f.at # "sleeps"
      BY <1>0 DEF CallStates
    <3>3. call'[c] = f
      BY <3>1, <3>2, AwakeStays
    <3> QED
      BY <1>0, <3>3 DEF Remembers, CallStates
  <2>3. CASE call[c].answer # "none"
    <3>1. call' = Awake(Goes(c, Answered(call[c], call[c].answer)))
      BY <1>3, <2>3 DEF Files
    <3>2. call[c].answer \in {"none", "ok", "open failed", "unavailable", "write failed"}
      BY <1>0 DEF CallStates
    <3>3. /\ Answered(call[c], call[c].answer) \in CallStates
          /\ Answered(call[c], call[c].answer).at # "sleeps"
      BY <1>0, <3>2, AnsweredIsTyped, AnsweredIsPlaced
    <3>4. call'[c] = Answered(call[c], call[c].answer)
      BY <3>1, <3>3, AwakeStays
    <3> QED
      BY <1>0, <3>4, AnsweredRemembers
  <2> QED
    BY <2>1, <2>2, <2>3
<1>4. CASE WaitsForOpen(c) \/ StartsOpen(c) \/ PortOpens(c)
  <2>1. \/ call'[c] = [call[c] EXCEPT !.at = "sleeps"]
        \/ call'[c] = [call[c] EXCEPT !.at = "opens", !.session = opened + 1]
        \/ call'[c] = [call[c] EXCEPT !.at = "files"]
    BY <1>4, GoesThere DEF WaitsForOpen, StartsOpen, PortOpens
  <2> QED
    BY <1>0, <2>1 DEF Remembers, CallStates
<1>5. CASE Queues(c)
  <2>1. call'[c] = Queued(call[c], live)
    BY <1>5, GoesThere DEF Queues
  <2> QED
    BY <1>0, <2>1, QueuedRemembers
<1>6. CASE QueueFindsDead(c)
  <2>1. call'[c] = [call[c] EXCEPT !.at = "drops", !.session = live,
            !.answer = IF slot[live].failure # "none" THEN "write failed" ELSE "unavailable"]
    BY <1>6, GoesThere DEF QueueFindsDead
  <2> QED
    BY <1>0, <2>1 DEF Remembers, CallStates
<1>7. CASE WaitSucceeds(c) \/ Detaches(c)
  <2>1. \E answer : call'[c] = Answered(call[c], answer)
    BY <1>7, GoesThere DEF WaitSucceeds, Detaches
  <2> QED
    BY <1>0, <2>1, AnsweredRemembers
<1>8. CASE WaitFails(c) \/ MarksClosing(c)
  <2>1. \/ call'[c] = [call[c] EXCEPT !.at = "forgets", !.answer = "write failed"]
        \/ call'[c] = [call[c] EXCEPT !.at = "leaves"]
    BY <1>8, GoesThere DEF WaitFails, MarksClosing
  <2> QED
    BY <1>0, <2>1 DEF Remembers, CallStates
<1>9. CASE RemoveIfCurrent(c)
  <2>1. \/ call'[c] = [call[c] EXCEPT !.at = "drops"]
        \/ call'[c] = Answered(call[c], call[c].answer)
    BY <1>9, GoesThere DEF RemoveIfCurrent
  <2>2. Remembers(call[c], [call[c] EXCEPT !.at = "drops"])
    BY <1>0 DEF Remembers, CallStates
  <2> QED
    BY <1>0, <2>1, <2>2, AnsweredRemembers
<1>10. CASE Removes(c)
  <2>1. \/ call'[c] = [call[c] EXCEPT !.at = "drops", !.session = live, !.answer = "ok"]
        \/ call'[c] = Answered(call[c], "ok")
    BY <1>10, GoesThere DEF Removes
  <2>2. Remembers(call[c], [call[c] EXCEPT !.at = "drops", !.session = live, !.answer = "ok"])
    BY <1>0 DEF Remembers, CallStates
  <2> QED
    BY <1>0, <2>1, <2>2, AnsweredRemembers
<1> QED
  BY <1>1, <1>2, <1>3, <1>4, <1>5, <1>6, <1>7, <1>8, <1>9, <1>10 DEF CallSteps

\* The second try of a paint.
LEMMA PaintTriesAgain ==
  ASSUME TypeOK, NEW c \in Callers, call[c].op = "paint", ~call[c].again,
         call'[c] = Answered(call[c], "write failed")
  PROVE  call'[c].at = "looks" /\ call'[c].session = NoSession
<1>1. call[c] \in CallStates
  BY DEF TypeOK
<1>2. call'[c] = [call[c] EXCEPT !.at = "looks", !.session = NoSession, !.again = TRUE,
                                 !.answer = "none"]
  BY DEF Answered, TriesAgain
<1> QED
  BY <1>1, <1>2 DEF CallStates

Sound == OpenersKnown /\ NewestIsUnused /\ LiveIsKept /\ EndsHaveReasons

\* The steps of an open.
LEMMA CleanOpens ==
  ASSUME TypeOK, Control, Sound, NEW c \in Callers, Clean(c), Alone(c), WayIsClear(c),
         Tries(call[c]), Clean(c)',
         WaitsForOpen(c) \/ StartsOpen(c) \/ PortOpens(c) \/ PortRefuses(c) \/ Files(c)
  PROVE  WayIsClear(c)' /\ Tries(call[c])'
<1>0. /\ call \in [Callers -> CallStates] /\ call[c] \in CallStates /\ handles \subseteq Sessions
      /\ CallsKnown /\ OneOpener /\ WritersKnown /\ OpenersKnown /\ NewestIsUnused
      /\ CallKnown(call[c]) /\ NoSession \notin Sessions /\ live \in Sessions \cup {NoSession}
  BY CallsAreKnown, Numbers DEF TypeOK, Control, Sound
<1>1. CASE WaitsForOpen(c)
  <2>1. call[c].at = "looks" /\ opening
    BY <1>1 DEF WaitsForOpen
  <2>2. PICK d \in Callers : Opens(d)
    BY <1>0, <2>1 DEF OpenersKnown
  <2> QED
    BY <2>1, <2>2 DEF Opens, Alone
<1>2. CASE StartsOpen(c)
  <2>1. /\ call[c].at = "looks" /\ live = NoSession /\ live' = live
        /\ UNCHANGED <<handles, writer, dropped>>
    BY <1>2 DEF StartsOpen, port
  <2>2. handles = {}
    BY <1>0, <2>1 DEF WayIsClear, Tries
  <2>3. call'[c].at = "opens"
    BY <1>2, StartsOpenMoves DEF Moves
  <2> QED
    BY <2>1, <2>2, <2>3 DEF WayIsClear, Tries
<1>3. CASE PortOpens(c)
  <2> DEFINE s == call[c].session
  <2>1. /\ call[c].at = "opens" /\ UNCHANGED <<live, dropped, plugged>>
        /\ handles' = handles \cup {s} /\ cable' = [cable EXCEPT ![s] = plugged]
        /\ writer' = [writer EXCEPT ![s] = NewWriter]
    BY <1>3 DEF PortOpens, table
  <2>2. s \in Sessions /\ handles = {} /\ call[c].answer = "none"
    BY <1>0, <2>1 DEF CallKnown, Tries
  <2>3. handles' = {s} /\ cable'[s] = plugged' /\ writer'[s].at = "waits"
    BY <2>1, <2>2 DEF TypeOK, NewWriter, NoWriter
  <2>4. call'[c].at = "files" /\ call'[c].session = s /\ call'[c].answer = "none"
    BY <1>3, <2>2, PortOpensMoves DEF Moves
  <2> QED
    BY <2>1, <2>3, <2>4 DEF WayIsClear, Tries, Current
<1>4. CASE PortRefuses(c)
  <2>1. handles = {}
    BY <1>4 DEF PortRefuses, Tries
  <2>2. Spoil(call) \in [Callers -> CallStates]
    BY <1>0, SpoiltIsTyped
  <2>3. call'[c] = [call[c] EXCEPT !.at = "files", !.answer = "open failed",
                                   !.clean = @ /\ handles # {}]
    BY <1>0, <1>4, <2>2 DEF PortRefuses
  <2>4. ~call'[c].clean
    BY <1>0, <2>1, <2>3 DEF CallStates
  <2> QED
    BY <2>4 DEF Clean
<1>5. CASE Files(c)
  <2>0. PICK s \in Sessions : s = call[c].session
    BY <1>0, <1>5 DEF Files, CallKnown
  <2>1. /\ call[c].at = "files" /\ call[c].answer = "none" /\ Current(s) /\ ~dropped
        /\ call[c].op = "paint"
    BY <1>5, <2>0 DEF Files, Tries, WayIsClear, Clean
  <2>2. /\ live' = s /\ Accept(s, TRUE) /\ dropped' = FALSE
        /\ UNCHANGED <<handles, cable, plugged, writer>>
    BY <1>5, <2>0, <2>1 DEF Files, KeptWhenDropped, port
  <2>3. call'[c].at = "checks" /\ call'[c].session = s
    <3>1. Moves(c, "checks", s, "none")
      BY <1>0, <1>5, <2>0, <2>1, FilesMoves
    <3> QED
      BY <3>1 DEF Moves
  <2>4. Unused(s) /\ live = NoSession
    BY <1>0, <2>0, <2>1 DEF Opens, OneOpener, NewestIsUnused, Reserved
  <2>5. slot'[s].failure = "none" /\ ~slot'[s].closing
    <3>1. slot'[s].failure = slot[s].failure /\ slot'[s].closing = slot[s].closing
      BY <2>2, AcceptLeaves
    <3> QED
      BY <2>4, <3>1 DEF Unused, NewSlot
  <2>6. writer[s].at = "waits"
    BY <1>0, <2>1, <2>4 DEF Current, WritersKnown, Unused
  <2>7. Healthy(s)'
    BY <2>1, <2>2, <2>5, <2>6 DEF Healthy, Current
  <2>8. handles \subseteq {s} /\ \A t \in handles : writer[t].at # "stuck"
    BY <1>0, <2>0, <2>4 DEF WayIsClear
  <2>9. Healthy(call[c].session)'
    BY <2>3, <2>7 DEF Healthy, Current
  <2> QED
    BY <2>2, <2>3, <2>8, <2>9 DEF WayIsClear, Tries
<1> QED
  BY <1>1, <1>2, <1>3, <1>4, <1>5

\* The steps of a wait.
LEMMA CleanWaits ==
  ASSUME TypeOK, Control, Sound, NEW c \in Callers, Clean(c), Alone(c), WayIsClear(c),
         Tries(call[c]), Clean(c)',
         Queues(c) \/ QueueFindsDead(c) \/ WaitSucceeds(c) \/ WaitSleeps(c) \/ WaitFails(c)
  PROVE  WayIsClear(c)' /\ Tries(call[c])'
<1>0. /\ call \in [Callers -> CallStates] /\ call[c] \in CallStates /\ handles \subseteq Sessions
      /\ CallsKnown /\ WritersKnown /\ LiveIsKept /\ EndsHaveReasons
      /\ CallKnown(call[c]) /\ NoSession \notin Sessions /\ live \in Sessions \cup {NoSession}
  BY CallsAreKnown, Numbers DEF TypeOK, Control, Sound
<1>r. Remembers(call[c], call'[c])
  <2>1. CallSteps(c)
    BY DEF CallSteps
  <2>2. ~Returns(c)
    BY DEF Returns, Queues, QueueFindsDead, WaitSucceeds, WaitSleeps, WaitFails
  <2> QED
    BY <1>0, <2>1, <2>2, OwnRemembers
<1>1. CASE Queues(c)
  <2>1. /\ call[c].at = "looks" /\ live # NoSession /\ live' = live /\ dropped' = dropped
        /\ UNCHANGED <<handles, writer>> /\ call[c].op = "paint"
    BY <1>1 DEF Queues, table, port, Clean
  <2>2. call[c].session = NoSession /\ ~call[c].again
    BY <2>1 DEF Tries
  <2>3. call'[c].at = "checks" /\ call'[c].session = live
    BY <1>1, <2>1, QueuesMoves DEF Moves
  <2>4. ~call'[c].again
    BY <1>r, <2>2, <2>3 DEF Remembers
  <2> QED
    BY <1>0, <2>1, <2>2, <2>3, <2>4 DEF WayIsClear, Tries
<1>2. CASE QueueFindsDead(c)
  <2>1. /\ call[c].at = "looks" /\ live # NoSession /\ live' = NoSession /\ dropped' = dropped
        /\ slot[live].failure # "none" \/ slot[live].exited
        /\ UNCHANGED <<handles, writer>>
    BY <1>2 DEF QueueFindsDead, port
  <2>2. call[c].session = NoSession /\ ~call[c].again /\ live \in Sessions
    BY <1>0, <2>1 DEF Tries
  <2>3. slot[live].failure # "none"
    <3>1. ~slot[live].closing
      BY <1>0, <2>1 DEF LiveIsKept
    <3>2. slot[live].exited => Past(live)
      BY <1>0, <2>2 DEF WritersKnown, Past
    <3> QED
      BY <1>0, <2>1, <2>2, <3>1, <3>2 DEF EndsHaveReasons
  <2>4. call'[c] = [call[c] EXCEPT !.at = "drops", !.session = live, !.answer = "write failed"]
    BY <1>2, <2>3, GoesThere DEF QueueFindsDead
  <2>5. /\ call'[c].at = "drops" /\ call'[c].session = live /\ call'[c].answer = "write failed"
        /\ ~call'[c].again
    BY <1>0, <2>2, <2>4 DEF CallStates
  <2> QED
    BY <1>0, <2>1, <2>2, <2>5 DEF WayIsClear, Tries
<1>3. CASE WaitSucceeds(c)
  <2>1. UNCHANGED <<live, dropped, handles, writer>>
    BY <1>3 DEF WaitSucceeds, table, port
  <2>2. /\ call'[c].at = "answered" /\ call'[c].session = call[c].session
        /\ call'[c].answer = "ok"
    BY <1>3, WaitSucceedsMoves DEF Moves
  <2> QED
    BY <2>1, <2>2 DEF WayIsClear, Tries
<1>4. CASE WaitSleeps(c)
  <2>1. UNCHANGED <<live, dropped, handles, writer, call, slot, cable, plugged>>
    BY <1>4 DEF WaitSleeps, table, port
  <2> QED
    BY <2>1 DEF WayIsClear, Tries, Healthy, Current
<1>5. CASE WaitFails(c)
  <2>1. UNCHANGED <<live, dropped, handles, writer>> /\ call[c].at = "checks"
    BY <1>5 DEF WaitFails, table, port
  <2>2. call[c].session \in Sessions /\ call[c].session = live
    BY <1>0, <2>1 DEF CallKnown, Tries
  <2>3. ~call[c].again
    <3>1. SUFFICES ASSUME Healthy(live) PROVE FALSE
      BY <1>0, <2>1, <2>2 DEF Tries, CallStates
    <3>2. slot[live].failure # "none" \/ slot[live].exited \/ Stuck(live)
      BY <1>5, <2>2 DEF WaitFails
    <3> QED
      BY <1>0, <2>2, <3>1, <3>2 DEF Healthy, WritersKnown, Stuck
  <2>4. /\ call'[c].at = "forgets" /\ call'[c].session = call[c].session
        /\ call'[c].answer = "write failed"
    BY <1>5, WaitFailsMoves DEF Moves
  <2>5. ~call'[c].again
    BY <1>r, <2>3, <2>4 DEF Remembers
  <2> QED
    BY <2>1, <2>2, <2>4, <2>5 DEF WayIsClear, Tries
<1> QED
  BY <1>1, <1>2, <1>3, <1>4, <1>5

\* The steps that end a try.
LEMMA CleanDrops ==
  ASSUME TypeOK, Control, Sound, NEW c \in Callers, Clean(c), Alone(c), WayIsClear(c),
         Tries(call[c]), Clean(c)',
         \/ Returns(c) \/ RemoveIfCurrent(c) \/ Removes(c) \/ MarksClosing(c) \/ Detaches(c)
         \/ DropSleeps(c)
  PROVE  WayIsClear(c)' /\ Tries(call[c])'
<1>0. /\ call \in [Callers -> CallStates] /\ call[c] \in CallStates /\ handles \subseteq Sessions
      /\ CallsKnown /\ WritersKnown /\ call[c].op = "paint"
      /\ CallKnown(call[c]) /\ NoSession \notin Sessions /\ live \in Sessions \cup {NoSession}
  BY CallsAreKnown, Numbers DEF TypeOK, Control, Sound, Clean
<1>1. CASE Returns(c)
  <2>1. ~call'[c].clean
    BY <1>1, ReturnsMoves DEF Idle
  <2> QED
    BY <2>1 DEF Clean
<1>2. CASE RemoveIfCurrent(c)
  <2>1. /\ call[c].at = "forgets" /\ UNCHANGED <<dropped, handles, writer>>
    BY <1>2 DEF RemoveIfCurrent, port
  <2>2. call[c].session = live /\ call[c].answer = "write failed" /\ ~call[c].again
    BY <2>1 DEF Tries
  <2>3. call' = Goes(c, [call[c] EXCEPT !.at = "drops"]) /\ live' = NoSession
    BY <1>2, <2>2 DEF RemoveIfCurrent
  <2>4. call'[c] = [call[c] EXCEPT !.at = "drops"]
    BY <2>3, GoesThere
  <2>5. /\ call'[c].at = "drops" /\ call'[c].session = live /\ call'[c].answer = "write failed"
        /\ ~call'[c].again
    BY <1>0, <2>2, <2>4 DEF CallStates
  <2> QED
    BY <2>1, <2>2, <2>3, <2>5 DEF WayIsClear, Tries
<1>3. CASE Removes(c)
  BY <1>3 DEF Removes, Tries
<1>4. CASE MarksClosing(c)
  <2>1. /\ call[c].at = "drops" /\ UNCHANGED <<live, dropped, handles, writer>>
    BY <1>4 DEF MarksClosing, table, port
  <2>2. live = NoSession /\ call[c].answer = "write failed" /\ ~call[c].again
    BY <2>1 DEF Tries
  <2>3. call'[c] = [call[c] EXCEPT !.at = "leaves"]
    BY <1>4, GoesThere DEF MarksClosing
  <2>4. /\ call'[c].at = "leaves" /\ call'[c].session = call[c].session
        /\ call'[c].answer = "write failed" /\ ~call'[c].again
    BY <1>0, <2>2, <2>3 DEF CallStates
  <2> QED
    BY <2>1, <2>2, <2>4 DEF WayIsClear, Tries
<1>5. CASE Detaches(c)
  <2>1. /\ call[c].at = "leaves" /\ UNCHANGED <<live, dropped, handles, writer>>
        /\ slot[call[c].session].exited \/ Stuck(call[c].session)
    BY <1>5 DEF Detaches, table, port
  <2>2. /\ live = NoSession /\ call[c].answer = "write failed" /\ ~call[c].again
        /\ call[c].session \in Sessions
    BY <1>0, <2>1 DEF Tries, CallKnown
  <2>3. handles = {}
    <3>1. call[c].session \notin handles
      BY <1>0, <2>1, <2>2 DEF WritersKnown, WayIsClear, Stuck
    <3> QED
      BY <1>0, <2>2, <3>1 DEF WayIsClear
  <2>4. call'[c] = Answered(call[c], "write failed")
    <3>1. call' = Goes(c, Answered(call[c], call[c].answer))
      BY <1>5 DEF Detaches
    <3>2. call'[c] = Answered(call[c], call[c].answer)
      BY <1>0, <3>1 DEF Goes
    <3> QED
      BY <2>2, <3>2
  <2>5. call'[c].at = "looks" /\ call'[c].session = NoSession
    BY <1>0, <2>2, <2>4, PaintTriesAgain
  <2> QED
    BY <2>1, <2>2, <2>3, <2>5 DEF WayIsClear, Tries
<1>6. CASE DropSleeps(c)
  <2>1. UNCHANGED <<live, dropped, handles, writer, call, slot, cable, plugged>>
    BY <1>6 DEF DropSleeps, table, port
  <2> QED
    BY <2>1 DEF WayIsClear, Tries, Healthy, Current
<1> QED
  BY <1>1, <1>2, <1>3, <1>4, <1>5, <1>6

\* What a writer leaves to a paint that nothing disturbs.
LEMMA CleanWriters ==
  ASSUME TypeOK, Control, Sound, NEW c \in Callers, Clean(c), WayIsClear(c), Tries(call[c]),
         NEW s \in Sessions, WriterSteps(s), Clean(c)'
  PROVE  WayIsClear(c)' /\ Tries(call[c])'
<1>0. /\ slot[s] \in Slots /\ writer[s] \in Writers /\ slot \in [Sessions -> Slots]
      /\ writer \in [Sessions -> Writers] /\ handles \subseteq Sessions /\ CallsKnown
      /\ WritersKnown /\ NewestIsUnused /\ OneOpener /\ CallKnown(call[c])
  BY CallsAreKnown DEF TypeOK, Control, Sound
<1>1. /\ UNCHANGED <<live, dropped, plugged, cable>> /\ handles' \subseteq handles
      /\ \A t \in Sessions \ {s} : writer'[t] = writer[t] /\ slot'[t] = slot[t]
      /\ \A t \in Sessions \ {s} : t \in handles' <=> t \in handles
      /\ slot'[s].closing = slot[s].closing
  BY WritersLeave
<1>2. ASSUME NEW result, WriteEnds(s, result), Healthy(s) PROVE result = "none"
  <2>1. cable[s] = plugged /\ writer[s].at # "stuck"
    BY <1>2 DEF Healthy, Current
  <2>2. call' # Spoil(call)
    BY SpoiltIsNotClean DEF Clean
  <2> QED
    BY <1>2, <2>1, <2>2 DEF WriteEnds, Reaches
<1>3. call'[c] = call[c]
  <2>1. call' = call \/ call' = Spoil(call)
    BY DEF WriterSteps, WriterSleeps, WriterTakes, WriteEnds, Publishes, WriterLeaves, ClosesPort,
           HasLeft
  <2> QED
    BY <2>1, SpoiltIsNotClean DEF Clean
<1>4. writer'[s].at # "stuck"
      /\ (ClosesPort(s) \/ handles' = handles)
  <2>1. CASE WriterSleeps(s) \/ WriterTakes(s)
    <3>1. handles' = handles /\ writer[s].at = "waits"
      BY <2>1 DEF WriterSleeps, WriterTakes, port
    <3> QED
      BY <1>0, <2>1, <3>1 DEF WriterSleeps, WriterTakes
  <2>2. CASE \E result \in {"none", "write failed", "flush failed"} : WriteEnds(s, result)
    <3>1. PICK result : writer' = [writer EXCEPT ![s] = [writer[s] EXCEPT !.at = "wrote", !.result = result]]
      BY <2>2 DEF WriteEnds
    <3>2. writer'[s].at = "wrote"
      BY <1>0, <3>1 DEF Writers
    <3> QED
      BY <2>2, <3>2 DEF WriteEnds
  <2>3. CASE Publishes(s)
    BY <1>0, <2>3 DEF Publishes, NewWriter, NoWriter, port
  <2>4. CASE WriterLeaves(s) \/ HasLeft(s)
    BY <1>0, <2>4 DEF WriterLeaves, HasLeft, Writers, port
  <2>5. CASE ClosesPort(s)
    BY <1>0, <2>5 DEF ClosesPort, Writers
  <2> QED
    BY <2>1, <2>2, <2>3, <2>4, <2>5 DEF WriterSteps
<1>5. WayIsClear(c)'
  <2>1. \A t \in handles' : writer'[t].at # "stuck"
    BY <1>0, <1>1, <1>4 DEF WayIsClear
  <2> QED
    BY <1>1, <1>3, <2>1 DEF WayIsClear
<1>6. ASSUME NEW t \in Sessions, Healthy(t) PROVE Healthy(t)'
  <2>1. CASE t # s
    BY <1>1, <1>6, <2>1 DEF Healthy, Current
  <2>2. CASE t = s
    <3>0. /\ Current(s) /\ slot[s].failure = "none" /\ ~slot[s].closing
          /\ writer[s].at \in {"waits", "writes", "wrote"}
          /\ writer[s].at = "wrote" => writer[s].result = "none"
      BY <1>6, <2>2 DEF Healthy
    <3>1. ~ClosesPort(s) /\ ~HasLeft(s) /\ ~WriterLeaves(s)
      BY <3>0 DEF ClosesPort, HasLeft, WriterLeaves
    <3>2. Current(s)'
      BY <1>1, <1>4, <3>0, <3>1 DEF Current
    <3>3. CASE WriterSleeps(s)
      BY <3>0, <3>2, <3>3, <2>2 DEF WriterSleeps, Healthy
    <3>4. CASE WriterTakes(s)
      <4>1. writer'[s].at = "writes" /\ slot' = [slot EXCEPT ![s].pending = FALSE]
        BY <1>0, <3>4 DEF WriterTakes
      <4>2. slot'[s].failure = "none" /\ ~slot'[s].closing
        BY <1>0, <3>0, <4>1 DEF Slots
      <4> QED
        BY <2>2, <3>2, <4>1, <4>2 DEF Healthy
    <3>5. CASE \E result \in {"none", "write failed", "flush failed"} : WriteEnds(s, result)
      <4>1. WriteEnds(s, "none")
        BY <1>2, <1>6, <2>2, <3>5
      <4>2. slot' = slot /\ writer' = [writer EXCEPT ![s] = [writer[s] EXCEPT !.at = "wrote", !.result = "none"]]
        BY <4>1 DEF WriteEnds
      <4>3. writer'[s].at = "wrote" /\ writer'[s].result = "none"
        BY <1>0, <4>2 DEF Writers
      <4> QED
        BY <2>2, <3>0, <3>2, <4>2, <4>3 DEF Healthy
    <3>6. CASE Publishes(s)
      <4>1. /\ writer[s].result = "none" /\ writer' = [writer EXCEPT ![s] = NewWriter]
            /\ slot' = [slot EXCEPT ![s] = [slot[s] EXCEPT !.written = writer[s].seq,
                                                          !.failure = writer[s].result]]
        BY <3>0, <3>6 DEF Publishes
      <4>2. slot'[s].failure = "none" /\ ~slot'[s].closing
        BY <1>0, <3>0, <4>1 DEF Slots
      <4>3. writer'[s].at = "waits"
        BY <1>0, <4>1 DEF NewWriter, NoWriter
      <4> QED
        BY <2>2, <3>2, <4>2, <4>3 DEF Healthy
    <3> QED
      BY <3>1, <3>3, <3>4, <3>5, <3>6 DEF WriterSteps
  <2> QED
    BY <2>1, <2>2
<1>7. ASSUME call[c].at = "files" PROVE Current(call[c].session)'
  <2> DEFINE t == call[c].session
  <2>1. t \in Sessions /\ Current(t)
    BY <1>0, <1>7 DEF CallKnown, Tries
  <2>2. Unused(t)
    BY <1>0, <1>7, <2>1 DEF Opens, OneOpener, NewestIsUnused, Reserved
  <2>3. t = s => ~ClosesPort(s)
    BY <2>2 DEF Unused, ClosesPort
  <2>4. t \in handles'
    BY <1>1, <1>4, <2>1, <2>3 DEF Current
  <2>5. cable'[t] = plugged'
    BY <1>1, <2>1 DEF Current
  <2> QED
    BY <1>3, <2>4, <2>5 DEF Current
<1>8. Tries(call[c])'
  <2>1. call[c].at = "opens" => handles' = {}
    BY <1>1 DEF Tries
  <2>2. call[c].at = "checks" /\ call[c].again => Healthy(call[c].session)'
    <3>1. SUFFICES ASSUME call[c].at = "checks", call[c].again PROVE Healthy(call[c].session)'
      OBVIOUS
    <3>2. PICK t \in Sessions : t = call[c].session
      BY <1>0, <3>1 DEF CallKnown
    <3>3. Healthy(t)'
      BY <1>6, <3>1, <3>2 DEF Tries
    <3> QED
      BY <1>3, <3>2, <3>3 DEF Healthy, Current
  <2> QED
    BY <1>1, <1>3, <1>7, <2>1, <2>2 DEF Tries
<1> QED
  BY <1>5, <1>8

\* A clean paint begins with the port to itself.
LEMMA CleanBegins ==
  ASSUME TypeOK, Control, Sound, NEW c \in Callers, NEW op \in Ops, Begin(c, op), Clean(c)'
  PROVE  Alone(c)' /\ WayIsClear(c)' /\ Tries(call[c])'
<1> DEFINE f == [Idle EXCEPT !.op = op, !.at = IF op = "drop" THEN "removes" ELSE "looks",
                             !.upto = opened, !.clean = (Busy = {} /\ NothingDetached)]
<1>0. /\ call \in [Callers -> CallStates] /\ Spoil(call) \in [Callers -> CallStates]
      /\ OpenersKnown
  BY SpoiltIsTyped DEF TypeOK, Sound
<1>1. call'[c] = f /\ UNCHANGED <<live, opening, dropped, handles, writer>>
  BY <1>0 DEF Begin, table, port
<1>2. /\ f.op = op /\ f.at = (IF op = "drop" THEN "removes" ELSE "looks") /\ ~f.again
      /\ f.session = NoSession /\ f.clean = (Busy = {} /\ NothingDetached)
  BY DEF Idle
<1>3. Busy = {} /\ NothingDetached /\ op = "paint"
  BY <1>1, <1>2 DEF Clean
<1>4. \A d \in Callers : call[d].at = "idle"
  BY <1>3 DEF Busy
<1>5. Alone(c)'
  <2>1. \A d \in Callers \ {c} : call'[d] = call[d]
    BY <1>0, <1>3 DEF Begin
  <2> QED
    BY <1>4, <2>1 DEF Alone
<1>6. ~dropped
  BY <1>0, <1>4 DEF OpenersKnown, Opens
<1>7. WayIsClear(c)'
  BY <1>1, <1>3, <1>6 DEF WayIsClear, NothingDetached
<1>8. Tries(call[c])'
  <2>1. call'[c].at = "looks" /\ call'[c].session = NoSession /\ ~call'[c].again
    BY <1>1, <1>2, <1>3
  <2> QED
    BY <2>1 DEF Tries
<1> QED
  BY <1>5, <1>7, <1>8

LEMMA CleanRunsKept ==
  ASSUME TypeOK, Control, Sound, CleanRuns, [Next]_vars
  PROVE  CleanRuns'
<1> SUFFICES ASSUME NEW c \in Callers, Clean(c)'
             PROVE  Alone(c)' /\ WayIsClear(c)' /\ Tries(call[c])'
  BY DEF CleanRuns
<1>0. CallsKnown /\ call \in [Callers -> CallStates] /\ Spoil(call) \in [Callers -> CallStates]
  BY SpoiltIsTyped DEF Control, TypeOK
<1>s. call' # Spoil(call)
  BY SpoiltIsNotClean DEF Clean
<1>1. CASE \E d \in Callers, op \in Ops : Begin(d, op)
  <2> PICK d \in Callers, op \in Ops : Begin(d, op)
    BY <1>1
  <2>1. CASE d = c
    BY <2>1, CleanBegins
  <2>2. CASE d # c
    <3>1. call'[c] = IF Busy = {} THEN call[c] ELSE Spoil(call)[c]
      BY <1>0, <2>2 DEF Begin
    <3>2. Busy = {} /\ call'[c] = call[c]
      BY <3>1, SpoiltIsNotClean DEF Clean
    <3> QED
      BY <3>2 DEF Busy, Clean
  <2> QED
    BY <2>1, <2>2
<1>2. CASE \E d \in Callers : CallSteps(d)
  <2> PICK d \in Callers : CallSteps(d)
    BY <1>2
  <2>0. call[d].at # "idle"
    BY DEF CallSteps, Returns, WaitsForOpen, StartsOpen, PortOpens, PortRefuses, Files, Queues,
           QueueFindsDead, WaitSucceeds, WaitSleeps, WaitFails, RemoveIfCurrent, Removes,
           MarksClosing, Detaches, DropSleeps
  <2>1. CASE d # c
    <3>1. Alike(call[c], call'[c]) /\ call[c].clean
      BY <1>0, <2>1, OthersAlike, OthersFade DEF Clean
    <3>2. Clean(c)
      BY <3>1 DEF Alike, Clean
    <3> QED
      BY <2>0, <2>1, <3>2 DEF CleanRuns, Alone
  <2>2. CASE d = c
    <3>1. Clean(c)
      <4>1. CASE Returns(c)
        BY <4>1, ReturnsMoves DEF Idle, Clean
      <4>2. CASE ~Returns(c)
        BY <1>0, <2>0, <2>2, <4>2, OwnRemembers DEF Remembers, Clean
      <4> QED
        BY <4>1, <4>2
    <3>2. Alone(c) /\ WayIsClear(c) /\ Tries(call[c])
      BY <3>1 DEF CleanRuns
    <3>3. Alone(c)'
      <4>1. \A e \in Callers \ {c} : Alike(call[e], call'[e])
        BY <1>0, <2>2, OthersAlike
      <4> QED
        BY <3>2, <4>1 DEF Alone, Alike
    <3>4. WayIsClear(c)' /\ Tries(call[c])'
      BY <2>2, <3>1, <3>2, CleanOpens, CleanWaits, CleanDrops DEF CallSteps
    <3> QED
      BY <3>3, <3>4
  <2> QED
    BY <2>1, <2>2
<1>3. CASE \E s \in Sessions : WriterSteps(s) \/ GetsStuck(s)
  <2> PICK s \in Sessions : WriterSteps(s) \/ GetsStuck(s)
    BY <1>3
  <2>1. WriterSteps(s) /\ call' = call
    BY <1>s DEF WriterSteps, WriterSleeps, WriterTakes, WriteEnds, Publishes, WriterLeaves, ClosesPort,
           HasLeft, GetsStuck
  <2>2. Clean(c) /\ Alone(c) /\ Alone(c)'
    BY <2>1 DEF Clean, CleanRuns, Alone
  <2> QED
    BY <2>1, <2>2, CleanWriters DEF CleanRuns
<1>4. CASE Replug \/ UNCHANGED vars
  <2>1. UNCHANGED vars
    BY <1>4, <1>s DEF Replug
  <2> QED
    BY <2>1 DEF vars, table, port, CleanRuns, Clean, Alone, WayIsClear, Tries, Healthy, Current
<1> QED
  BY <1>1, <1>2, <1>3, <1>4, NextCases

\* A paint that answers ok was written, itself or a newer one in its place; and one that
\* nothing disturbed since it began answers ok (SolidUsbOutput::send tries once more).
THEOREM PaintsTellTheTruth == Spec => []PaintTellsTheTruth
<1> DEFINE I == Sound /\ CleanRuns
<1>1. Init => I
  <2> SUFFICES ASSUME Init PROVE I
    OBVIOUS
  <2>1. /\ live = NoSession /\ opening = FALSE /\ dropped = FALSE
        /\ \A s \in Sessions : slot[s] = NewSlot /\ writer[s] = NoWriter
        /\ \A c \in Callers : call[c] = Idle
    BY DEF Init
  <2>2. NewestIsUnused /\ EndsHaveReasons
    BY <2>1 DEF NewestIsUnused, EndsHaveReasons, Past, Unused, NoWriter, Opens, Idle
  <2>3. OpenersKnown /\ LiveIsKept /\ CleanRuns
    BY <2>1 DEF OpenersKnown, LiveIsKept, CleanRuns, Clean, Idle
  <2> QED
    BY <2>2, <2>3 DEF Sound
<1>2. /\ (TypeOK /\ Control) /\ (TypeOK /\ Control)' /\ I /\ [Next]_vars => I'
  BY OpenersKnownKept, NewestIsUnusedKept, LiveIsKeptKept, EndsHaveReasonsKept, CleanRunsKept
     DEF Control, Sound
<1>3. I => CleanIsOk
  BY DEF CleanRuns, Clean, Painted, Tries, CleanIsOk
<1> QED
  BY <1>1, <1>2, <1>3, OkPaintsAreWritten, TypesHold, PTL DEF Spec, PaintTellsTheTruth

=====================================================================================
