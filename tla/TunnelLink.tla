----------------------------- MODULE TunnelLink -----------------------------
(***************************************************************************)
(* CDTunnelConnection.swift: the encrypted link that carries packets.      *)
(*                                                                         *)
(* Any thread may call send and cancel; send reserves room under a lock    *)
(* before its work is put on the link's serial queue.  Everything else     *)
(* happens on that queue: the blocks put there, the callbacks of the       *)
(* NWConnection (external), which come in any order and may be late, and   *)
(* two timers.  A timer whose time is over is due; its handler may run     *)
(* after the timer was cancelled or armed anew, and is then stale: the     *)
(* generation it was armed with is no longer the current one.              *)
(***************************************************************************)
EXTENDS Naturals, Sequences, FiniteSets, Functions

CONSTANTS
    Packets,                  \* packets the callers will send
    Size,                     \* Size[p]: bytes of packet p
    MaxPacket,                \* the longest packet send looks at
    MaxAdmittedBytes, MaxAdmittedCount,
    MaxStarts                 \* bound: calls of start

ASSUME LinkAssumption ==
    /\ IsFiniteSet(Packets) /\ Size \in [Packets -> Nat \ {0}]
    /\ {MaxPacket, MaxAdmittedBytes, MaxAdmittedCount, MaxStarts} \subseteq Nat

VARIABLES
    link,                     \* started, closed, timedOut, configured, partial, ready
    reading,                  \* the NWConnection's part of the read loop
    queue,                    \* blocks put on the serial queue
    call,                     \* call[p]: how far the sending of p has come
    completions,              \* completions[p]: how often its completion ran
    writes,                   \* packets handed to the NWConnection
    sending,                  \* packets whose contentProcessed has yet to come
    admitted,                 \* [bytes, count]
    readTimer, writeTimer,
    calls                     \* calls of start and cancel, and of start's onClose

vars == <<link, reading, queue, call, completions, writes, sending, admitted,
          readTimer, writeTimer, calls>>
sendVars == <<call, completions, writes, admitted>>
timerVars == <<readTimer, writeTimer>>

-----------------------------------------------------------------------------
(* Timers.                                                                 *)

Off == [armed |-> FALSE, due |-> {}]
Aged(timer) == IF timer.due = {} THEN {} ELSE {"stale"}
Arm(timer) == [armed |-> TRUE, due |-> Aged(timer)]
Disarm(timer) == [armed |-> FALSE, due |-> Aged(timer)]

-----------------------------------------------------------------------------
(* Sending, on the callers' threads.                                       *)

Room(p) ==
    /\ Size[p] <= MaxPacket
    /\ admitted.bytes + Size[p] <= MaxAdmittedBytes
    /\ admitted.count < MaxAdmittedCount
Occupied(p) == [bytes |-> admitted.bytes + Size[p], count |-> admitted.count + 1]

\* Under the lock room is reserved, or the packet refused; one that is too long
\* is refused without a look at the room.
Admit(p) ==
    /\ call[p] = "idle"
    /\ call' = [call EXCEPT ![p] = IF Room(p) THEN "admitted" ELSE "refused"]
    /\ admitted' = IF Room(p) THEN Occupied(p) ELSE admitted
    /\ UNCHANGED <<link, reading, queue, completions, writes, sending, timerVars, calls>>

\* Then the work is put on the queue.
Dispatch(p) ==
    /\ call[p] \in {"admitted", "refused"}
    /\ queue' = Append(queue, [do |-> call[p], p |-> p])
    /\ call' = [call EXCEPT ![p] = "queued"]
    /\ UNCHANGED <<link, reading, completions, writes, sending, admitted, timerVars, calls>>

CallStart ==
    /\ queue' = Append(queue, [do |-> "start"])
    /\ calls.start < MaxStarts /\ calls' = [calls EXCEPT !.start = @ + 1]
    /\ UNCHANGED <<link, reading, sendVars, sending, timerVars>>
CallCancel ==
    /\ queue' = Append(queue, [do |-> "cancel"])
    /\ ~calls.cancel /\ calls' = [calls EXCEPT !.cancel = TRUE]
    /\ UNCHANGED <<link, reading, sendVars, sending, timerVars>>

-----------------------------------------------------------------------------
(* On the queue.                                                           *)

\* The packets of P are completed and give back their room.
Released(P) ==
    [bytes |-> admitted.bytes - SumFunctionOnSet(Size, P),
     count |-> admitted.count - Cardinality(P)]
Complete(P) ==
    /\ call' = [p \in Packets |-> IF p \in P THEN "done" ELSE call[p]]
    /\ completions' = [p \in Packets |-> IF p \in P THEN completions[p] + 1 ELSE completions[p]]

\* Wrong form of Stop: the writes it completes keep their room.
StopKeepsRoom(last) ==
    IF link.closed THEN UNCHANGED <<link, reading, timerVars, sendVars, calls>>
    ELSE /\ link' = [last EXCEPT !.closed = TRUE]
         /\ reading' = "none"
         /\ readTimer' = Disarm(readTimer) /\ writeTimer' = Disarm(writeTimer)
         /\ Complete(writes) /\ admitted' = admitted /\ writes' = {}
         /\ calls' = [calls EXCEPT !.closed = @ + (IF link.started THEN 1 ELSE 0)]

\* stop: every write is completed with the error, then onClose is called.  The
\* link closes as what it was last.
Stop(last) ==
    IF link.closed THEN UNCHANGED <<link, reading, timerVars, sendVars, calls>>
    ELSE /\ link' = [last EXCEPT !.closed = TRUE]
         /\ reading' = "none"
         /\ readTimer' = Disarm(readTimer) /\ writeTimer' = Disarm(writeTimer)
         /\ Complete(writes) /\ admitted' = Released(writes) /\ writes' = {}
         /\ calls' = [calls EXCEPT !.closed = @ + (IF link.started THEN 1 ELSE 0)]

TakeBlock(do) == queue # <<>> /\ Head(queue).do = do /\ queue' = Tail(queue)

RunStart ==
    /\ TakeBlock("start")
    /\ IF link.started \/ link.closed
       THEN calls' = [calls EXCEPT !.refused = @ + 1] /\ UNCHANGED <<link, reading, readTimer>>
       ELSE /\ link' = [link EXCEPT !.started = TRUE]
            /\ reading' = "connecting"
            /\ readTimer' = Arm(readTimer)
            /\ UNCHANGED calls
    /\ UNCHANGED <<sendVars, sending, writeTimer>>
RunCancel == TakeBlock("cancel") /\ Stop(link) /\ UNCHANGED sending

\* Wrong form of RunWrite: only a later completion arms the timer.
RunWriteUnwatched ==
    /\ TakeBlock("admitted") /\ ~link.closed /\ link.configured
    /\ LET p == Head(queue).p
       IN  /\ call' = [call EXCEPT ![p] = "writing"]
           /\ writes' = writes \cup {p} /\ sending' = sending \cup {p}
    /\ writeTimer' = writeTimer
    /\ UNCHANGED <<link, reading, completions, admitted, readTimer, calls>>

\* The packet is turned away, for its size or lack of room, for want of a
\* configured link or for what it holds; or it is written.
RunRefused ==
    /\ TakeBlock("refused")
    /\ Complete({Head(queue).p})
    /\ UNCHANGED <<link, reading, writes, sending, admitted, timerVars, calls>>
RunTurnedAway ==
    /\ TakeBlock("admitted")
    /\ Complete({Head(queue).p})
    /\ admitted' = Released({Head(queue).p})
    /\ UNCHANGED <<link, reading, writes, sending, timerVars, calls>>
RunWrite ==
    /\ TakeBlock("admitted") /\ ~link.closed /\ link.configured
    /\ LET p == Head(queue).p
       IN  /\ call' = [call EXCEPT ![p] = "writing"]
           /\ writes' = writes \cup {p} /\ sending' = sending \cup {p}
    /\ writeTimer' = IF writes = {} THEN Arm(writeTimer) ELSE writeTimer
    /\ UNCHANGED <<link, reading, completions, admitted, readTimer, calls>>

\* Wrong form of ContentProcessed: a write that stop completed is completed again.
ContentProcessedLate(p, failed) ==
    /\ p \in sending
    /\ sending' = sending \ {p}
    /\ \/ failed /\ p \in writes /\ Stop(link)
       \/ /\ ~failed
          /\ Complete({p}) /\ admitted' = Released(writes \cap {p})
          /\ writes' = writes \ {p}
          /\ writeTimer' = IF writes \ {p} = {} THEN Disarm(writeTimer) ELSE Arm(writeTimer)
          /\ UNCHANGED <<link, reading, readTimer, calls>>
    /\ UNCHANGED queue

\* The NWConnection has taken the packet, or failed to; after stop it is too late.
ContentProcessed(p, failed) ==
    /\ p \in sending
    /\ sending' = sending \ {p}
    /\ \/ p \notin writes /\ UNCHANGED <<link, reading, sendVars, timerVars, calls>>
       \/ p \in writes /\ failed /\ Stop(link)
       \/ /\ p \in writes /\ ~failed
          /\ Complete({p}) /\ admitted' = Released({p}) /\ writes' = writes \ {p}
          /\ writeTimer' = IF writes \ {p} = {} THEN Disarm(writeTimer) ELSE Arm(writeTimer)
          /\ UNCHANGED <<link, reading, readTimer, calls>>
    /\ UNCHANGED queue

\* The connection comes up and the handshake is sent.
ConnectionReady ==
    /\ reading = "connecting"
    /\ reading' = "handshake"
    /\ UNCHANGED <<link, queue, sendVars, sending, timerVars, calls>>
HandshakeSent ==
    /\ reading = "handshake"
    /\ reading' = "receiving"
    /\ UNCHANGED <<link, queue, sendVars, sending, timerVars, calls>>

\* It fails, is not as secure as required, or sends what cannot be decoded.
ConnectionFails == reading # "none" /\ Stop(link) /\ UNCHANGED <<queue, sending>>

\* The read timer after a read: progress clears it, the start of a packet arms it.
ReadTimerAfter(progress, partial) ==
    LET cleared == IF progress THEN Disarm(readTimer) ELSE readTimer
    IN  IF ~partial THEN Disarm(cleared)
        ELSE IF cleared.armed THEN cleared ELSE Arm(cleared)

\* Bytes arrive: the configuration, packets for us, part of a packet.  Packets
\* for others are dropped and count for nothing.
Consumed(configures, partial) ==
    [link EXCEPT !.configured = @ \/ configures, !.partial = partial,
                 !.ready = @ + (IF configures THEN 1 ELSE 0)]
Consumable(configures, packets, partial) ==
    /\ reading = "receiving"
    /\ configures => ~link.configured
    /\ packets \/ partial => link.configured \/ configures
Received(configures, packets, partial) ==
    /\ Consumable(configures, packets, partial)
    /\ link' = Consumed(configures, partial)
    /\ readTimer' = IF link'.configured THEN ReadTimerAfter(configures \/ packets, partial)
                    ELSE readTimer
    /\ UNCHANGED <<reading, queue, sendVars, sending, writeTimer, calls>>

\* The last bytes: what they complete is delivered, then the link stops.
ReceivedLast(configures, packets, partial) ==
    /\ Consumable(configures, packets, partial)
    /\ Stop(Consumed(configures, partial))
    /\ UNCHANGED <<queue, sending>>

\* The time is over: the handler is due, and later runs.
Expired(timer) == [timer EXCEPT !.due = @ \cup {"current"}]
ReadTimeOver ==
    /\ readTimer.armed /\ "current" \notin readTimer.due
    /\ readTimer' = Expired(readTimer)
    /\ UNCHANGED <<link, reading, queue, sendVars, sending, writeTimer, calls>>
WriteTimeOver ==
    /\ writeTimer.armed /\ "current" \notin writeTimer.due
    /\ writeTimer' = Expired(writeTimer)
    /\ UNCHANGED <<link, reading, queue, sendVars, sending, readTimer, calls>>

\* Wrong form of TimerRuns: the generation is not compared.
TimerRunsAnyway ==
    /\ readTimer.due \cup writeTimer.due # {}
    /\ Stop([link EXCEPT !.timedOut = TRUE])
    /\ UNCHANGED <<queue, sending>>

\* A handler of the current generation stops the link; a stale one does nothing.
TimerRuns ==
    /\ "current" \in readTimer.due \cup writeTimer.due
    /\ Stop([link EXCEPT !.timedOut = TRUE])
    /\ UNCHANGED <<queue, sending>>

-----------------------------------------------------------------------------
Init ==
    /\ link = [started |-> FALSE, closed |-> FALSE, timedOut |-> FALSE,
               configured |-> FALSE, partial |-> FALSE, ready |-> 0]
    /\ reading = "none" /\ queue = <<>>
    /\ call = [p \in Packets |-> "idle"] /\ completions = [p \in Packets |-> 0]
    /\ writes = {} /\ sending = {} /\ admitted = [bytes |-> 0, count |-> 0]
    /\ readTimer = Off /\ writeTimer = Off
    /\ calls = [start |-> 0, refused |-> 0, cancel |-> FALSE, closed |-> 0]

Callers == CallStart \/ CallCancel \/ \E p \in Packets : Admit(p) \/ Dispatch(p)
Run == RunStart \/ RunCancel \/ RunRefused \/ RunTurnedAway \/ RunWrite
Timers == ReadTimeOver \/ WriteTimeOver \/ TimerRuns
Connection ==
    \/ ConnectionReady \/ HandshakeSent \/ ConnectionFails
    \/ \E configures, packets, partial \in BOOLEAN :
           \/ Received(configures, packets, partial)
           \/ ReceivedLast(configures, packets, partial)
    \/ \E p \in Packets, failed \in BOOLEAN : ContentProcessed(p, failed)

Next == Callers \/ Run \/ Timers \/ Connection

Spec == Init /\ [][Next]_vars

\* The callers' threads and the queue run, and time passes; the network and the
\* other side owe nothing.
FairSpec ==
    /\ Spec
    /\ \A p \in Packets : WF_vars(Dispatch(p))
    /\ WF_vars(Run) /\ WF_vars(ReadTimeOver) /\ WF_vars(WriteTimeOver) /\ WF_vars(TimerRuns)

-----------------------------------------------------------------------------
(* Properties.                                                             *)

\* The room taken under the lock is that of the packets still on their way:
\* none is given back twice or kept, whichever of completion, refusal and stop
\* comes first.
AdmissionIsExact ==
    LET inside == {p \in Packets : \/ call[p] \in {"admitted", "writing"}
                                   \/ \E i \in DOMAIN queue : queue[i] = [do |-> "admitted", p |-> p]}
    IN  /\ admitted.count = Cardinality(inside) /\ admitted.count <= MaxAdmittedCount
        /\ admitted.bytes = SumFunctionOnSet(Size, inside) /\ admitted.bytes <= MaxAdmittedBytes

\* No completion and no onClose or onReady runs twice, also when stop and the
\* NWConnection both report the same write.
ReportedOnce ==
    /\ \A p \in Packets : completions[p] <= 1
    /\ link.ready <= 1 /\ calls.closed + calls.refused <= calls.start
    /\ link.closed => calls.closed = (IF link.started THEN 1 ELSE 0)

\* A write is watched by the timer exactly while one is under way.
WritesAreWatched == ~link.closed => (writeTimer.armed <=> writes # {})

\* The handshake and every packet that has begun are watched, and nothing else.
ReadsAreWatched ==
    link.started /\ ~link.closed => (readTimer.armed <=> ~link.configured \/ link.partial)

\* The link times out only while something is awaited, never through a timer
\* that was cancelled or armed anew.
TimeoutsAreReal ==
    [][link'.timedOut /\ ~link.timedOut =>
          ~link.configured \/ link.partial \/ writes # {}]_vars

\* The timers run exactly while something is awaited, and only then may one of
\* them close the link.
TimersAreTrue == [](WritesAreWatched /\ ReadsAreWatched) /\ TimeoutsAreReal

\* Every send is answered, even if the other side stops reading.
SendsConclude == \A p \in Packets : call[p] # "idle" ~> completions[p] = 1
=============================================================================
