-------------------------- MODULE TunnelLinkProofs --------------------------
(* Proofs about TunnelLink, for any packets, sizes and limits and any number  *)
(* of calls.                                                                 *)
EXTENDS TunnelLink, DataLemmas, SequenceTheorems, TLAPS

Blocks == [do : {"start", "cancel"}] \cup [do : {"admitted", "refused"}, p : Packets]
Links == [started : BOOLEAN, closed : BOOLEAN, timedOut : BOOLEAN,
          configured : BOOLEAN, partial : BOOLEAN, ready : Nat]
Calls == [start : Nat, refused : Nat, cancel : BOOLEAN, closed : Nat]
Timer == [armed : BOOLEAN, due : SUBSET {"current", "stale"}]

\* The types of the link's state.
LinkTypes ==
    /\ link \in Links
    /\ reading \in {"none", "connecting", "handshake", "receiving"}
    /\ queue \in Seq(Blocks)
    /\ call \in [Packets -> {"idle", "admitted", "refused", "queued", "writing", "done"}]
    /\ completions \in [Packets -> Nat]
    /\ writes \subseteq Packets /\ sending \subseteq Packets
    /\ admitted \in [bytes : Int, count : Int]
    /\ readTimer \in Timer /\ writeTimer \in Timer
    /\ calls \in Calls

\* A packet has one block on the queue at most, and only between the call of send
\* that put it there and the run that takes it off.
IsPacketBlock(b) == b.do \in {"admitted", "refused"}
QueueIsTrue ==
    /\ \A i \in DOMAIN queue : IsPacketBlock(queue[i]) => call[queue[i].p] = "queued"
    /\ \A i, j \in DOMAIN queue :
          IsPacketBlock(queue[i]) /\ IsPacketBlock(queue[j]) /\ queue[i].p = queue[j].p => i = j

\* What the NWConnection was handed is what the callers wait for; a link that is
\* closed waits for nothing.
WritesAreCalls ==
    /\ writes = {p \in Packets : call[p] = "writing"}
    /\ link.closed => writes = {}
    /\ \A p \in Packets : completions[p] = IF call[p] = "done" THEN 1 ELSE 0

\* The calls of start: still on the queue, refused, or the one that started.
Starts(q) == {i \in DOMAIN q : q[i].do = "start"}
StartsAreCounted ==
    /\ calls.start = Cardinality(Starts(queue)) + calls.refused + (IF link.started THEN 1 ELSE 0)
    /\ calls.closed = IF link.closed /\ link.started THEN 1 ELSE 0
    /\ link.ready = IF link.configured THEN 1 ELSE 0

\* The stage of the connection, and what the timers are armed for.
TimersAreSound ==
    /\ reading # "none" => link.started /\ ~link.closed
    /\ ~link.started => ~link.configured /\ ~readTimer.armed
    /\ link.partial => link.configured
    /\ "current" \in readTimer.due => readTimer.armed
    /\ "current" \in writeTimer.due => writeTimer.armed
    /\ WritesAreWatched /\ ReadsAreWatched

LinkInv ==
    LinkTypes /\ QueueIsTrue /\ WritesAreCalls /\ StartsAreCounted /\ TimersAreSound

-----------------------------------------------------------------------------
(* Types.                                                                    *)

LEMMA TimerTypes ==
    ASSUME NEW t \in Timer
    PROVE  Arm(t) \in Timer /\ Disarm(t) \in Timer /\ Expired(t) \in Timer
BY DEF Timer, Arm, Disarm, Aged, Expired

LEMMA LinkRecords ==
    ASSUME NEW l \in Links
    PROVE  /\ l.ready \in Nat /\ [l EXCEPT !.started = TRUE] \in Links
           /\ [l EXCEPT !.closed = TRUE] \in Links /\ [l EXCEPT !.timedOut = TRUE] \in Links
           /\ \A b, d \in BOOLEAN, n \in Nat :
                 [l EXCEPT !.configured = b, !.partial = d, !.ready = n] \in Links
BY DEF Links

LEMMA CallRecords ==
    ASSUME NEW k \in Calls
    PROVE  /\ k.start \in Nat /\ k.refused \in Nat /\ k.closed \in Nat
           /\ [k EXCEPT !.cancel = TRUE] \in Calls
           /\ \A n \in Nat : /\ [k EXCEPT !.start = n] \in Calls
                             /\ [k EXCEPT !.refused = n] \in Calls
                             /\ [k EXCEPT !.closed = n] \in Calls
BY DEF Calls

LEMMA BlockTypes ==
    ASSUME LinkTypes, NEW do, TakeBlock(do)
    PROVE  /\ queue' \in Seq(Blocks) /\ Head(queue) \in Blocks
           /\ do \in {"admitted", "refused"} => Head(queue).p \in Packets
<1>1. Head(queue) \in Blocks /\ Tail(queue) \in Seq(Blocks)
  BY HeadTailProperties DEF LinkTypes, TakeBlock
<1> QED
  BY <1>1 DEF TakeBlock, Blocks

LEMMA SumIsNat ==
    ASSUME NEW P \in SUBSET Packets
    PROVE  /\ IsFiniteSet(P) /\ Cardinality(P) \in Nat
           /\ SumFunctionOnSet(Size, P) \in Nat
           /\ \A p \in P : Size[p] \in Nat
<1>1. IsFiniteSet(P)
  BY LinkAssumption, FS_Subset
<1>2. \A p \in P : Size[p] \in Nat
  BY LinkAssumption
<1>3. SumFunctionOnSet(Size, P) \in Nat
  BY <1>1, <1>2, SumType
<1> QED
  BY <1>1, <1>2, <1>3, FS_CardinalityType

LEMMA CompleteTypes ==
    ASSUME LinkTypes, NEW P \in SUBSET Packets
    PROVE  /\ Complete(P) => /\ call' \in [Packets -> {"idle", "admitted", "refused", "queued",
                                                       "writing", "done"}]
                             /\ completions' \in [Packets -> Nat]
           /\ Released(P) \in [bytes : Int, count : Int]
<1>1. SumFunctionOnSet(Size, P) \in Nat /\ Cardinality(P) \in Nat
  BY SumIsNat
<1>2. Released(P) \in [bytes : Int, count : Int]
  BY <1>1 DEF LinkTypes, Released
<1> QED
  BY <1>2 DEF LinkTypes, Complete

LEMMA StopTypes ==
    ASSUME LinkTypes, NEW last \in Links, Stop(last),
           sending' \subseteq Packets, queue' \in Seq(Blocks)
    PROVE  LinkTypes'
<1>1. CASE link.closed
  BY <1>1 DEF LinkTypes, Stop, timerVars, sendVars
<1>2. CASE ~link.closed
  <2>1. link' \in Links
    BY <1>2, LinkRecords DEF Stop
  <2>2. readTimer' \in Timer /\ writeTimer' \in Timer
    BY <1>2, TimerTypes DEF LinkTypes, Stop
  <2>3. calls' \in Calls
    <3>1. calls.closed + (IF link.started THEN 1 ELSE 0) \in Nat
      BY DEF LinkTypes, Links, Calls
    <3> QED
      <4> DEFINE n == calls.closed + (IF link.started THEN 1 ELSE 0)
      <4>1. calls' = [calls EXCEPT !.closed = n]
        BY <1>2 DEF Stop
      <4> HIDE DEF n
      <4> QED
        BY <3>1, <4>1, CallRecords DEF LinkTypes, n
  <2> QED
    BY <1>2, <2>1, <2>2, <2>3, CompleteTypes DEF LinkTypes, Stop
<1> QED
  BY <1>1, <1>2

\* Every step keeps the types.
LEMMA TypeStep == LinkTypes /\ [Next]_vars => LinkTypes'
<1> SUFFICES ASSUME LinkTypes, [Next]_vars PROVE LinkTypes'
  OBVIOUS
<1> USE LinkAssumption DEF sendVars, timerVars
<1>1. CASE CallStart
  <2>1. queue' \in Seq(Blocks)
    BY <1>1, AppendProperties DEF LinkTypes, CallStart, Blocks
  <2>2. calls' \in Calls
    <3>1. calls.start + 1 \in Nat
      BY DEF LinkTypes, Links, Calls
    <3> QED
      BY <1>1, <3>1, CallRecords DEF LinkTypes, CallStart
  <2> QED
    BY <1>1, <2>1, <2>2 DEF LinkTypes, CallStart
<1>2. CASE CallCancel
  <2>1. queue' \in Seq(Blocks)
    BY <1>2, AppendProperties DEF LinkTypes, CallCancel, Blocks
  <2> QED
    BY <1>2, <2>1, CallRecords DEF LinkTypes, CallCancel
<1>3. ASSUME NEW p \in Packets, Admit(p) PROVE LinkTypes'
  <2>1. Occupied(p) \in [bytes : Int, count : Int]
    BY DEF LinkTypes, Occupied
  <2> QED
    BY <1>3, <2>1 DEF LinkTypes, Admit
<1>4. ASSUME NEW p \in Packets, Dispatch(p) PROVE LinkTypes'
  <2>1. [do |-> call[p], p |-> p] \in Blocks
    BY <1>4 DEF Dispatch, Blocks
  <2>2. queue' \in Seq(Blocks)
    BY <1>4, <2>1, AppendProperties DEF LinkTypes, Dispatch
  <2> QED
    BY <1>4, <2>2 DEF LinkTypes, Dispatch
<1>5. CASE RunStart
  <2>1. queue' \in Seq(Blocks)
    BY <1>5, BlockTypes DEF RunStart
  <2>2. link' \in Links /\ calls' \in Calls
    <3>1. calls.refused + 1 \in Nat
      BY DEF LinkTypes, Links, Calls
    <3> QED
      BY <1>5, <3>1, LinkRecords, CallRecords, ZenonT(40) DEF LinkTypes, RunStart
  <2> QED
    BY <1>5, <2>1, <2>2, TimerTypes DEF LinkTypes, RunStart
<1>6. CASE RunCancel
  <2>1. queue' \in Seq(Blocks) /\ link \in Links
    BY <1>6, BlockTypes DEF RunCancel, LinkTypes
  <2> QED
    BY <1>6, <2>1, StopTypes DEF LinkTypes, RunCancel
<1>7. CASE RunRefused
  <2>1. queue' \in Seq(Blocks) /\ {Head(queue).p} \in SUBSET Packets
    BY <1>7, BlockTypes DEF RunRefused
  <2> QED
    BY <1>7, <2>1, CompleteTypes DEF LinkTypes, RunRefused
<1>8. CASE RunTurnedAway
  <2>1. queue' \in Seq(Blocks) /\ {Head(queue).p} \in SUBSET Packets
    BY <1>8, BlockTypes DEF RunTurnedAway
  <2> QED
    BY <1>8, <2>1, CompleteTypes DEF LinkTypes, RunTurnedAway
<1>9. CASE RunWrite
  <2>1. queue' \in Seq(Blocks) /\ Head(queue).p \in Packets
    BY <1>9, BlockTypes DEF RunWrite
  <2>2. writeTimer' \in Timer
    BY <1>9, TimerTypes DEF LinkTypes, RunWrite
  <2> QED
    BY <1>9, <2>1, <2>2 DEF LinkTypes, RunWrite
<1>10. CASE ReadTimeOver
  BY <1>10, TimerTypes DEF LinkTypes, ReadTimeOver
<1>11. CASE WriteTimeOver
  BY <1>11, TimerTypes DEF LinkTypes, WriteTimeOver
<1>12. CASE TimerRuns
  <2>1. [link EXCEPT !.timedOut = TRUE] \in Links
    BY LinkRecords DEF LinkTypes
  <2> QED
    BY <1>12, <2>1, StopTypes DEF LinkTypes, TimerRuns
<1>13. CASE ConnectionReady
  BY <1>13 DEF LinkTypes, ConnectionReady
<1>14. CASE HandshakeSent
  BY <1>14 DEF LinkTypes, HandshakeSent
<1>15. CASE ConnectionFails
  BY <1>15, StopTypes DEF LinkTypes, ConnectionFails
<1>16. ASSUME NEW configures \in BOOLEAN, NEW packets \in BOOLEAN, NEW partial \in BOOLEAN,
              Received(configures, packets, partial) \/ ReceivedLast(configures, packets, partial)
       PROVE  LinkTypes'
  <2>1. Consumed(configures, partial) \in Links
    <3>1. link.ready + (IF configures THEN 1 ELSE 0) \in Nat
      BY DEF LinkTypes, Links, Calls
    <3>2. (link.configured \/ configures) \in BOOLEAN
      OBVIOUS
    <3> QED
      BY <3>1, <3>2, LinkRecords DEF LinkTypes, Consumed
  <2>2. CASE ReceivedLast(configures, packets, partial)
    BY <2>1, <2>2, StopTypes DEF LinkTypes, ReceivedLast
  <2>3. CASE Received(configures, packets, partial)
    <3>1. readTimer' \in Timer
      BY <2>3, TimerTypes DEF LinkTypes, Received, ReadTimerAfter
    <3> QED
      BY <2>1, <2>3, <3>1 DEF LinkTypes, Received
  <2> QED
    BY <1>16, <2>2, <2>3
<1>17. ASSUME NEW p \in Packets, NEW failed \in BOOLEAN, ContentProcessed(p, failed)
       PROVE  LinkTypes'
  <2>1. CASE p \notin writes /\ UNCHANGED <<link, reading, sendVars, timerVars, calls>>
    BY <1>17, <2>1 DEF LinkTypes, ContentProcessed
  <2>2. CASE p \in writes /\ failed /\ Stop(link)
    BY <1>17, <2>2, StopTypes DEF LinkTypes, ContentProcessed
  <2>3. CASE /\ p \in writes /\ ~failed
             /\ Complete({p}) /\ admitted' = Released({p}) /\ writes' = writes \ {p}
             /\ writeTimer' = IF writes \ {p} = {} THEN Disarm(writeTimer) ELSE Arm(writeTimer)
             /\ UNCHANGED <<link, reading, readTimer, calls>>
    <3>1. writeTimer' \in Timer
      BY <2>3, TimerTypes DEF LinkTypes
    <3>2. {p} \in SUBSET Packets
      OBVIOUS
    <3> QED
      BY <1>17, <2>3, <3>1, <3>2, CompleteTypes DEF LinkTypes, ContentProcessed
  <2> QED
    BY <1>17, <2>1, <2>2, <2>3 DEF ContentProcessed
<1>18. CASE UNCHANGED vars
  BY <1>18 DEF LinkTypes, vars
<1> QED
  BY <1>1, <1>2, <1>3, <1>4, <1>5, <1>6, <1>7, <1>8, <1>9, <1>10, <1>11, <1>12, <1>13,
     <1>14, <1>15, <1>16, <1>17, <1>18 DEF Next, Callers, Run, Timers, Connection
-----------------------------------------------------------------------------
(* The queue: a block is added at its end or taken from its head.            *)

\* The packets with room that wait on queue q.
Waiting(q) == {p \in Packets : \E i \in DOMAIN q : q[i] = [do |-> "admitted", p |-> p]}

LEMMA BlockOf ==
    ASSUME NEW b \in Blocks
    PROVE  /\ b.do \in {"start", "cancel", "admitted", "refused"}
           /\ IsPacketBlock(b) => b.p \in Packets
           /\ \A p \in Packets : b = [do |-> "admitted", p |-> p] <=> b.do = "admitted" /\ b.p = p
BY DEF Blocks, IsPacketBlock

LEMMA QueueTaken ==
    ASSUME LinkTypes, NEW do, TakeBlock(do)
    PROVE  /\ 1 \in DOMAIN queue /\ Head(queue) = queue[1] /\ queue[1] \in Blocks
           /\ Len(queue) \in Nat \ {0} /\ Len(queue') = Len(queue) - 1
           /\ DOMAIN queue = 1 .. Len(queue) /\ DOMAIN queue' = 1 .. Len(queue')
           /\ \A i \in DOMAIN queue' : i + 1 \in DOMAIN queue /\ queue'[i] = queue[i + 1]
           /\ \A i \in DOMAIN queue \ {1} : i - 1 \in DOMAIN queue' /\ queue'[i - 1] = queue[i]
<1>1. queue \in Seq(Blocks) /\ queue # <<>> /\ queue' = Tail(queue)
  BY DEF LinkTypes, TakeBlock
<1>2. Len(queue) \in Nat \ {0} /\ DOMAIN queue = 1 .. Len(queue)
  BY <1>1, EmptySeq, LenProperties
<1>3. Tail(queue) \in Seq(Blocks) /\ Len(Tail(queue)) = Len(queue) - 1
  BY <1>1, HeadTailProperties
<1>4. DOMAIN Tail(queue) = 1 .. Len(Tail(queue))
  BY <1>3, LenProperties
<1>5. Head(queue) = queue[1] /\ queue[1] \in Blocks
  BY <1>1, <1>2, ElementOfSeq
<1>6. \A i \in 1 .. Len(Tail(queue)) : Tail(queue)[i] = queue[i + 1]
  BY <1>1, HeadTailProperties
<1> QED
  BY <1>1, <1>2, <1>3, <1>4, <1>5, <1>6

LEMMA QueueExtended ==
    ASSUME LinkTypes, NEW b \in Blocks, queue' = Append(queue, b)
    PROVE  /\ Len(queue) \in Nat
           /\ DOMAIN queue = 1 .. Len(queue) /\ DOMAIN queue' = 1 .. Len(queue) + 1
           /\ \A i \in DOMAIN queue : queue'[i] = queue[i]
           /\ queue'[Len(queue) + 1] = b
<1>1. queue \in Seq(Blocks)
  BY DEF LinkTypes
<1>2. queue' \in Seq(Blocks) /\ Len(queue') = Len(queue) + 1
  BY <1>1, AppendProperties
<1> QED
  BY <1>1, <1>2, LenProperties, AppendProperties

LEMMA ElementTypes == ASSUME LinkTypes PROVE \A i \in DOMAIN queue : queue[i] \in Blocks
BY LenProperties DEF LinkTypes

LEMMA QueueKeeps ==
    ASSUME LinkTypes, QueueIsTrue, UNCHANGED queue,
           \A p \in Packets : call[p] = "queued" => call'[p] = "queued"
    PROVE  QueueIsTrue'
BY ElementTypes, BlockOf DEF QueueIsTrue

LEMMA QueueGrows ==
    ASSUME LinkTypes, QueueIsTrue, NEW b \in Blocks, queue' = Append(queue, b),
           \A p \in Packets : call[p] = "queued" => call'[p] = "queued",
           IsPacketBlock(b) => call[b.p] # "queued" /\ call'[b.p] = "queued"
    PROVE  QueueIsTrue'
<1> USE ElementTypes, BlockOf, QueueExtended
<1>1. ASSUME NEW i \in DOMAIN queue', IsPacketBlock(queue'[i]) PROVE call'[queue'[i].p] = "queued"
  BY <1>1 DEF QueueIsTrue
<1>2. ASSUME NEW i \in DOMAIN queue', NEW j \in DOMAIN queue', IsPacketBlock(queue'[i]),
             IsPacketBlock(queue'[j]), queue'[i].p = queue'[j].p
      PROVE  i = j
  <2>1. CASE i \in DOMAIN queue /\ j \in DOMAIN queue
    BY <1>2, <2>1 DEF QueueIsTrue
  <2>2. CASE i \in DOMAIN queue /\ j \notin DOMAIN queue
    <3>1. queue'[j] = b /\ call[queue'[i].p] = "queued"
      BY <1>2, <2>2 DEF QueueIsTrue
    <3> QED
      BY <1>2, <3>1
  <2>3. CASE i \notin DOMAIN queue /\ j \in DOMAIN queue
    <3>1. queue'[i] = b /\ call[queue'[j].p] = "queued"
      BY <1>2, <2>3 DEF QueueIsTrue
    <3> QED
      BY <1>2, <3>1
  <2>4. CASE i \notin DOMAIN queue /\ j \notin DOMAIN queue
    BY <2>4
  <2> QED
    BY <2>1, <2>2, <2>3, <2>4
<1> QED
  BY <1>1, <1>2 DEF QueueIsTrue

LEMMA QueueShrinks ==
    ASSUME LinkTypes, QueueIsTrue, NEW do, TakeBlock(do),
           \A p \in Packets : call[p] = "queued" =>
              call'[p] = "queued" \/ (IsPacketBlock(Head(queue)) /\ p = Head(queue).p)
    PROVE  QueueIsTrue'
<1> USE ElementTypes, BlockOf, QueueTaken
<1>1. ASSUME NEW i \in DOMAIN queue', IsPacketBlock(queue'[i]) PROVE call'[queue'[i].p] = "queued"
  <2>1. /\ i + 1 \in DOMAIN queue /\ queue'[i] = queue[i + 1] /\ 1 \in DOMAIN queue
        /\ i + 1 # 1 /\ Head(queue) = queue[1]
    OBVIOUS
  <2>2. queue[i + 1].p \in Packets /\ call[queue[i + 1].p] = "queued"
    BY <1>1, <2>1 DEF QueueIsTrue
  <2>3. IsPacketBlock(queue[1]) => queue[1].p # queue[i + 1].p
    BY <1>1, <2>1 DEF QueueIsTrue
  <2>4. call'[queue[i + 1].p] = "queued"
    BY <2>1, <2>2, <2>3, SMTT(40) DEF IsPacketBlock
  <2> QED
    BY <2>1, <2>4
<1>2. ASSUME NEW i \in DOMAIN queue', NEW j \in DOMAIN queue', IsPacketBlock(queue'[i]),
             IsPacketBlock(queue'[j]), queue'[i].p = queue'[j].p
      PROVE  i = j
  <2>1. /\ i + 1 \in DOMAIN queue /\ queue'[i] = queue[i + 1]
        /\ j + 1 \in DOMAIN queue /\ queue'[j] = queue[j + 1]
    OBVIOUS
  <2>2. i + 1 = j + 1
    BY <1>2, <2>1 DEF QueueIsTrue
  <2> QED
    BY <2>2
<1> QED
  BY <1>1, <1>2 DEF QueueIsTrue

\* The calls of start on the queue.
LEMMA StartsAreFinite ==
    ASSUME LinkTypes PROVE IsFiniteSet(Starts(queue)) /\ Cardinality(Starts(queue)) \in Nat
<1>1. Len(queue) \in Nat /\ DOMAIN queue = 1 .. Len(queue)
  BY LenProperties DEF LinkTypes
<1>2. IsFiniteSet(1 .. Len(queue))
  BY <1>1, FS_Interval
<1>3. IsFiniteSet(Starts(queue))
  BY <1>1, <1>2, FS_Subset DEF Starts
<1> QED
  BY <1>3, FS_CardinalityType

LEMMA StartsGrow ==
    ASSUME LinkTypes, NEW b \in Blocks, queue' = Append(queue, b)
    PROVE  Cardinality(Starts(queue'))
             = Cardinality(Starts(queue)) + (IF b.do = "start" THEN 1 ELSE 0)
<1>1. CASE b.do = "start"
  <2>1. Starts(queue') = Starts(queue) \cup {Len(queue) + 1}
    BY <1>1, QueueExtended DEF Starts
  <2>2. Len(queue) + 1 \notin Starts(queue)
    BY QueueExtended DEF Starts
  <2> QED
    BY <1>1, <2>1, <2>2, StartsAreFinite, FS_AddElement
<1>2. CASE b.do # "start"
  <2>1. Starts(queue') = Starts(queue)
    BY <1>2, QueueExtended DEF Starts
  <2> QED
    BY <1>2, <2>1, StartsAreFinite
<1> QED
  BY <1>1, <1>2

LEMMA StartsShrink ==
    ASSUME LinkTypes, NEW do, TakeBlock(do)
    PROVE  Cardinality(Starts(queue'))
             = Cardinality(Starts(queue)) - (IF do = "start" THEN 1 ELSE 0)
<1> DEFINE T == Starts(queue) \ {1}
           f == [i \in T |-> i - 1]
<1>1. \A i \in T : i \in Nat /\ i - 1 \in Starts(queue')
  BY QueueTaken DEF Starts
<1>2. \A i, j \in T : f[i] = f[j] => i = j
  BY <1>1
<1>3. \A k \in Starts(queue') : k + 1 \in T /\ f[k + 1] = k
  BY QueueTaken DEF Starts
<1>4. f \in Bijection(T, Starts(queue'))
  <2>1. f \in [T -> Starts(queue')]
    BY <1>1
  <2> HIDE DEF f, T
  <2>2. \A k \in Starts(queue') : \E i \in T : f[i] = k
    BY <1>3
  <2> QED
    BY <1>2, <2>1, <2>2 DEF Bijection, Injection, Surjection, IsInjective
<1>5. ExistsBijection(T, Starts(queue'))
  BY <1>4 DEF ExistsBijection
<1>6. IsFiniteSet(Starts(queue)) /\ Cardinality(Starts(queue)) \in Nat
  BY StartsAreFinite
<1>7. /\ IsFiniteSet(T)
      /\ Cardinality(T) = IF 1 \in Starts(queue) THEN Cardinality(Starts(queue)) - 1
                                                 ELSE Cardinality(Starts(queue))
  BY <1>6, FS_RemoveElement
<1>8. 1 \in Starts(queue) <=> do = "start"
  BY QueueTaken DEF Starts, TakeBlock
<1>9. Cardinality(Starts(queue')) = Cardinality(T)
  BY <1>5, <1>7, FS_Bijection
<1> QED
  BY <1>6, <1>7, <1>8, <1>9
-----------------------------------------------------------------------------
(* The calls of send.                                                        *)

\* stop completes every write under way, also when the link was closed before.
LEMMA StopCompletes ==
    ASSUME LinkTypes, WritesAreCalls, NEW last, Stop(last)
    PROVE  Complete(writes) /\ writes' = {}
<1>1. CASE link.closed
  <2>1. writes = {} /\ call' = call /\ completions' = completions /\ writes' = writes
    BY <1>1 DEF WritesAreCalls, Stop, sendVars
  <2> QED
    BY <2>1 DEF LinkTypes, Complete
<1>2. CASE ~link.closed
  BY <1>2 DEF Stop
<1> QED
  BY <1>1, <1>2

LEMMA CompletedCalls ==
    ASSUME LinkTypes, WritesAreCalls, NEW P \in SUBSET Packets, Complete(P),
           \A p \in P : call[p] # "done", writes' = writes \ P
    PROVE  /\ writes' = {p \in Packets : call'[p] = "writing"}
           /\ \A p \in Packets : completions'[p] = IF call'[p] = "done" THEN 1 ELSE 0
BY DEF LinkTypes, WritesAreCalls, Complete

LEMMA StopCalls ==
    ASSUME LinkTypes, WritesAreCalls, NEW last, Stop(last)
    PROVE  WritesAreCalls'
<1>1. Complete(writes) /\ writes' = {}
  BY StopCompletes
<1>2. writes \in SUBSET Packets /\ writes \ writes = {} /\ \A p \in writes : call[p] # "done"
  BY DEF LinkTypes, WritesAreCalls
<1> QED
  BY <1>1, <1>2, CompletedCalls DEF WritesAreCalls

\* The packet of the block at the head of the queue.
LEMMA HeadPacket ==
    ASSUME LinkTypes, QueueIsTrue, NEW do \in {"admitted", "refused"}, TakeBlock(do)
    PROVE  /\ Head(queue).p \in Packets /\ call[Head(queue).p] = "queued"
           /\ IsPacketBlock(Head(queue))
<1>1. 1 \in DOMAIN queue /\ Head(queue) = queue[1]
  BY QueueTaken
<1>2. IsPacketBlock(queue[1])
  BY <1>1 DEF TakeBlock, IsPacketBlock
<1> QED
  BY <1>1, <1>2, BlockTypes DEF QueueIsTrue

LEMMA CallsStep == LinkTypes /\ QueueIsTrue /\ WritesAreCalls /\ [Next]_vars => WritesAreCalls'
<1> SUFFICES ASSUME LinkTypes, QueueIsTrue, WritesAreCalls, [Next]_vars PROVE WritesAreCalls'
  OBVIOUS
<1> USE DEF sendVars, timerVars
<1>1. CASE UNCHANGED <<link, sendVars>>
  BY <1>1 DEF WritesAreCalls
<1>2. CASE CallStart \/ CallCancel \/ ReadTimeOver \/ WriteTimeOver \/ ConnectionReady
           \/ HandshakeSent \/ UNCHANGED vars
  BY <1>1, <1>2 DEF CallStart, CallCancel, ReadTimeOver, WriteTimeOver, ConnectionReady,
                    HandshakeSent, vars
<1>3. ASSUME NEW p \in Packets, Admit(p) PROVE WritesAreCalls'
  BY <1>3 DEF WritesAreCalls, LinkTypes, Admit
<1>4. ASSUME NEW p \in Packets, Dispatch(p) PROVE WritesAreCalls'
  BY <1>4 DEF WritesAreCalls, LinkTypes, Dispatch
<1>5. CASE RunStart
  <2>1. link'.closed = link.closed
    BY <1>5 DEF RunStart, LinkTypes, Links
  <2> QED
    BY <1>5, <2>1 DEF RunStart, WritesAreCalls
<1>6. ASSUME NEW last, Stop(last) PROVE WritesAreCalls'
  BY <1>6, StopCalls
<1>7. CASE RunCancel \/ TimerRuns \/ ConnectionFails
  BY <1>6, <1>7 DEF RunCancel, TimerRuns, ConnectionFails
<1>8. CASE RunRefused
  <2> DEFINE p == Head(queue).p
  <2>1. p \in Packets /\ call[p] = "queued"
    BY <1>8, HeadPacket DEF RunRefused
  <2> HIDE DEF p
  <2>2. {p} \in SUBSET Packets /\ writes' = writes \ {p} /\ link' = link /\ Complete({p})
    BY <1>8, <2>1 DEF RunRefused, WritesAreCalls, p
  <2> QED
    BY <2>1, <2>2, CompletedCalls DEF WritesAreCalls
<1>9. CASE RunTurnedAway
  <2> DEFINE p == Head(queue).p
  <2>1. p \in Packets /\ call[p] = "queued"
    BY <1>9, HeadPacket DEF RunTurnedAway
  <2> HIDE DEF p
  <2>2. {p} \in SUBSET Packets /\ writes' = writes \ {p} /\ link' = link /\ Complete({p})
    BY <1>9, <2>1 DEF RunTurnedAway, WritesAreCalls, p
  <2> QED
    BY <2>1, <2>2, CompletedCalls DEF WritesAreCalls
<1>10. CASE RunWrite
  <2> DEFINE p == Head(queue).p
  <2>1. p \in Packets /\ call[p] = "queued"
    BY <1>10, HeadPacket DEF RunWrite
  <2> HIDE DEF p
  <2>2. /\ call' = [call EXCEPT ![p] = "writing"] /\ writes' = writes \cup {p}
        /\ UNCHANGED <<link, completions>> /\ ~link.closed
    BY <1>10 DEF RunWrite, p
  <2> QED
    BY <2>1, <2>2 DEF WritesAreCalls, LinkTypes
<1>11. ASSUME NEW configures \in BOOLEAN, NEW packets \in BOOLEAN, NEW partial \in BOOLEAN,
              Received(configures, packets, partial) \/ ReceivedLast(configures, packets, partial)
       PROVE  WritesAreCalls'
  <2>1. CASE Received(configures, packets, partial)
    <3>1. link'.closed = link.closed
      BY <2>1 DEF Received, Consumed, LinkTypes, Links
    <3> QED
      BY <2>1, <3>1 DEF Received, WritesAreCalls
  <2> QED
    BY <1>6, <1>11, <2>1 DEF ReceivedLast
<1>12. ASSUME NEW p \in Packets, NEW failed \in BOOLEAN, ContentProcessed(p, failed)
       PROVE  WritesAreCalls'
  <2>1. CASE p \in writes /\ Complete({p}) /\ writes' = writes \ {p} /\ link' = link
    <3>1. {p} \in SUBSET Packets /\ call[p] # "done"
      BY <2>1 DEF WritesAreCalls
    <3> QED
      BY <2>1, <3>1, CompletedCalls DEF WritesAreCalls
  <2> QED
    BY <1>1, <1>6, <1>12, <2>1 DEF ContentProcessed
<1> QED
  BY <1>2, <1>3, <1>4, <1>5, <1>7, <1>8, <1>9, <1>10, <1>11, <1>12
     DEF Next, Callers, Run, Timers, Connection

LEMMA QueueStep ==
    LinkTypes /\ QueueIsTrue /\ WritesAreCalls /\ [Next]_vars => QueueIsTrue'
<1> SUFFICES ASSUME LinkTypes, QueueIsTrue, WritesAreCalls, [Next]_vars PROVE QueueIsTrue'
  OBVIOUS
<1> USE DEF sendVars, timerVars
<1>1. ASSUME UNCHANGED <<queue, call>> PROVE QueueIsTrue'
  BY <1>1, QueueKeeps
<1>2. CASE ReadTimeOver \/ WriteTimeOver \/ ConnectionReady \/ HandshakeSent \/ UNCHANGED vars
  BY <1>1, <1>2 DEF ReadTimeOver, WriteTimeOver, ConnectionReady, HandshakeSent, vars
<1>3. CASE CallStart \/ CallCancel
  <2>1. PICK b \in Blocks : queue' = Append(queue, b) /\ ~IsPacketBlock(b)
    BY <1>3 DEF CallStart, CallCancel, Blocks, IsPacketBlock
  <2>2. call' = call
    BY <1>3 DEF CallStart, CallCancel
  <2> QED
    BY <2>1, <2>2, QueueGrows
<1>4. ASSUME NEW p \in Packets, Admit(p) PROVE QueueIsTrue'
  BY <1>4, QueueKeeps DEF LinkTypes, Admit
<1>5. ASSUME NEW p \in Packets, Dispatch(p) PROVE QueueIsTrue'
  <2> DEFINE b == [do |-> call[p], p |-> p]
  <2>1. b \in Blocks /\ b.p = p
    BY <1>5 DEF Dispatch, Blocks
  <2>2. queue' = Append(queue, b)
    BY <1>5 DEF Dispatch
  <2> HIDE DEF b
  <2>3. call[p] # "queued" /\ call'[p] = "queued"
    BY <1>5 DEF Dispatch, LinkTypes
  <2>4. \A q \in Packets : call[q] = "queued" => call'[q] = "queued"
    BY <1>5 DEF Dispatch, LinkTypes
  <2> QED
    BY <2>1, <2>2, <2>3, <2>4, QueueGrows
<1>6. CASE RunStart
  BY <1>6, QueueShrinks DEF RunStart
<1>7. ASSUME NEW last, Stop(last) PROVE \A p \in Packets : call[p] = "queued" => call'[p] = "queued"
  <2>1. Complete(writes)
    BY <1>7, StopCompletes
  <2> QED
    BY <2>1 DEF Complete, WritesAreCalls
<1>8. CASE RunCancel
  BY <1>7, <1>8, QueueShrinks DEF RunCancel
<1>9. CASE RunRefused \/ RunTurnedAway \/ RunWrite
  <2>1. PICK do \in {"admitted", "refused"} : TakeBlock(do)
    BY <1>9 DEF RunRefused, RunTurnedAway, RunWrite
  <2> DEFINE p == Head(queue).p
  <2>2. p \in Packets /\ IsPacketBlock(Head(queue))
    BY <2>1, HeadPacket
  <2>3. \A q \in Packets : q # p => call'[q] = call[q]
    BY <1>9, <2>2 DEF RunRefused, RunTurnedAway, RunWrite, Complete, LinkTypes
  <2> HIDE DEF p
  <2>4. \A q \in Packets : call[q] = "queued" =>
           call'[q] = "queued" \/ (IsPacketBlock(Head(queue)) /\ q = Head(queue).p)
    BY <2>2, <2>3 DEF p
  <2> QED
    BY <2>1, <2>4, QueueShrinks
<1>10. CASE TimerRuns \/ ConnectionFails
  BY <1>7, <1>10, QueueKeeps DEF TimerRuns, ConnectionFails
<1>11. ASSUME NEW configures \in BOOLEAN, NEW packets \in BOOLEAN, NEW partial \in BOOLEAN,
              Received(configures, packets, partial) \/ ReceivedLast(configures, packets, partial)
       PROVE  QueueIsTrue'
  BY <1>1, <1>7, <1>11, QueueKeeps DEF Received, ReceivedLast
<1>12. ASSUME NEW p \in Packets, NEW failed \in BOOLEAN, ContentProcessed(p, failed)
       PROVE  QueueIsTrue'
  <2>1. \A q \in Packets : call[q] = "queued" => call'[q] = "queued"
    BY <1>7, <1>12 DEF ContentProcessed, Complete, WritesAreCalls
  <2> QED
    BY <1>12, <2>1, QueueKeeps DEF ContentProcessed
<1> QED
  BY <1>2, <1>3, <1>4, <1>5, <1>6, <1>8, <1>9, <1>10, <1>11, <1>12
     DEF Next, Callers, Run, Timers, Connection
-----------------------------------------------------------------------------
(* The calls of start, and the reports.                                      *)

\* What stop leaves of the flags and of the calls.
LEMMA StopFlags ==
    ASSUME LinkTypes, NEW last \in Links, Stop(last)
    PROVE  /\ link'.closed
           /\ ~link.closed => /\ link'.started = last.started
                              /\ link'.configured = last.configured
                              /\ link'.partial = last.partial
                              /\ link'.timedOut = last.timedOut
                              /\ link'.ready = last.ready
                              /\ calls'.closed = calls.closed + (IF link.started THEN 1 ELSE 0)
           /\ link.closed => link' = link /\ calls'.closed = calls.closed
           /\ calls'.start = calls.start /\ calls'.refused = calls.refused
<1>1. CASE link.closed
  BY <1>1 DEF Stop
<1>2. CASE ~link.closed
  BY <1>2 DEF Stop, Links, LinkTypes, Calls
<1> QED
  BY <1>1, <1>2

LEMMA StopCounts ==
    ASSUME LinkTypes, StartsAreCounted, NEW last \in Links, Stop(last),
           last.started = link.started, last.ready = IF last.configured THEN 1 ELSE 0,
           Cardinality(Starts(queue')) = Cardinality(Starts(queue))
    PROVE  StartsAreCounted'
<1>1. CASE link.closed
  BY <1>1, StopFlags DEF StartsAreCounted
<1>2. CASE ~link.closed
  <2>1. calls.closed = 0
    BY <1>2 DEF StartsAreCounted
  <2> QED
    BY <1>2, <2>1, StopFlags DEF StartsAreCounted
<1> QED
  BY <1>1, <1>2

LEMMA StartsStep == LinkTypes /\ StartsAreCounted /\ [Next]_vars => StartsAreCounted'
<1> SUFFICES ASSUME LinkTypes, StartsAreCounted, [Next]_vars PROVE StartsAreCounted'
  OBVIOUS
<1> USE DEF sendVars, timerVars
<1>0. /\ calls.start \in Nat /\ calls.refused \in Nat /\ calls.closed \in Nat
      /\ Cardinality(Starts(queue)) \in Nat /\ link \in Links
  BY StartsAreFinite DEF LinkTypes, Calls
<1>1. ASSUME UNCHANGED <<link, calls>>, Cardinality(Starts(queue')) = Cardinality(Starts(queue))
      PROVE  StartsAreCounted'
  BY <1>1 DEF StartsAreCounted
<1>2. CASE ReadTimeOver \/ WriteTimeOver \/ ConnectionReady \/ HandshakeSent \/ UNCHANGED vars
  BY <1>1, <1>2 DEF ReadTimeOver, WriteTimeOver, ConnectionReady, HandshakeSent, vars
<1>3. CASE CallStart
  <2> DEFINE b == [do |-> "start"]
  <2>1. b \in Blocks /\ b.do = "start"
    BY DEF Blocks
  <2>2. queue' = Append(queue, b)
    BY <1>3 DEF CallStart
  <2> HIDE DEF b
  <2>3. Cardinality(Starts(queue')) = Cardinality(Starts(queue)) + 1
    BY <2>1, <2>2, StartsGrow
  <2>4. /\ calls'.start = calls.start + 1 /\ calls'.refused = calls.refused
        /\ calls'.closed = calls.closed /\ link' = link
    BY <1>3 DEF CallStart, LinkTypes, Calls
  <2> QED
    BY <1>0, <2>3, <2>4 DEF StartsAreCounted
<1>4. CASE CallCancel
  <2> DEFINE b == [do |-> "cancel"]
  <2>1. b \in Blocks /\ b.do # "start"
    BY DEF Blocks
  <2>2. queue' = Append(queue, b)
    BY <1>4 DEF CallCancel
  <2> HIDE DEF b
  <2>3. Cardinality(Starts(queue')) = Cardinality(Starts(queue))
    BY <1>0, <2>1, <2>2, StartsGrow
  <2>4. /\ calls'.start = calls.start /\ calls'.refused = calls.refused
        /\ calls'.closed = calls.closed /\ link' = link
    BY <1>4 DEF CallCancel, LinkTypes, Calls
  <2> QED
    BY <1>0, <2>3, <2>4 DEF StartsAreCounted
<1>5. ASSUME NEW p \in Packets, Admit(p) PROVE StartsAreCounted'
  BY <1>1, <1>5 DEF Admit
<1>6. ASSUME NEW p \in Packets, Dispatch(p) PROVE StartsAreCounted'
  <2> DEFINE b == [do |-> call[p], p |-> p]
  <2>1. b \in Blocks /\ b.do # "start"
    BY <1>6 DEF Dispatch, Blocks
  <2>2. queue' = Append(queue, b)
    BY <1>6 DEF Dispatch
  <2> HIDE DEF b
  <2>3. Cardinality(Starts(queue')) = Cardinality(Starts(queue))
    BY <1>0, <2>1, <2>2, StartsGrow
  <2> QED
    BY <1>1, <1>6, <2>3 DEF Dispatch
<1>7. CASE RunStart
  <2>1. Cardinality(Starts(queue')) = Cardinality(Starts(queue)) - 1
    BY <1>7, StartsShrink DEF RunStart
  <2>2. CASE link.started \/ link.closed
    <3>1. /\ calls'.start = calls.start /\ calls'.refused = calls.refused + 1
          /\ calls'.closed = calls.closed /\ link' = link
      BY <1>7, <2>2 DEF RunStart, LinkTypes, Calls
    <3> QED
      BY <1>0, <2>1, <3>1 DEF StartsAreCounted
  <2>3. CASE ~link.started /\ ~link.closed
    <3>1. /\ link'.started /\ link'.closed = link.closed /\ link'.configured = link.configured
          /\ link'.ready = link.ready /\ calls' = calls
      BY <1>7, <2>3 DEF RunStart, LinkTypes, Links
    <3> QED
      BY <1>0, <2>1, <2>3, <3>1 DEF StartsAreCounted
  <2> QED
    BY <2>2, <2>3
<1>8. CASE RunCancel
  <2>1. Cardinality(Starts(queue')) = Cardinality(Starts(queue))
    BY <1>0, <1>8, StartsShrink DEF RunCancel
  <2> QED
    BY <1>0, <1>8, <2>1, StopCounts DEF RunCancel, StartsAreCounted
<1>9. CASE RunRefused \/ RunTurnedAway \/ RunWrite
  <2>1. PICK do \in {"admitted", "refused"} : TakeBlock(do)
    BY <1>9 DEF RunRefused, RunTurnedAway, RunWrite
  <2>2. Cardinality(Starts(queue')) = Cardinality(Starts(queue))
    BY <1>0, <2>1, StartsShrink
  <2> QED
    BY <1>1, <1>9, <2>2 DEF RunRefused, RunTurnedAway, RunWrite
<1>10. CASE TimerRuns
  <2> DEFINE last == [link EXCEPT !.timedOut = TRUE]
  <2>1. /\ last \in Links /\ last.started = link.started /\ last.ready = link.ready
        /\ last.configured = link.configured
    BY <1>0 DEF Links
  <2>2. Stop(last) /\ queue' = queue
    BY <1>10 DEF TimerRuns
  <2> HIDE DEF last
  <2> QED
    BY <2>1, <2>2, StopCounts DEF StartsAreCounted
<1>11. CASE ConnectionFails
  BY <1>0, <1>11, StopCounts DEF ConnectionFails, StartsAreCounted
<1>12. ASSUME NEW configures \in BOOLEAN, NEW packets \in BOOLEAN, NEW partial \in BOOLEAN,
              Received(configures, packets, partial) \/ ReceivedLast(configures, packets, partial)
       PROVE  StartsAreCounted'
  <2> DEFINE last == Consumed(configures, partial)
  <2>0. Consumable(configures, packets, partial)
    BY <1>12 DEF Received, ReceivedLast
  <2>1. /\ last.started = link.started /\ last.closed = link.closed
        /\ last.configured <=> link.configured \/ configures
        /\ last.ready = link.ready + (IF configures THEN 1 ELSE 0)
    BY <1>0 DEF Consumed, Links
  <2>2. last \in Links
    <3>1. link.ready + (IF configures THEN 1 ELSE 0) \in Nat
      BY <1>0 DEF Links
    <3>2. (link.configured \/ configures) \in BOOLEAN
      OBVIOUS
    <3> QED
      BY <1>0, <3>1, <3>2, LinkRecords DEF Consumed
  <2> HIDE DEF last
  <2>3. last.ready = IF last.configured THEN 1 ELSE 0
    <3>1. CASE configures
      <4>1. ~link.configured /\ link.ready = 0
        BY <2>0, <3>1 DEF StartsAreCounted, Consumable
      <4> QED
        BY <2>1, <3>1, <4>1
    <3>2. CASE ~configures
      <4>1. link.ready \in Nat /\ link.ready = IF link.configured THEN 1 ELSE 0
        BY <1>0 DEF StartsAreCounted, Links
      <4> QED
        BY <2>1, <3>2, <4>1
    <3> QED
      BY <3>1, <3>2
  <2>4. CASE Received(configures, packets, partial)
    <3>1. link' = last /\ UNCHANGED <<queue, calls>>
      BY <2>4 DEF Received, last
    <3> QED
      BY <1>0, <2>1, <2>3, <3>1 DEF StartsAreCounted
  <2>5. CASE ReceivedLast(configures, packets, partial)
    <3>1. Stop(last) /\ queue' = queue
      BY <2>5 DEF ReceivedLast, last
    <3> QED
      BY <2>1, <2>2, <2>3, <3>1, StopCounts
  <2> QED
    BY <1>12, <2>4, <2>5
<1>13. ASSUME NEW p \in Packets, NEW failed \in BOOLEAN, ContentProcessed(p, failed)
       PROVE  StartsAreCounted'
  <2>1. queue' = queue /\ (Stop(link) \/ UNCHANGED <<link, calls>>)
    BY <1>13 DEF ContentProcessed
  <2> QED
    BY <1>0, <1>1, <2>1, StopCounts DEF StartsAreCounted
<1> QED
  BY <1>2, <1>3, <1>4, <1>5, <1>6, <1>7, <1>8, <1>9, <1>10, <1>11, <1>12, <1>13
     DEF Next, Callers, Run, Timers, Connection
-----------------------------------------------------------------------------
(* The timers.                                                               *)

LEMMA TimerFields ==
    ASSUME NEW t \in Timer
    PROVE  /\ Arm(t).armed /\ "current" \notin Arm(t).due
           /\ ~Disarm(t).armed /\ "current" \notin Disarm(t).due
           /\ Expired(t).armed = t.armed
BY DEF Timer, Arm, Disarm, Aged, Expired

LEMMA StopTimers ==
    ASSUME LinkTypes, TimersAreSound, NEW last \in Links, Stop(last),
           link.started => last.started, last.started \/ ~last.configured,
           last.partial => last.configured
    PROVE  TimersAreSound'
<1>1. CASE link.closed
  <2>1. UNCHANGED <<link, reading, readTimer, writeTimer, writes>>
    BY <1>1 DEF Stop, sendVars, timerVars
  <2> QED
    BY <2>1 DEF TimersAreSound, WritesAreWatched, ReadsAreWatched
<1>2. CASE ~link.closed
  <2>1. /\ reading' = "none" /\ ~readTimer'.armed /\ "current" \notin readTimer'.due
        /\ ~writeTimer'.armed /\ "current" \notin writeTimer'.due
    BY <1>2, TimerFields DEF Stop, LinkTypes
  <2> QED
    BY <1>2, <2>1, StopFlags DEF TimersAreSound, WritesAreWatched, ReadsAreWatched
<1> QED
  BY <1>1, <1>2

LEMMA TimersStep ==
    LinkTypes /\ WritesAreCalls /\ TimersAreSound /\ [Next]_vars => TimersAreSound'
<1> SUFFICES ASSUME LinkTypes, WritesAreCalls, TimersAreSound, [Next]_vars PROVE TimersAreSound'
  OBVIOUS
<1> USE DEF sendVars, timerVars
<1>0. link \in Links /\ readTimer \in Timer /\ writeTimer \in Timer
  BY DEF LinkTypes
<1>1. ASSUME UNCHANGED <<link, reading, readTimer, writeTimer, writes>> PROVE TimersAreSound'
  BY <1>1 DEF TimersAreSound, WritesAreWatched, ReadsAreWatched
<1>2. CASE CallStart \/ CallCancel \/ UNCHANGED vars \/ \E p \in Packets : Admit(p) \/ Dispatch(p)
  BY <1>1, <1>2 DEF CallStart, CallCancel, Admit, Dispatch, vars
<1>3. CASE ReadTimeOver
  <2>1. readTimer'.armed = readTimer.armed /\ readTimer.armed
    BY <1>0, <1>3, TimerFields DEF ReadTimeOver
  <2> QED
    BY <1>3, <2>1 DEF ReadTimeOver, TimersAreSound, WritesAreWatched, ReadsAreWatched
<1>4. CASE WriteTimeOver
  <2>1. writeTimer'.armed = writeTimer.armed /\ writeTimer.armed
    BY <1>0, <1>4, TimerFields DEF WriteTimeOver
  <2> QED
    BY <1>4, <2>1 DEF WriteTimeOver, TimersAreSound, WritesAreWatched, ReadsAreWatched
<1>5. CASE ConnectionReady \/ HandshakeSent
  BY <1>5 DEF ConnectionReady, HandshakeSent, TimersAreSound, WritesAreWatched, ReadsAreWatched
<1>6. CASE RunStart
  <2>1. CASE link.started \/ link.closed
    BY <1>1, <1>6, <2>1 DEF RunStart
  <2>2. CASE ~link.started /\ ~link.closed
    <3>1. /\ link'.started /\ link'.closed = link.closed /\ link'.configured = link.configured
          /\ link'.partial = link.partial
      BY <1>0, <1>6, <2>2 DEF RunStart, Links
    <3>2. readTimer'.armed /\ "current" \notin readTimer'.due
      BY <1>0, <1>6, <2>2, TimerFields DEF RunStart
    <3> QED
      BY <1>6, <2>2, <3>1, <3>2 DEF RunStart, TimersAreSound, WritesAreWatched, ReadsAreWatched
  <2> QED
    BY <2>1, <2>2
<1>7. ASSUME Stop(link) PROVE TimersAreSound'
  BY <1>0, <1>7, StopTimers DEF TimersAreSound
<1>8. CASE RunCancel \/ ConnectionFails
  BY <1>7, <1>8 DEF RunCancel, ConnectionFails
<1>9. CASE TimerRuns
  <2> DEFINE last == [link EXCEPT !.timedOut = TRUE]
  <2>1. /\ last \in Links /\ last.started = link.started /\ last.partial = link.partial
        /\ last.configured = link.configured
    BY <1>0 DEF Links
  <2>2. Stop(last)
    BY <1>9 DEF TimerRuns
  <2> HIDE DEF last
  <2> QED
    BY <2>1, <2>2, StopTimers DEF TimersAreSound
<1>10. CASE RunRefused \/ RunTurnedAway
  BY <1>1, <1>10 DEF RunRefused, RunTurnedAway
<1>11. CASE RunWrite
  <2>1. writes' # {} /\ UNCHANGED <<link, reading, readTimer>> /\ ~link.closed
    BY <1>11 DEF RunWrite
  <2>2. writeTimer'.armed /\ ("current" \in writeTimer'.due => writeTimer'.armed)
    BY <1>0, <1>11, TimerFields DEF RunWrite, TimersAreSound, WritesAreWatched
  <2> QED
    BY <2>1, <2>2 DEF TimersAreSound, WritesAreWatched, ReadsAreWatched
<1>12. ASSUME NEW configures \in BOOLEAN, NEW packets \in BOOLEAN, NEW partial \in BOOLEAN,
              Received(configures, packets, partial) \/ ReceivedLast(configures, packets, partial)
       PROVE  TimersAreSound'
  <2> DEFINE last == Consumed(configures, partial)
  <2>0. Consumable(configures, packets, partial)
    BY <1>12 DEF Received, ReceivedLast
  <2>1. /\ last.started = link.started /\ last.closed = link.closed
        /\ last.configured = (link.configured \/ configures) /\ last.partial = partial
    BY <1>0 DEF Consumed, Links
  <2>2. last \in Links
    <3>1. link.ready + (IF configures THEN 1 ELSE 0) \in Nat
      BY <1>0 DEF Links
    <3>2. (link.configured \/ configures) \in BOOLEAN
      OBVIOUS
    <3> QED
      BY <1>0, <3>1, <3>2, LinkRecords DEF Consumed
  <2> HIDE DEF last
  <2>3. link.started /\ ~link.closed /\ (partial => last.configured)
    BY <2>0, <2>1 DEF Consumable, TimersAreSound
  <2>4. CASE Received(configures, packets, partial)
    <3>1. link' = last /\ UNCHANGED <<reading, writes, writeTimer>>
      BY <2>4 DEF Received, last
    <3>2. /\ readTimer'.armed <=> ~last.configured \/ last.partial
          /\ "current" \in readTimer'.due => readTimer'.armed
      <4>1. CASE ~last.configured
        BY <2>1, <2>3, <2>4, <3>1, <4>1 DEF Received, TimersAreSound, ReadsAreWatched
      <4>2. CASE last.configured
        <5>1. readTimer' = ReadTimerAfter(configures \/ packets, partial)
          BY <2>4, <3>1, <4>2 DEF Received
        <5> DEFINE cleared == IF configures \/ packets THEN Disarm(readTimer) ELSE readTimer
        <5>2. cleared \in Timer /\ ("current" \in cleared.due => cleared.armed)
          BY <1>0, TimerTypes, TimerFields DEF TimersAreSound
        <5>3. readTimer' = IF ~partial THEN Disarm(cleared)
                           ELSE IF cleared.armed THEN cleared ELSE Arm(cleared)
          BY <5>1 DEF ReadTimerAfter
        <5> HIDE DEF cleared
        <5> QED
          BY <2>1, <4>2, <5>2, <5>3, TimerFields
      <4> QED
        BY <4>1, <4>2
    <3> QED
      BY <2>1, <2>3, <3>1, <3>2 DEF TimersAreSound, WritesAreWatched, ReadsAreWatched
  <2>5. CASE ReceivedLast(configures, packets, partial)
    <3>1. Stop(last)
      BY <2>5 DEF ReceivedLast, last
    <3> QED
      BY <2>1, <2>2, <2>3, <3>1, StopTimers
  <2> QED
    BY <1>12, <2>4, <2>5
<1>13. ASSUME NEW p \in Packets, NEW failed \in BOOLEAN, ContentProcessed(p, failed)
       PROVE  TimersAreSound'
  <2>1. CASE /\ p \in writes /\ writes' = writes \ {p}
             /\ writeTimer' = IF writes \ {p} = {} THEN Disarm(writeTimer) ELSE Arm(writeTimer)
             /\ UNCHANGED <<link, reading, readTimer>>
    <3>1. /\ writeTimer'.armed <=> writes' # {}
          /\ "current" \notin writeTimer'.due
      BY <1>0, <2>1, TimerFields
    <3> QED
      BY <2>1, <3>1 DEF TimersAreSound, WritesAreWatched, ReadsAreWatched
  <2> QED
    BY <1>1, <1>7, <1>13, <2>1 DEF ContentProcessed
<1> QED
  BY <1>2, <1>3, <1>4, <1>5, <1>6, <1>8, <1>9, <1>10, <1>11, <1>12, <1>13
     DEF Next, Callers, Run, Timers, Connection

-----------------------------------------------------------------------------
(* The theorems.                                                             *)

LEMMA InitLinkInv == Init => LinkInv
<1> SUFFICES ASSUME Init PROVE LinkInv
  OBVIOUS
<1>1. LinkTypes
  BY EmptySeq DEF Init, LinkTypes, Links, Calls, Timer, Off
<1>2. queue = <<>> /\ DOMAIN queue = {}
  BY DEF Init
<1>3. Starts(queue) = {} /\ Cardinality(Starts(queue)) = 0
  BY <1>2, FS_EmptySet DEF Starts
<1>4. QueueIsTrue
  BY <1>2 DEF QueueIsTrue
<1>5. WritesAreCalls
  BY DEF Init, WritesAreCalls
<1>6. StartsAreCounted
  BY <1>3 DEF Init, StartsAreCounted
<1>7. TimersAreSound
  BY DEF Init, TimersAreSound, Off, WritesAreWatched, ReadsAreWatched
<1> QED
  BY <1>1, <1>4, <1>5, <1>6, <1>7 DEF LinkInv

\* The link's bookkeeping holds in every reachable state: types, one block per
\* packet, the writes that callers wait for, the count of starts, the timers.
THEOREM LinkIsSound == Spec => []LinkInv
<1>1. LinkInv /\ [Next]_vars => LinkInv'
  BY TypeStep, QueueStep, CallsStep, StartsStep, TimersStep DEF LinkInv
<1> QED
  BY <1>1, InitLinkInv, PTL DEF Spec

\* CDTunnelConnection runs no completion twice, calls onReady once at most, and
\* start's onClose once for each call of start, whatever the order of stop, the
\* NWConnection's callbacks and the timers.
THEOREM ReportsAreSingle == Spec => []ReportedOnce
<1>1. LinkInv => ReportedOnce
  <2> SUFFICES ASSUME LinkInv PROVE ReportedOnce
    OBVIOUS
  <2>1. /\ calls.start \in Nat /\ calls.refused \in Nat /\ calls.closed \in Nat
        /\ Cardinality(Starts(queue)) \in Nat
    BY StartsAreFinite DEF LinkInv, LinkTypes, Calls
  <2>2. \A p \in Packets : completions[p] <= 1
    BY DEF LinkInv, WritesAreCalls
  <2>3. link.ready <= 1 /\ (link.closed => calls.closed = IF link.started THEN 1 ELSE 0)
    BY DEF LinkInv, StartsAreCounted
  <2>4. calls.closed + calls.refused <= calls.start
    BY <2>1 DEF LinkInv, StartsAreCounted
  <2> QED
    BY <2>2, <2>3, <2>4 DEF ReportedOnce
<1> QED
  BY <1>1, LinkIsSound, PTL

\* The timers run exactly while a handshake, a packet or a write is awaited, and a
\* handler that was cancelled or armed anew never closes the link.
THEOREM TimeoutsAreTrue == Spec => TimersAreTrue
<1>1. LinkInv => WritesAreWatched /\ ReadsAreWatched
  BY DEF LinkInv, TimersAreSound
<1>2. LinkInv /\ [Next]_vars =>
        [link'.timedOut /\ ~link.timedOut => ~link.configured \/ link.partial \/ writes # {}]_vars
  <2> SUFFICES ASSUME LinkInv, Next, link'.timedOut, ~link.timedOut
               PROVE  ~link.configured \/ link.partial \/ writes # {}
    OBVIOUS
  <2>0. link \in Links /\ LinkTypes
    BY DEF LinkInv, LinkTypes
  <2>1. ASSUME NEW last \in Links, Stop(last), ~last.timedOut PROVE FALSE
    BY <2>0, <2>1, StopFlags
  <2>2. CASE TimerRuns
    <3>1. ~link.closed
      BY <2>2 DEF TimerRuns, Stop
    <3> QED
      BY <2>2, <3>1 DEF TimerRuns, LinkInv, TimersAreSound, WritesAreWatched, ReadsAreWatched
  <2>3. CASE \E configures, packets, partial \in BOOLEAN :
               Received(configures, packets, partial) \/ ReceivedLast(configures, packets, partial)
    <3>1. PICK configures, packets, partial \in BOOLEAN :
             Received(configures, packets, partial) \/ ReceivedLast(configures, packets, partial)
      BY <2>3
    <3>2. ~Consumed(configures, partial).timedOut /\ Consumed(configures, partial) \in Links
      <4>1. link.ready + (IF configures THEN 1 ELSE 0) \in Nat
        BY <2>0 DEF Links
      <4>2. (link.configured \/ configures) \in BOOLEAN
        OBVIOUS
      <4>3. Consumed(configures, partial) \in Links
        BY <2>0, <4>1, <4>2, LinkRecords DEF Consumed
      <4> QED
        BY <2>0, <4>3 DEF Consumed, Links
    <3> QED
      BY <2>1, <3>1, <3>2 DEF Received, ReceivedLast
  <2>4. CASE RunStart
    BY <2>0, <2>4 DEF RunStart, Links
  <2>5. CASE UNCHANGED link \/ Stop(link)
    BY <2>0, <2>1, <2>5
  <2> QED
    BY <2>2, <2>3, <2>4, <2>5 DEF Next, Callers, Run, Timers, Connection, CallStart, CallCancel,
       Admit, Dispatch, RunCancel, RunRefused, RunTurnedAway, RunWrite, ReadTimeOver,
       WriteTimeOver, ConnectionReady, HandshakeSent, ConnectionFails, ContentProcessed
<1> QED
  BY <1>1, <1>2, LinkIsSound, PTL DEF Spec, TimersAreTrue, TimeoutsAreReal
-----------------------------------------------------------------------------
(* The room.                                                                 *)

\* The packets that have room: admitted, on the queue, or being written.
Inside == {p \in Packets : call[p] \in {"admitted", "writing"} \/ p \in Waiting(queue)}

LEMMA WaitingGrows ==
    ASSUME LinkTypes, NEW b \in Blocks, queue' = Append(queue, b)
    PROVE  Waiting(queue') = Waiting(queue) \cup (IF b.do = "admitted" THEN {b.p} ELSE {})
BY QueueExtended, BlockOf DEF Waiting, IsPacketBlock

LEMMA WaitingShrinks ==
    ASSUME LinkTypes, QueueIsTrue, NEW do, TakeBlock(do)
    PROVE  Waiting(queue') = Waiting(queue) \ (IF do = "admitted" THEN {Head(queue).p} ELSE {})
<1>0. /\ 1 \in DOMAIN queue /\ queue[1] = Head(queue) /\ queue[1] \in Blocks /\ queue[1].do = do
      /\ \A i \in DOMAIN queue' : i + 1 \in DOMAIN queue \ {1} /\ queue'[i] = queue[i + 1]
      /\ \A i \in DOMAIN queue \ {1} : i - 1 \in DOMAIN queue' /\ queue'[i - 1] = queue[i]
  BY QueueTaken DEF TakeBlock
<1>1. ASSUME NEW p \in Packets
      PROVE  p \in Waiting(queue') <=> \E i \in DOMAIN queue \ {1} :
                                          queue[i] = [do |-> "admitted", p |-> p]
  BY <1>0 DEF Waiting
<1>2. ASSUME NEW p \in Packets, NEW i \in DOMAIN queue \ {1}, NEW j \in DOMAIN queue,
             queue[i] = [do |-> "admitted", p |-> p], queue[j] = [do |-> "admitted", p |-> p]
      PROVE  i = j
  BY <1>2 DEF QueueIsTrue, IsPacketBlock
<1>3. \A p \in Packets : queue[1] = [do |-> "admitted", p |-> p]
                            <=> do = "admitted" /\ Head(queue).p = p
  BY <1>0, BlockOf
<1>4. Waiting(queue') \subseteq Packets /\ Waiting(queue) \subseteq Packets
  BY DEF Waiting
<1>5. ASSUME NEW p \in Packets
      PROVE  p \in Waiting(queue') <=> p \in Waiting(queue)
                                         /\ ~(do = "admitted" /\ Head(queue).p = p)
  <2>1. CASE queue[1] = [do |-> "admitted", p |-> p]
    BY <1>0, <1>1, <1>2, <1>3, <2>1
  <2>2. CASE queue[1] # [do |-> "admitted", p |-> p]
    BY <1>1, <1>3, <2>2 DEF Waiting
  <2> QED
    BY <2>1, <2>2
<1> QED
  BY <1>4, <1>5

\* The room held is that of the packets inside, and within the limits.
RoomIsExact ==
    /\ admitted.count = Cardinality(Inside) /\ admitted.count <= MaxAdmittedCount
    /\ admitted.bytes = SumFunctionOnSet(Size, Inside) /\ admitted.bytes <= MaxAdmittedBytes

LEMMA InsideIsFinite ==
    /\ Inside \in SUBSET Packets /\ IsFiniteSet(Inside)
    /\ Cardinality(Inside) \in Nat /\ SumFunctionOnSet(Size, Inside) \in Nat
<1>1. Inside \in SUBSET Packets
  BY DEF Inside
<1> QED
  BY <1>1, SumIsNat

LEMMA RoomTaken ==
    ASSUME RoomIsExact, NEW p \in Packets, p \notin Inside, Inside' = Inside \cup {p},
           Room(p), admitted' = Occupied(p)
    PROVE  RoomIsExact'
<1>1. /\ IsFiniteSet(Inside) /\ Cardinality(Inside) \in Nat
      /\ SumFunctionOnSet(Size, Inside) \in Nat /\ Inside \in SUBSET Packets
  BY InsideIsFinite
<1>2. Cardinality(Inside') = Cardinality(Inside) + 1
  BY <1>1, FS_AddElement
<1>3. \A q \in Inside \cup {p} : Size[q] \in Nat
  BY <1>1, LinkAssumption
<1>4. SumFunctionOnSet(Size, Inside') = SumFunctionOnSet(Size, Inside) + Size[p]
  BY <1>1, <1>3, SumAdds
<1>5. admitted'.count = admitted.count + 1 /\ admitted'.bytes = admitted.bytes + Size[p]
  BY DEF Occupied
<1>6. MaxAdmittedCount \in Nat /\ MaxAdmittedBytes \in Nat /\ Size[p] \in Nat
  BY LinkAssumption
<1> QED
  BY <1>1, <1>2, <1>4, <1>5, <1>6 DEF RoomIsExact, Room

LEMMA RoomGivenBack ==
    ASSUME RoomIsExact, NEW P \in SUBSET Inside, Inside' = Inside \ P, admitted' = Released(P)
    PROVE  RoomIsExact'
<1>1. /\ IsFiniteSet(Inside) /\ Cardinality(Inside) \in Nat
      /\ SumFunctionOnSet(Size, Inside) \in Nat /\ Inside \in SUBSET Packets
  BY InsideIsFinite
<1>2. P \in SUBSET Packets /\ P = Inside \cap P
  BY <1>1
<1>3. Cardinality(P) \in Nat /\ SumFunctionOnSet(Size, P) \in Nat
  BY <1>2, SumIsNat
<1>4. Cardinality(Inside') = Cardinality(Inside) - Cardinality(P)
  <2>1. Cardinality(Inside \ P) = Cardinality(Inside) - Cardinality(Inside \cap P)
    BY <1>1, FS_Difference
  <2> QED
    BY <1>2, <2>1
<1>5. \A q \in Inside : Size[q] \in Nat
  BY <1>1, LinkAssumption
<1>6. SumFunctionOnSet(Size, Inside') = SumFunctionOnSet(Size, Inside) - SumFunctionOnSet(Size, P)
  BY <1>1, <1>5, SumSubtracts
<1>7. /\ admitted'.count = admitted.count - Cardinality(P)
      /\ admitted'.bytes = admitted.bytes - SumFunctionOnSet(Size, P)
  BY DEF Released
<1>8. MaxAdmittedCount \in Nat /\ MaxAdmittedBytes \in Nat
  BY LinkAssumption
<1> QED
  BY <1>1, <1>3, <1>4, <1>6, <1>7, <1>8 DEF RoomIsExact

LEMMA RoomKept ==
    ASSUME RoomIsExact, Inside' = Inside, admitted' = admitted PROVE RoomIsExact'
BY DEF RoomIsExact

\* stop gives back the room of the writes, and of nothing when it ran before.
LEMMA StopGivesBack ==
    ASSUME LinkTypes, QueueIsTrue, WritesAreCalls, RoomIsExact, NEW last, Stop(last),
           Waiting(queue') = Waiting(queue)
    PROVE  RoomIsExact'
<1>1. Complete(writes) /\ writes' = {}
  BY StopCompletes
<1>2. \A p \in writes : p \notin Waiting(queue) /\ p \in Packets /\ call[p] = "writing"
  <2> SUFFICES ASSUME NEW p \in writes, p \in Waiting(queue) PROVE FALSE
    BY DEF WritesAreCalls
  <2>1. call[p] = "queued"
    BY DEF Waiting, QueueIsTrue, IsPacketBlock
  <2> QED
    BY <2>1 DEF WritesAreCalls
<1>3. writes \in SUBSET Inside /\ Inside' = Inside \ writes
  BY <1>1, <1>2 DEF Inside, Complete
<1>4. CASE link.closed
  <2>1. writes = {} /\ admitted' = admitted
    BY <1>4 DEF WritesAreCalls, Stop, sendVars
  <2> QED
    BY <1>3, <2>1, RoomKept
<1>5. CASE ~link.closed
  BY <1>3, <1>5, RoomGivenBack DEF Stop
<1> QED
  BY <1>4, <1>5

LEMMA RoomStep == LinkInv /\ RoomIsExact /\ [Next]_vars => RoomIsExact'
<1> SUFFICES ASSUME LinkInv, RoomIsExact, [Next]_vars PROVE RoomIsExact'
  OBVIOUS
<1>0. LinkTypes /\ QueueIsTrue /\ WritesAreCalls
  BY DEF LinkInv
<1> USE DEF sendVars, timerVars
<1>1. ASSUME UNCHANGED <<call, admitted>>, Waiting(queue') = Waiting(queue) PROVE RoomIsExact'
  <2>1. Inside' = Inside
    BY <1>1 DEF Inside
  <2> QED
    BY <1>1, <2>1, RoomKept
<1>2. CASE ReadTimeOver \/ WriteTimeOver \/ ConnectionReady \/ HandshakeSent \/ UNCHANGED vars
  BY <1>1, <1>2 DEF ReadTimeOver, WriteTimeOver, ConnectionReady, HandshakeSent, vars
<1>3. CASE CallStart \/ CallCancel
  <2>1. PICK b \in Blocks : queue' = Append(queue, b) /\ b.do # "admitted"
    BY <1>3 DEF CallStart, CallCancel, Blocks
  <2>2. Waiting(queue') = Waiting(queue)
    BY <1>0, <2>1, WaitingGrows
  <2> QED
    BY <1>1, <1>3, <2>2 DEF CallStart, CallCancel
<1>4. ASSUME NEW p \in Packets, Admit(p) PROVE RoomIsExact'
  <2>1. p \notin Waiting(queue)
    BY <1>0, <1>4 DEF Admit, Waiting, QueueIsTrue, IsPacketBlock
  <2>2. p \notin Inside /\ queue' = queue
    BY <1>4, <2>1 DEF Inside, Admit
  <2>3. CASE Room(p)
    <3>1. Inside' = Inside \cup {p}
      BY <1>0, <1>4, <2>2, <2>3 DEF Inside, Admit, LinkTypes
    <3> QED
      BY <1>4, <2>2, <2>3, <3>1, RoomTaken DEF Admit
  <2>4. CASE ~Room(p)
    <3>1. Inside' = Inside
      BY <1>0, <1>4, <2>2, <2>4 DEF Inside, Admit, LinkTypes
    <3> QED
      BY <1>4, <2>4, <3>1, RoomKept DEF Admit
  <2> QED
    BY <2>3, <2>4
<1>5. ASSUME NEW p \in Packets, Dispatch(p) PROVE RoomIsExact'
  <2> DEFINE b == [do |-> call[p], p |-> p]
  <2>1. b \in Blocks /\ b.p = p /\ b.do = call[p]
    BY <1>5 DEF Dispatch, Blocks
  <2>2. queue' = Append(queue, b)
    BY <1>5 DEF Dispatch
  <2> HIDE DEF b
  <2>3. Waiting(queue') = Waiting(queue) \cup (IF call[p] = "admitted" THEN {p} ELSE {})
    BY <1>0, <2>1, <2>2, WaitingGrows
  <2>4. Inside' = Inside
    <3>1. \A q \in Packets : call'[q] = IF q = p THEN "queued" ELSE call[q]
      BY <1>0, <1>5 DEF Dispatch, LinkTypes
    <3>2. call[p] \in {"admitted", "refused"}
      BY <1>5 DEF Dispatch
    <3>3. \A q \in Packets : q \in Inside' <=> q \in Inside
      BY <2>3, <3>1, <3>2 DEF Inside
    <3> QED
      BY <3>3 DEF Inside
  <2> QED
    BY <1>5, <2>4, RoomKept DEF Dispatch
<1>6. CASE RunStart
  <2>1. Waiting(queue') = Waiting(queue)
    BY <1>0, <1>6, WaitingShrinks DEF RunStart
  <2> QED
    BY <1>1, <1>6, <2>1 DEF RunStart
<1>7. CASE RunCancel
  <2>1. Waiting(queue') = Waiting(queue)
    BY <1>0, <1>7, WaitingShrinks DEF RunCancel
  <2> QED
    BY <1>0, <1>7, <2>1, StopGivesBack DEF RunCancel
<1>8. CASE RunRefused
  <2> DEFINE p == Head(queue).p
  <2>1. p \in Packets /\ call[p] = "queued" /\ p \notin Waiting(queue)
    <3>1. p \in Packets /\ call[p] = "queued" /\ IsPacketBlock(Head(queue))
      BY <1>0, <1>8, HeadPacket DEF RunRefused
    <3>2. 1 \in DOMAIN queue /\ queue[1] = Head(queue) /\ queue[1].do = "refused"
      BY <1>0, <1>8, QueueTaken DEF RunRefused, TakeBlock
    <3> QED
      BY <1>0, <3>1, <3>2 DEF Waiting, QueueIsTrue, IsPacketBlock
  <2>2. Waiting(queue') = Waiting(queue)
    <3>1. TakeBlock("refused")
      BY <1>8 DEF RunRefused
    <3> HIDE DEF p
    <3>2. Waiting(queue')
            = Waiting(queue) \ (IF "refused" = "admitted" THEN {Head(queue).p} ELSE {})
      BY <1>0, <3>1, WaitingShrinks, Zenon
    <3> QED
      BY <3>2
  <2>3. \A q \in Packets : call'[q] = IF q = p THEN "done" ELSE call[q]
    BY <1>8 DEF RunRefused, Complete
  <2> HIDE DEF p
  <2>4. Inside' = Inside
    BY <2>1, <2>2, <2>3 DEF Inside
  <2> QED
    BY <1>8, <2>4, RoomKept DEF RunRefused
<1>9. CASE RunTurnedAway
  <2> DEFINE p == Head(queue).p
  <2>1. p \in Packets /\ call[p] = "queued"
    BY <1>0, <1>9, HeadPacket DEF RunTurnedAway
  <2>2. p \in Waiting(queue) /\ Waiting(queue') = Waiting(queue) \ {p}
    <3>1. 1 \in DOMAIN queue /\ queue[1] = [do |-> "admitted", p |-> p]
      BY <1>0, <1>9, <2>1, QueueTaken, BlockOf DEF RunTurnedAway, TakeBlock
    <3> QED
      BY <1>0, <1>9, <2>1, <3>1, WaitingShrinks DEF RunTurnedAway, Waiting
  <2>3. \A q \in Packets : call'[q] = IF q = p THEN "done" ELSE call[q]
    BY <1>9 DEF RunTurnedAway, Complete
  <2>4. admitted' = Released({p})
    BY <1>9 DEF RunTurnedAway
  <2> HIDE DEF p
  <2>5. {p} \in SUBSET Inside /\ Inside' = Inside \ {p}
    BY <2>1, <2>2, <2>3 DEF Inside
  <2> QED
    BY <2>4, <2>5, RoomGivenBack
<1>10. CASE RunWrite
  <2> DEFINE p == Head(queue).p
  <2>1. p \in Packets /\ call[p] = "queued"
    BY <1>0, <1>10, HeadPacket DEF RunWrite
  <2>2. p \in Waiting(queue) /\ Waiting(queue') = Waiting(queue) \ {p}
    <3>1. 1 \in DOMAIN queue /\ queue[1] = [do |-> "admitted", p |-> p]
      BY <1>0, <1>10, <2>1, QueueTaken, BlockOf DEF RunWrite, TakeBlock
    <3> QED
      BY <1>0, <1>10, <2>1, <3>1, WaitingShrinks DEF RunWrite, Waiting
  <2>3. \A q \in Packets : call'[q] = IF q = p THEN "writing" ELSE call[q]
    BY <1>0, <1>10 DEF RunWrite, LinkTypes
  <2> HIDE DEF p
  <2>4. Inside' = Inside
    BY <2>1, <2>2, <2>3 DEF Inside
  <2> QED
    BY <1>10, <2>4, RoomKept DEF RunWrite
<1>11. CASE TimerRuns \/ ConnectionFails
  BY <1>0, <1>11, StopGivesBack DEF TimerRuns, ConnectionFails
<1>12. ASSUME NEW configures \in BOOLEAN, NEW packets \in BOOLEAN, NEW partial \in BOOLEAN,
              Received(configures, packets, partial) \/ ReceivedLast(configures, packets, partial)
       PROVE  RoomIsExact'
  BY <1>0, <1>1, <1>12, StopGivesBack DEF Received, ReceivedLast
<1>13. ASSUME NEW p \in Packets, NEW failed \in BOOLEAN, ContentProcessed(p, failed)
       PROVE  RoomIsExact'
  <2>1. CASE p \in writes /\ Complete({p}) /\ admitted' = Released({p}) /\ queue' = queue
    <3>1. call[p] = "writing"
      BY <1>0, <2>1 DEF WritesAreCalls
    <3>2. p \notin Waiting(queue)
      BY <1>0, <3>1 DEF Waiting, QueueIsTrue, IsPacketBlock
    <3>3. {p} \in SUBSET Inside /\ Inside' = Inside \ {p}
      BY <2>1, <3>1, <3>2 DEF Inside, Complete
    <3> QED
      BY <2>1, <3>3, RoomGivenBack
  <2> QED
    BY <1>0, <1>1, <1>13, <2>1, StopGivesBack DEF ContentProcessed
<1> QED
  BY <1>2, <1>3, <1>4, <1>5, <1>6, <1>7, <1>8, <1>9, <1>10, <1>11, <1>12, <1>13
     DEF Next, Callers, Run, Timers, Connection

\* The room send reserves under its lock is given back exactly once, whichever of
\* completion, refusal and stop comes first: admittedBytes and admittedCount are
\* always the bytes and the number of the packets on their way.
THEOREM AdmissionIsConserved == Spec => []AdmissionIsExact
<1>1. Init => RoomIsExact
  <2> SUFFICES ASSUME Init PROVE RoomIsExact
    OBVIOUS
  <2>1. Inside = {}
    BY DEF Init, Inside, Waiting
  <2>2. Cardinality(Inside) = 0 /\ SumFunctionOnSet(Size, Inside) = 0
    BY <2>1, FS_EmptySet, SumOfNone
  <2>3. 0 <= MaxAdmittedCount /\ 0 <= MaxAdmittedBytes
    BY LinkAssumption
  <2> QED
    BY <2>2, <2>3 DEF Init, RoomIsExact
<1>2. RoomIsExact => AdmissionIsExact
  BY DEF RoomIsExact, AdmissionIsExact, Inside, Waiting
<1> QED
  BY <1>1, <1>2, RoomStep, LinkIsSound, PTL DEF Spec
=============================================================================
