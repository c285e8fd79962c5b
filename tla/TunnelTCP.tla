----------------------------- MODULE TunnelTCP -----------------------------
(***************************************************************************)
(* TunnelTCP.swift: an active-open TCP connection with one segment in      *)
(* flight, against a TCP peer (external) over a network that loses,        *)
(* duplicates, delays and reorders.                                        *)
(*                                                                         *)
(* The connection's owner works on one queue, so every call is one step.   *)
(* Sequence numbers are taken modulo Modulus, as UInt32 is modulo 2^32.    *)
(* Bytes carry their own position in their stream: the app's n-th byte is  *)
(* n, and so is the peer's.                                                *)
(*                                                                         *)
(* wire holds every segment the connection ever sent, so that the peer may *)
(* take any of them at any time.  The other way the network needs no       *)
(* state: what arrives is any segment the peer can have sent up to now.    *)
(* Pure acknowledgements carry nothing that such a peer depends on and are *)
(* left out of wire.                                                       *)
(***************************************************************************)
EXTENDS Integers, Sequences

CONSTANTS
    Modulus,                   \* of the sequence numbers
    ISN, PeerISN,              \* the initial sequence numbers
    MSS,                       \* bytes of a segment
    ReceiveCapacity, SendCapacity,
    PeerWindows,               \* windows the peer advertises
    MaxRetries,
    MaxWritten, MaxPeerBytes   \* bounds of the two streams

ASSUME TCPAssumption ==
    /\ Modulus \in Nat /\ ISN \in 0 .. Modulus - 1 /\ PeerISN \in 0 .. Modulus - 1
    /\ MSS \in Nat \ {0} /\ ReceiveCapacity \in Nat \ {0} /\ SendCapacity \in Nat \ {0}
    /\ PeerWindows \subseteq Nat /\ MaxRetries \in Nat
    /\ MaxWritten \in Nat /\ MaxPeerBytes \in Nat
    /\ 2 * (MaxWritten + 3) < Modulus /\ 2 * (MaxPeerBytes + ReceiveCapacity + 3) < Modulus

VARIABLES
    tcp,                       \* the TunnelTCP object
    written,                   \* bytes the app has written
    received,                  \* bytes the app has read
    aborted,                   \* the app called abort
    wire,                      \* segments sent so far
    peer                       \* [sent, fin: what it sent; taken, end: what it took]

vars == <<tcp, written, received, aborted, wire, peer>>

-----------------------------------------------------------------------------
(* Sequence numbers.                                                       *)

Plus(a, n) == (a + n) % Modulus

\* Int32(bitPattern: a &- b)
Signed(a, b) == LET d == (a - b) % Modulus IN IF 2 * d >= Modulus THEN d - Modulus ELSE d
Before(a, b) == Signed(a, b) < 0

Smaller(x, y) == IF x < y THEN x ELSE y
Dropped(s, n) == SubSeq(s, n + 1, Len(s))
Taken(s, n) == SubSeq(s, 1, n)

-----------------------------------------------------------------------------
(* The connection.                                                         *)

Segment(sequence, kind, payload) == [sequence |-> sequence, kind |-> kind, payload |-> payload]
NoPending == [sequence |-> 0, kind |-> "none", payload |-> <<>>, retries |-> 0]
Pending(sequence, kind, payload) ==
    [sequence |-> sequence, kind |-> kind, payload |-> payload, retries |-> 0]
InFlight(t) == t.pending # NoPending

Window(t) == ReceiveCapacity - Len(t.receiveBuffer)

\* fail; abort leaves the object in the same way, but closed.
Ended(t, state) ==
    [t EXCEPT !.state = state, !.pending = NoPending, !.sendBuffer = <<>>, !.receiveBuffer = <<>>]

\* The connection becomes t, having sent the segments of out.
Becomes(t, out) == tcp' = t /\ wire' = wire \cup out

\* A new segment is sent and stays pending until it is acknowledged.
Launch(t, kind, payload) ==
    [tcp |-> [t EXCEPT !.pending = Pending(t.next, kind, payload),
                       !.next = Plus(@, Len(payload) + (IF kind = "data" THEN 0 ELSE 1))],
     out |-> {Segment(t.next, kind, payload)}]

\* Wrong form of Flush: a shut window starts no clock.
FlushForgetsWindow(t) ==
    LET count == Smaller(Smaller(Len(t.sendBuffer), MSS), t.peerWindow)
        fin == Launch(t, "fin", <<>>)
    IN  IF InFlight(t) \/ t.state \notin {"established", "closeWait"} \/ t.peerWindow = 0
           \/ (t.sendBuffer = <<>> /\ ~t.closeRequested) THEN [tcp |-> t, out |-> {}]
        ELSE IF t.sendBuffer # <<>>
        THEN Launch([t EXCEPT !.sendBuffer = Dropped(@, count)], "data", Taken(t.sendBuffer, count))
        ELSE [fin EXCEPT !.tcp.state = IF t.state = "closeWait" THEN "lastAck" ELSE "finWait1"]

\* flush: the next piece of data or, once asked to close, the FIN.
Flush(t) ==
    LET count == Smaller(Smaller(Len(t.sendBuffer), MSS), t.peerWindow)
        fin == Launch(t, "fin", <<>>)
    IN  IF InFlight(t) \/ t.state \notin {"established", "closeWait"}
           \/ (t.sendBuffer = <<>> /\ ~t.closeRequested) THEN [tcp |-> t, out |-> {}]
        ELSE IF t.peerWindow = 0 THEN [tcp |-> [t EXCEPT !.zeroWindow = TRUE], out |-> {}]
        ELSE IF t.sendBuffer # <<>>
        THEN Launch([t EXCEPT !.zeroWindow = FALSE, !.sendBuffer = Dropped(@, count)],
                    "data", Taken(t.sendBuffer, count))
        ELSE [fin EXCEPT !.tcp.state = IF t.state = "closeWait" THEN "lastAck" ELSE "finWait1"]
Flushes(t) == Becomes(Flush(t).tcp, Flush(t).out)

-----------------------------------------------------------------------------
(* The app's calls.                                                        *)

Connect ==
    /\ tcp.state = "idle"
    /\ LET l == Launch(tcp, "syn", <<>>) IN Becomes([l.tcp EXCEPT !.state = "synSent"], l.out)
    /\ UNCHANGED <<written, received, aborted, peer>>

Open == tcp.state \in {"established", "closeWait"} /\ ~tcp.closeRequested

\* write, of data that fits; other data is turned away with an error.
Write(n) ==
    /\ Open
    /\ written + n <= MaxWritten
    /\ n <= SendCapacity - Len(tcp.sendBuffer) - Len(tcp.pending.payload)
    /\ written' = written + n
    /\ Flushes([tcp EXCEPT !.sendBuffer = @ \o [i \in 1 .. n |-> written + i]])
    /\ UNCHANGED <<received, aborted, peer>>

Read(maximum) ==
    LET count == Smaller(maximum, Len(tcp.receiveBuffer))
    IN  /\ count > 0
        /\ received' = received \o Taken(tcp.receiveBuffer, count)
        /\ Becomes([tcp EXCEPT !.receiveBuffer = Dropped(@, count)], {})
        /\ UNCHANGED <<written, aborted, peer>>

ShutdownWrite ==
    /\ Open
    /\ Flushes([tcp EXCEPT !.closeRequested = TRUE])
    /\ UNCHANGED <<written, received, aborted, peer>>

Abort ==
    /\ tcp.state \notin {"closed", "failed"}
    /\ aborted' = TRUE
    /\ Becomes(Ended(tcp, "closed"), {})
    /\ UNCHANGED <<written, received, peer>>

-----------------------------------------------------------------------------
(* What arrives: [sequence, ack, window, payload, fin].                    *)

\* synSent accepts only the answer to its SYN, or a refusal of it.
ReceiveSynAck(window) ==
    /\ tcp.state = "synSent"
    /\ Becomes([tcp EXCEPT !.state = "established", !.una = tcp.next, !.pending = NoPending,
                           !.receiveNext = Plus(PeerISN, 1), !.peerWindow = window,
                           !.windowSequence = PeerISN, !.windowACK = tcp.next], {})
    /\ UNCHANGED <<written, received, aborted, peer>>

\* A reset counts in the exact place only.
ReceiveReset(sequence) ==
    /\ tcp.state \notin {"idle", "closed", "failed"}
    /\ tcp.state = "synSent" \/ sequence = tcp.receiveNext
    /\ Becomes(Ended(tcp, "failed"), {})
    /\ UNCHANGED <<written, received, aborted, peer>>

Offset(t, s) == Signed(s.sequence, t.receiveNext)
Length(s) == Len(s.payload) + (IF s.fin THEN 1 ELSE 0)
Acceptable(t, s) ==
    LET inside(x) == 0 <= x /\ x < Window(t)
        o == Offset(t, s)
    IN  /\ IF Window(t) = 0 THEN Length(s) = 0 /\ o = 0
           ELSE inside(o) \/ (Length(s) > 0 /\ inside(o + Length(s) - 1))
        /\ ~Before(t.next, s.ack)

\* The peer's window, unless the segment is older than the one it came from.
Windowed(t, s) ==
    IF Before(t.windowSequence, s.sequence)
       \/ (t.windowSequence = s.sequence /\ ~Before(s.ack, t.windowACK))
    THEN [t EXCEPT !.peerWindow = s.window, !.windowSequence = s.sequence, !.windowACK = s.ack,
                   !.zeroWindow = @ /\ s.window = 0]
    ELSE t

\* Wrong form of Trimmed: the byte kept for probes is not the last one.
TrimmedFirstByte(t, ack) ==
    LET amount == (ack - t.una) % Modulus
        p == t.pending
        partly == InFlight(t) /\ amount <= Len(p.payload)
    IN  [t EXCEPT !.una = ack,
                  !.lastAcknowledgedByte = IF partly THEN p.payload[1] ELSE @,
                  !.pending = IF ack = t.next THEN NoPending
                              ELSE IF partly THEN Pending(ack, p.kind, Dropped(p.payload, amount))
                              ELSE @]

\* The pending segment shrinks or is done with.
Trimmed(t, ack) ==
    LET amount == (ack - t.una) % Modulus
        p == t.pending
        partly == InFlight(t) /\ amount <= Len(p.payload)
    IN  [t EXCEPT !.una = ack,
                  !.lastAcknowledgedByte = IF partly THEN p.payload[amount] ELSE @,
                  !.pending = IF ack = t.next THEN NoPending
                              ELSE IF partly THEN Pending(ack, p.kind, Dropped(p.payload, amount))
                              ELSE @]

\* Wrong form of Advanced: nothing limits the wait for the peer's FIN.
AdvancedWithoutDeadline(t) ==
    IF InFlight(t) THEN t
    ELSE IF t.state = "finWait1" THEN [t EXCEPT !.state = "finWait2"]
    ELSE IF t.state = "closing" THEN [t EXCEPT !.state = "timeWait", !.closeDeadline = TRUE]
    ELSE IF t.state = "lastAck" THEN [t EXCEPT !.state = "closed"]
    ELSE t

\* With nothing left in flight a closing connection moves on.
Advanced(t) ==
    IF InFlight(t) THEN t
    ELSE IF t.state = "finWait1" THEN [t EXCEPT !.state = "finWait2", !.closeDeadline = TRUE]
    ELSE IF t.state = "closing" THEN [t EXCEPT !.state = "timeWait", !.closeDeadline = TRUE]
    ELSE IF t.state = "lastAck" THEN [t EXCEPT !.state = "closed"]
    ELSE t

Acknowledged(t, s) ==
    IF Before(s.ack, t.una) THEN t
    ELSE IF ~Before(t.una, s.ack) THEN Windowed(t, s)
    ELSE Advanced(Trimmed(Windowed(t, s), s.ack))

\* Wrong form of Accepted: what was received before is kept again.
AcceptedAgain(t, s) ==
    LET count == Smaller(Len(s.payload), Window(t))
    IN  [t EXCEPT !.receiveBuffer = @ \o Taken(s.payload, count), !.receiveNext = Plus(@, count)]

\* New bytes in order are kept as far as they fit.
Accepted(t, s) ==
    LET skipped == Smaller(Len(s.payload), IF Offset(t, s) < 0 THEN -Offset(t, s) ELSE 0)
        count == Smaller(Len(s.payload) - skipped, Window(t))
    IN  [t EXCEPT !.receiveBuffer = @ \o Taken(Dropped(s.payload, skipped), count),
                  !.receiveNext = Plus(@, count)]

\* Wrong form of Finished: the FIN overtakes bytes that did not fit.
FinishedEarly(t, before, s) ==
    IF s.fin /\ Offset(before, s) <= 0
    THEN [t EXCEPT !.receiveNext = Plus(@, 1),
                   !.state = CASE t.state = "established" -> "closeWait"
                               [] t.state = "finWait1" -> "closing"
                               [] t.state = "finWait2" -> "timeWait",
                   !.closeDeadline = @ \/ t.state = "finWait2"]
    ELSE t

\* The peer's FIN, if everything before it is there and the window has room;
\* t has taken the payload, before has not.
Finished(t, before, s) ==
    IF /\ s.fin
       /\ Plus(s.sequence, Len(s.payload)) = t.receiveNext
       /\ Length(s) + Offset(before, s) <= Window(before)
    THEN [t EXCEPT !.receiveNext = Plus(@, 1),
                   !.state = CASE t.state = "established" -> "closeWait"
                               [] t.state = "finWait1" -> "closing"
                               [] t.state = "finWait2" -> "timeWait",
                   !.closeDeadline = @ \/ t.state = "finWait2"]
    ELSE t

\* receive, of a segment that is neither SYN nor RST.
Receive(s) ==
    LET t == Acknowledged(tcp, s)
    IN  /\ tcp.state \notin {"idle", "closed", "failed", "synSent", "timeWait"}
        /\ Acceptable(tcp, s)
        /\ IF t.state = "closed" THEN Becomes(t, {})
           ELSE IF Offset(tcp, s) > 0 \/ t.state \in {"closeWait", "lastAck", "closing", "timeWait"}
           THEN Flushes(t)
           ELSE Flushes(Finished(Accepted(t, s), t, s))
        /\ UNCHANGED <<written, received, aborted, peer>>

-----------------------------------------------------------------------------
(* tick: one of the times that are set is over.                            *)

Ticking == tcp.state \notin {"closed", "failed"}

\* closeDeadline
TickCloses ==
    /\ Ticking /\ tcp.closeDeadline
    /\ Becomes(IF tcp.state = "timeWait" THEN [tcp EXCEPT !.state = "closed"]
               ELSE Ended(tcp, "failed"), {})
    /\ UNCHANGED <<written, received, aborted, peer>>

TickRetransmits ==
    /\ Ticking /\ InFlight(tcp)
    /\ LET p == tcp.pending
       IN  IF p.retries < MaxRetries
           THEN Becomes([tcp EXCEPT !.pending.retries = @ + 1], {Segment(p.sequence, p.kind, p.payload)})
           ELSE Becomes(Ended(tcp, "failed"), {})
    /\ UNCHANGED <<written, received, aborted, peer>>

TickGivesUpOnWindow ==
    /\ Ticking /\ tcp.zeroWindow
    /\ Becomes(Ended(tcp, "failed"), {})
    /\ UNCHANGED <<written, received, aborted, peer>>

\* The probe repeats the byte before next.
TickProbes ==
    /\ Ticking /\ tcp.zeroWindow
    /\ Becomes(tcp, {Segment(Plus(tcp.next, -1), "data", <<tcp.lastAcknowledgedByte>>)})
    /\ UNCHANGED <<written, received, aborted, peer>>

-----------------------------------------------------------------------------
(* The peer.                                                               *)

\* It has more to say, or nothing more.
PeerSends ==
    /\ ~peer.fin /\ peer.sent < MaxPeerBytes
    /\ peer' = [peer EXCEPT !.sent = @ + 1]
    /\ UNCHANGED <<tcp, written, received, aborted, wire>>
PeerFinishes ==
    /\ ~peer.fin
    /\ peer' = [peer EXCEPT !.fin = TRUE]
    /\ UNCHANGED <<tcp, written, received, aborted, wire>>

\* It takes what is new to it in a segment, or only the first part of that.
PeerTakes(s) ==
    LET old == Signed(Plus(ISN, 1 + Len(peer.taken)), s.sequence)
    IN  /\ ~peer.end /\ s.kind # "syn" /\ old >= 0
        /\ \/ \E n \in 1 .. Len(s.payload) - old :
                 peer' = [peer EXCEPT !.taken = @ \o Taken(Dropped(s.payload, old), n)]
           \/ s.kind = "fin" /\ old = 0 /\ peer' = [peer EXCEPT !.end = TRUE]
        /\ UNCHANGED <<tcp, written, received, aborted, wire>>

\* The segments it can have sent: any part of what it said, with any of the
\* acknowledgements it reached, and any window.
PeerBytes == [i \in 1 .. peer.sent |-> i]
Deliver ==
    \E from \in 0 .. peer.sent, acked \in 0 .. Len(peer.taken) + (IF peer.end THEN 1 ELSE 0),
       window \in PeerWindows :
        \E to \in from .. peer.sent, fin \in {FALSE, peer.fin} :
            /\ fin => to = peer.sent
            /\ to - from <= MSS
            /\ Receive([sequence |-> Plus(PeerISN, 1 + from), ack |-> Plus(ISN, 1 + acked),
                        window |-> window, payload |-> SubSeq(PeerBytes, from + 1, to), fin |-> fin])
DeliverSynAck ==
    /\ \E s \in wire : s.kind = "syn"
    /\ \E window \in PeerWindows : ReceiveSynAck(window)
DeliverReset ==
    \E from \in 0 .. peer.sent + (IF peer.fin THEN 1 ELSE 0) : ReceiveReset(Plus(PeerISN, 1 + from))

-----------------------------------------------------------------------------
Init ==
    /\ tcp = [state |-> "idle", una |-> ISN, next |-> ISN, receiveNext |-> 0,
              peerWindow |-> 0, windowSequence |-> 0, windowACK |-> 0,
              receiveBuffer |-> <<>>, sendBuffer |-> <<>>, pending |-> NoPending,
              closeRequested |-> FALSE, closeDeadline |-> FALSE, zeroWindow |-> FALSE,
              lastAcknowledgedByte |-> 0]
    /\ written = 0 /\ received = <<>> /\ aborted = FALSE /\ wire = {}
    /\ peer = [sent |-> 0, fin |-> FALSE, taken |-> <<>>, end |-> FALSE]

App ==
    \/ Connect \/ ShutdownWrite \/ Abort
    \/ \E n \in 1 .. MaxWritten : Write(n)
    \/ \E n \in 1 .. ReceiveCapacity : Read(n)
Tick == TickCloses \/ TickRetransmits \/ TickGivesUpOnWindow \/ TickProbes
Peer == PeerSends \/ PeerFinishes \/ \E s \in wire : PeerTakes(s)
Network == Deliver \/ DeliverSynAck \/ DeliverReset

Next == App \/ Tick \/ Peer \/ Network

Spec == Init /\ [][Next]_vars

\* The owner drives tick from a timer.  The last TIME-WAIT timeout happens
\* because a peer does not repeat its FIN for ever.
TickingSpec ==
    /\ Spec
    /\ WF_vars(TickCloses) /\ WF_vars(TickRetransmits) /\ WF_vars(TickGivesUpOnWindow)

-----------------------------------------------------------------------------
(* Properties.                                                             *)

States == {"idle", "synSent", "established", "closeWait", "finWait1", "finWait2",
           "closing", "lastAck", "timeWait", "closed", "failed"}
Numbers == 0 .. Modulus - 1

TypeOK ==
    /\ tcp.state \in States
    /\ {tcp.una, tcp.next, tcp.receiveNext, tcp.windowSequence, tcp.windowACK} \subseteq Numbers
    /\ Len(tcp.receiveBuffer) <= ReceiveCapacity
    /\ Len(tcp.sendBuffer) + Len(tcp.pending.payload) <= SendCapacity
    /\ tcp.pending.retries \in 0 .. MaxRetries
    /\ tcp.peerWindow \in PeerWindows \cup {0}
    /\ written \in 0 .. MaxWritten

Counting(s) == s = [i \in 1 .. Len(s) |-> i]
Over == tcp.state \in {"idle", "synSent", "closed", "failed"}

\* Both streams arrive in order, without a gap and once, whatever is lost,
\* repeated or reordered: the peer holds a prefix of what was written, and what
\* the app has read and may read is what receiveNext acknowledges.
StreamsArriveInOrder ==
    /\ Counting(peer.taken) /\ Len(peer.taken) <= written
    /\ Counting(received \o tcp.receiveBuffer)
    /\ ~Over => Signed(tcp.receiveNext, Plus(PeerISN, 1)) - Len(received \o tcp.receiveBuffer)
                  = IF tcp.state \in {"established", "finWait1", "finWait2"} THEN 0 ELSE 1

\* What is unacknowledged is exactly what is kept for retransmission, and the
\* bytes acknowledged, pending and waiting are all the bytes there are.
FlightIsKept ==
    LET fin == IF tcp.state \in {"finWait1", "finWait2", "closing", "lastAck", "timeWait"} THEN 1 ELSE 0
    IN  ~Over =>
        /\ (tcp.una # tcp.next) = InFlight(tcp)
        /\ InFlight(tcp) => tcp.pending.sequence = tcp.una
        /\ Signed(tcp.next, tcp.una) = Len(tcp.pending.payload) + (IF tcp.pending.kind = "fin" THEN 1 ELSE 0)
        /\ Signed(tcp.next, ISN) + Len(tcp.sendBuffer) = 1 + written + fin

\* Every segment, retransmission and window probe holds the bytes that were
\* written at its place in the stream.
SegmentsAreTrue ==
    \A s \in wire : \A i \in DOMAIN s.payload :
        LET place == Signed(Plus(s.sequence, i - 1), ISN) IN place > 0 => s.payload[i] = place

\* The end of the peer's stream is reported only behind its last byte.
PeerClosedMeansAll ==
    tcp.state \in {"closeWait", "closing", "lastAck", "timeWait"} =>
        peer.fin /\ Len(received \o tcp.receiveBuffer) = peer.sent

\* A connection that closes without abort or failure has delivered every byte
\* and its end.
CleanCloseMeansDelivered ==
    tcp.state \in {"finWait2", "timeWait"} \/ (tcp.state = "closed" /\ ~aborted) =>
        peer.end /\ Len(peer.taken) = written

\* What is sent is what was written, also when it is sent again.
SentIsTrue == FlightIsKept /\ SegmentsAreTrue

\* The end of either stream is reported only once the stream is whole.
EndsAreTrue == PeerClosedMeansAll /\ CleanCloseMeansDelivered

\* connect comes to a connection or fails.
ConnectConcludes == tcp.state = "synSent" ~> tcp.state # "synSent"

\* Once the app has closed its side the connection ends, also against a peer
\* that takes nothing or keeps its window shut.
CloseConcludes == tcp.closeRequested ~> tcp.state \in {"closed", "failed"}

\* Neither connect nor close waits for ever: tick bounds both.
ConnectionConcludes == ConnectConcludes /\ CloseConcludes

\* What was written is handed to the network, or the connection fails.
WrittenIsSent == tcp.sendBuffer # <<>> ~> tcp.sendBuffer = <<>>
=============================================================================
