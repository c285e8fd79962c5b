-------------------------- MODULE TunnelTCPProofs --------------------------
(***************************************************************************)
(* Proofs about TunnelTCP, for any modulus that both streams fit into, any *)
(* initial sequence numbers, buffers, segment sizes and windows.           *)
(*                                                                         *)
(* Sequence numbers wrap, positions in a stream do not.  The invariant     *)
(* gives each sequence number of the connection the position it stands     *)
(* for, counted from what the two buffers and the segment in flight hold,  *)
(* and the same for every segment that was ever sent.                      *)
(***************************************************************************)
EXTENDS TunnelTCP, SequenceTheorems, TLAPS

-----------------------------------------------------------------------------
(* The invariant.                                                          *)

Opens == {"established", "closeWait"}
Awaits == {"finWait1", "closing", "lastAck"}
Rests == {"finWait2", "timeWait"}
Fins == Awaits \cup Rests
Lives == Opens \cup Fins
Ends == {"closed", "failed"}
Hears == {"established", "finWait1", "finWait2"}

Pendings == [sequence : Numbers, kind : {"none", "syn", "data", "fin"}, payload : Seq(Nat), retries : Nat]
Segments == [sequence : Numbers, kind : {"syn", "data", "fin"}, payload : Seq(Nat)]
Connections ==
    [state : States, una : Numbers, next : Numbers, receiveNext : Numbers,
     peerWindow : Nat, windowSequence : Numbers, windowACK : Numbers,
     receiveBuffer : Seq(Nat), sendBuffer : Seq(Nat), pending : Pendings,
     closeRequested : BOOLEAN, closeDeadline : BOOLEAN, zeroWindow : BOOLEAN,
     lastAcknowledgedByte : Nat]
Peers == [sent : 0 .. MaxPeerBytes, fin : BOOLEAN, taken : Seq(Nat), end : BOOLEAN]

Types ==
    /\ tcp \in Connections /\ written \in 0 .. MaxWritten /\ received \in Seq(Nat)
    /\ aborted \in BOOLEAN /\ wire \subseteq Segments /\ peer \in Peers

One(condition) == IF condition THEN 1 ELSE 0

\* Positions: the FIN is behind the last byte, the first byte has position 1.
SentTo(t, w) == 1 + w + One(t.state \in Fins) - Len(t.sendBuffer)
AckedTo(t, w) == SentTo(t, w) - Len(t.pending.payload) - One(t.pending.kind = "fin")
TakenTo(p) == 1 + Len(p.taken) + One(p.end)

\* What is in flight in each state.
FlightOf(t) ==
    /\ t.state \in Opens => t.pending = NoPending \/ (t.pending.kind = "data" /\ t.pending.payload # <<>>)
    /\ t.state \in Awaits => t.pending.kind = "fin" /\ t.pending.payload = <<>>
    /\ t.state \in Rests => t.pending = NoPending
    /\ t.pending # NoPending => t.pending.sequence = t.una

\* The sender: its numbers stand for positions, and each buffer holds the bytes
\* of its positions.
Numbered(t, w) ==
    /\ Len(t.sendBuffer) <= w
    /\ t.next = Plus(ISN, SentTo(t, w)) /\ t.una = Plus(ISN, AckedTo(t, w))
    /\ t.state \in Fins => t.sendBuffer = <<>>
Stored(t, w) ==
    /\ \A i \in 1 .. Len(t.sendBuffer) : t.sendBuffer[i] = w - Len(t.sendBuffer) + i
    /\ \A i \in 1 .. Len(t.pending.payload) : t.pending.payload[i] = AckedTo(t, w) + i - 1
    /\ t.state \in Opens => t.lastAcknowledgedByte = AckedTo(t, w) - 1
    /\ t.zeroWindow => t.peerWindow = 0 /\ t.pending = NoPending /\ t.state \in Opens
Follows(t, w, p) == 1 <= AckedTo(t, w) /\ AckedTo(t, w) <= TakenTo(p) /\ TakenTo(p) <= SentTo(t, w)
Sends(t, w, p) == FlightOf(t) /\ Numbered(t, w) /\ Stored(t, w) /\ Follows(t, w, p)

\* The receiver: what it has is the peer's stream up to receiveNext.
Got(t, r) == r \o t.receiveBuffer
Holds(t, r, p) == Counting(Got(t, r)) /\ Len(Got(t, r)) <= p.sent /\ Len(t.receiveBuffer) <= ReceiveCapacity
Hearing(t, r, p) ==
    /\ t.receiveNext = Plus(PeerISN, 1 + Len(Got(t, r)) + One(t.state \notin Hears))
    /\ t.state \notin Hears => p.fin /\ Len(Got(t, r)) = p.sent

\* A segment that starts at position k carries the bytes of its positions.
Carries(s, k, w) ==
    /\ s.sequence = Plus(ISN, k)
    /\ s.kind # "data" => s.payload = <<>>
    /\ s.kind = "syn" => k = 0
    /\ s.kind = "fin" => k = 1 + w
    /\ s.kind = "data" => k + Len(s.payload) <= 1 + w
    /\ \A i \in 1 .. Len(s.payload) : k + i - 1 > 0 => s.payload[i] = k + i - 1
Reaches(s, k, t, w) ==
    /\ t.state \in {"idle", "synSent"} => s.kind = "syn"
    /\ s.kind = "fin" => t.state \in Fins \cup Ends
    /\ t.state \in Lives => k + Len(s.payload) + One(s.kind = "fin") <= SentTo(t, w)
Sound(s, t, w) == \E k \in 0 .. w + 1 : Carries(s, k, w) /\ Reaches(s, k, t, w)

Taking(p, t, w) ==
    /\ Counting(p.taken) /\ Len(p.taken) <= w
    /\ p.end => Len(p.taken) = w /\ t.state \in Fins \cup Ends

\* Before the connection is established nothing was said.
Silent(t, w, r, p) ==
    /\ w = 0 /\ r = <<>> /\ t.receiveBuffer = <<>> /\ t.sendBuffer = <<>> /\ p.taken = <<>> /\ ~p.end
    /\ t.lastAcknowledgedByte = 0 /\ ~t.zeroWindow
    /\ t.state = "idle" => t.next = ISN /\ t.pending = NoPending
    /\ t.state = "synSent" => /\ t.next = Plus(ISN, 1) /\ t.pending # NoPending
                              /\ t.pending.sequence = ISN /\ t.pending.kind = "syn" /\ t.pending.payload = <<>>

Connected(t, w, r, p) ==
    /\ t.state \in Lives => Sends(t, w, p) /\ Hearing(t, r, p)
    /\ t.state \in {"idle", "synSent"} => Silent(t, w, r, p)
    /\ Holds(t, r, p) /\ Taking(p, t, w)

Closed == tcp.state = "closed" /\ ~aborted => peer.end /\ Len(peer.taken) = written

TCPInv ==
    /\ Types /\ Connected(tcp, written, received, peer)
    /\ \A s \in wire : Sound(s, tcp, written)
    /\ Closed
-----------------------------------------------------------------------------
(* Sequence numbers and positions.                                         *)

LEMMA Facts ==
    /\ Modulus \in Nat \ {0} /\ ISN \in Numbers /\ PeerISN \in Numbers
    /\ MSS \in Nat \ {0} /\ ReceiveCapacity \in Nat \ {0} /\ SendCapacity \in Nat \ {0}
    /\ MaxWritten \in Nat /\ MaxPeerBytes \in Nat /\ MaxRetries \in Nat /\ PeerWindows \subseteq Nat
    /\ 2 * (MaxWritten + 3) < Modulus /\ 2 * (MaxPeerBytes + 3) < Modulus
    /\ \A x \in Numbers : x \in Int /\ 0 <= x /\ x < Modulus
  BY TCPAssumption DEF Numbers

LEMMA ProductGrows ==
    ASSUME NEW m \in Nat, NEW d \in Int
    PROVE  m * d \in Int /\ (1 <= d => m <= m * d) /\ (d <= -1 => m * d <= -m)
<1>1. m * d \in Int
  OBVIOUS
<1>2. ASSUME 1 <= d PROVE m <= m * d
  <2>1. m * d = m + m * (d - 1)
    OBVIOUS
  <2>2. d - 1 \in Nat
    BY <1>2
  <2>3. m * (d - 1) \in Nat
    BY <2>2
  <2> QED
    BY <1>1, <2>1, <2>3
<1>3. ASSUME d <= -1 PROVE m * d <= -m
  <2>1. m * d = -m - m * (-1 - d)
    OBVIOUS
  <2>2. -1 - d \in Nat
    BY <1>3
  <2>3. m * (-1 - d) \in Nat
    BY <2>2
  <2> QED
    BY <1>1, <2>1, <2>3
<1> QED
  BY <1>1, <1>2, <1>3

LEMMA Residue ==
    ASSUME NEW m \in Nat \ {0}, NEW x \in Int
    PROVE  x % m \in 0 .. m - 1 /\ \E q \in Int : x = m * q + (x % m)
<1>1. x % m \in 0 .. m - 1 /\ x \div m \in Int /\ x = m * (x \div m) + (x % m)
  OBVIOUS
<1> QED
  BY <1>1

LEMMA ResidueIsUnique ==
    ASSUME NEW m \in Nat \ {0}, NEW x \in Int, NEW q \in Int, NEW r \in 0 .. m - 1, x = m * q + r
    PROVE  x % m = r
<1> DEFINE y == x % m
<1>1. PICK p \in Int : x = m * p + y
  BY Residue
<1>2. y \in 0 .. m - 1
  BY Residue
<1> HIDE DEF y
<1>3. m * (p - q) = r - y
  <2>1. m * (p - q) = m * p - m * q /\ m * p \in Int /\ m * q \in Int
    OBVIOUS
  <2> QED
    BY <1>1, <1>2, <2>1
<1>4. p - q \in Int /\ r - y < m /\ r - y > -m
  BY <1>2
<1>5. p - q = 0
  <2>1. ~(1 <= p - q)
    BY <1>3, <1>4, ProductGrows
  <2>2. ~(p - q <= -1)
    BY <1>3, <1>4, ProductGrows
  <2> QED
    BY <1>4, <2>1, <2>2
<1>6. m * (p - q) = 0
  BY <1>5
<1>7. y = r
  BY <1>2, <1>3, <1>6
<1> QED
  BY <1>7 DEF y

\* Numbers that differ by a multiple of the modulus are the same.
LEMMA Congruent ==
    ASSUME NEW m \in Nat \ {0}, NEW x \in Int, NEW y \in Int, NEW d \in Int, x = y + m * d
    PROVE  x % m = y % m
<1> DEFINE r == y % m
<1>1. PICK q \in Int : y = m * q + r
  BY Residue
<1>2. r \in 0 .. m - 1
  BY Residue
<1> HIDE DEF r
<1>3. x = m * (q + d) + r
  <2>1. m * (q + d) = m * q + m * d /\ m * q \in Int /\ m * d \in Int
    OBVIOUS
  <2> QED
    BY <1>1, <1>2, <2>1
<1>4. q + d \in Int
  OBVIOUS
<1>5. x % m = r
  BY <1>2, <1>3, <1>4, ResidueIsUnique
<1> QED
  BY <1>5 DEF r

LEMMA PlusType ==
    ASSUME NEW b \in Numbers, NEW k \in Int
    PROVE  Plus(b, k) \in Numbers /\ Plus(b, k) \in Int
  BY Facts, Residue DEF Plus, Numbers

LEMMA PlusPlus ==
    ASSUME NEW b \in Numbers, NEW k \in Int, NEW l \in Int
    PROVE  Plus(Plus(b, k), l) = Plus(b, k + l)
<1> DEFINE y == (b + k) % Modulus
<1>1. b + k \in Int /\ b + (k + l) \in Int
  BY Facts
<1>2. PICK q \in Int : b + k = Modulus * q + y
  BY <1>1, Facts, Residue
<1>3. y \in Int
  BY <1>1, Facts, Residue
<1> HIDE DEF y
<1>4. b + (k + l) = (y + l) + Modulus * q
  <2>1. Modulus * q \in Int
    BY Facts
  <2> QED
    BY <1>2, <1>3, <2>1, Facts
<1>5. (b + (k + l)) % Modulus = (y + l) % Modulus
  <2>1. y + l \in Int /\ Modulus \in Nat \ {0}
    BY <1>3, Facts
  <2> QED
    BY <1>1, <1>4, <2>1, Congruent
<1> QED
  BY <1>5 DEF Plus, y

LEMMA PlusZero == ASSUME NEW b \in Numbers PROVE Plus(b, 0) = b
<1>1. b + 0 = Modulus * 0 + b /\ b \in 0 .. Modulus - 1 /\ 0 \in Int /\ b + 0 \in Int
  BY Facts DEF Numbers
<1>2. (b + 0) % Modulus = b
  BY <1>1, Facts, ResidueIsUnique
<1> QED
  BY <1>2 DEF Plus

\* The distance of two sequence numbers is the distance of their positions.
LEMMA AmountOf ==
    ASSUME NEW b \in Numbers, NEW k \in Int, NEW l \in Int
    PROVE  (Plus(b, k) - Plus(b, l)) % Modulus = (k - l) % Modulus
<1> DEFINE x == (b + k) % Modulus
           y == (b + l) % Modulus
<1>1. b + k \in Int /\ b + l \in Int
  BY Facts
<1>2. PICK p \in Int : b + k = Modulus * p + x
  BY <1>1, Facts, Residue
<1>3. PICK q \in Int : b + l = Modulus * q + y
  BY <1>1, Facts, Residue
<1>4. x \in Int /\ y \in Int
  <2>1. x \in 0 .. Modulus - 1
    BY <1>1, Facts, Residue
  <2>2. y \in 0 .. Modulus - 1
    BY <1>1, Facts, Residue
  <2> QED
    BY <2>1, <2>2
<1> HIDE DEF x, y
<1>5. k - l = (x - y) + Modulus * (p - q)
  <2>1. Modulus * (p - q) = Modulus * p - Modulus * q /\ Modulus * p \in Int /\ Modulus * q \in Int
    BY Facts
  <2> QED
    BY <1>2, <1>3, <1>4, <2>1, Facts
<1>6. (k - l) % Modulus = (x - y) % Modulus
  <2>1. k - l \in Int /\ x - y \in Int /\ p - q \in Int
    BY <1>4
  <2> QED
    BY <1>5, <2>1, Facts, Congruent
<1> QED
  BY <1>6 DEF Plus, x, y

LEMMA AmountIs ==
    ASSUME NEW b \in Numbers, NEW k \in Int, NEW l \in Int, l <= k, k - l < Modulus
    PROVE  (Plus(b, k) - Plus(b, l)) % Modulus = k - l
<1>1. k - l \in 0 .. Modulus - 1 /\ k - l = Modulus * 0 + (k - l) /\ k - l \in Int /\ 0 \in Int
  BY Facts
<1>2. (k - l) % Modulus = k - l
  BY <1>1, Facts, ResidueIsUnique
<1> QED
  BY <1>2, AmountOf

LEMMA SignedIs ==
    ASSUME NEW b \in Numbers, NEW k \in Int, NEW l \in Int, 2 * (k - l) < Modulus, 2 * (l - k) < Modulus
    PROVE  Signed(Plus(b, k), Plus(b, l)) = k - l
<1> DEFINE d == (Plus(b, k) - Plus(b, l)) % Modulus
<1>1. d = (k - l) % Modulus
  BY AmountOf
<1>2. Signed(Plus(b, k), Plus(b, l)) = IF 2 * d >= Modulus THEN d - Modulus ELSE d
  BY DEF Signed
<1> HIDE DEF d
<1>3. CASE l <= k
  <2>1. k - l \in 0 .. Modulus - 1 /\ k - l = Modulus * 0 + (k - l) /\ k - l \in Int /\ 0 \in Int
    BY <1>3, Facts
  <2>2. d = k - l
    BY <1>1, <2>1, Facts, ResidueIsUnique
  <2> QED
    BY <1>2, <2>1, <2>2, Facts
<1>4. CASE k < l
  <2>1. k - l + Modulus \in 0 .. Modulus - 1 /\ k - l \in Int /\ -1 \in Int
    BY <1>4, Facts
  <2>2. k - l = Modulus * (-1) + (k - l + Modulus)
    <3>1. Modulus * (-1) = -Modulus
      BY Facts
    <3> QED
      BY <3>1, Facts
  <2>3. d = k - l + Modulus
    BY <1>1, <2>1, <2>2, Facts, ResidueIsUnique
  <2> QED
    BY <1>2, <1>4, <2>1, <2>3, Facts
<1> QED
  BY <1>3, <1>4

\* Near positions have one number only if they are the same.
LEMMA PlusIsOne ==
    ASSUME NEW b \in Numbers, NEW k \in Int, NEW l \in Int, 2 * (k - l) < Modulus, 2 * (l - k) < Modulus
    PROVE  Plus(b, k) = Plus(b, l) <=> k = l
<1>1. ASSUME Plus(b, k) = Plus(b, l) PROVE k = l
  <2>1. Signed(Plus(b, k), Plus(b, l)) = k - l /\ Signed(Plus(b, l), Plus(b, l)) = l - l
    BY Facts, SignedIs
  <2> QED
    BY <1>1, <2>1
<1> QED
  BY <1>1
-----------------------------------------------------------------------------
(* Parts of a stream.                                                      *)

LEMMA TakenShape ==
    ASSUME NEW V, NEW s \in Seq(V), NEW n \in 0 .. Len(s)
    PROVE  /\ Taken(s, n) \in Seq(V) /\ Len(Taken(s, n)) = n
           /\ \A i \in 1 .. n : Taken(s, n)[i] = s[i]
<1>1. Len(s) \in Nat /\ \A i \in 1 .. n : s[i] \in V
  BY LenProperties, ElementOfSeq
<1>2. Taken(s, n) = [i \in 1 .. n |-> s[i]]
  BY <1>1 DEF Taken
<1> QED
  BY <1>1, <1>2

LEMMA DroppedShape ==
    ASSUME NEW V, NEW s \in Seq(V), NEW n \in 0 .. Len(s)
    PROVE  /\ Dropped(s, n) \in Seq(V) /\ Len(Dropped(s, n)) = Len(s) - n
           /\ \A i \in 1 .. Len(s) - n : Dropped(s, n)[i] = s[n + i]
<1>1. Len(s) \in Nat /\ \A i \in 1 .. Len(s) : s[i] \in V
  BY LenProperties, ElementOfSeq
<1>2. Dropped(s, n) = [i \in 1 .. Len(s) - n |-> s[n + i]]
  <2>1. \A i \in Int : i + (n + 1) - 1 = n + i
    OBVIOUS
  <2>2. Dropped(s, n) = [i \in 1 .. Len(s) - (n + 1) + 1 |-> s[i + (n + 1) - 1]]
    BY <1>1 DEF Dropped
  <2>3. Len(s) - (n + 1) + 1 = Len(s) - n
    BY <1>1
  <2> QED
    BY <1>1, <2>1, <2>2, <2>3
<1>3. Len(s) - n \in Nat /\ \A i \in 1 .. Len(s) - n : s[n + i] \in V
  BY <1>1
<1> QED
  BY <1>2, <1>3

LEMMA JoinShape ==
    ASSUME NEW V, NEW a \in Seq(V), NEW b \in Seq(V)
    PROVE  /\ a \o b \in Seq(V) /\ Len(a \o b) = Len(a) + Len(b)
           /\ \A i \in 1 .. Len(a) : (a \o b)[i] = a[i]
           /\ \A i \in 1 .. Len(b) : (a \o b)[Len(a) + i] = b[i]
<1>1. Len(a) \in Nat /\ Len(b) \in Nat
  OBVIOUS
<1>2. a \o b \in Seq(V) /\ Len(a \o b) = Len(a) + Len(b)
  BY ConcatProperties
<1>3. \A i \in 1 .. Len(a) + Len(b) : (a \o b)[i] = IF i <= Len(a) THEN a[i] ELSE b[i - Len(a)]
  BY ConcatProperties
<1>4. ASSUME NEW i \in 1 .. Len(b) PROVE (a \o b)[Len(a) + i] = b[i]
  <2>1. Len(a) + i \in 1 .. Len(a) + Len(b) /\ ~(Len(a) + i <= Len(a)) /\ (Len(a) + i) - Len(a) = i
    BY <1>1
  <2> QED
    BY <1>3, <2>1
<1> QED
  BY <1>1, <1>2, <1>3, <1>4

\* Both parts together are the whole.
LEMMA Divided ==
    ASSUME NEW V, NEW s \in Seq(V), NEW n \in 0 .. Len(s)
    PROVE  Taken(s, n) \o Dropped(s, n) = s
<1> DEFINE a == Taken(s, n)
           b == Dropped(s, n)
<1>1. a \in Seq(V) /\ Len(a) = n /\ \A i \in 1 .. n : a[i] = s[i]
  BY TakenShape
<1>2. b \in Seq(V) /\ Len(b) = Len(s) - n /\ \A i \in 1 .. Len(s) - n : b[i] = s[n + i]
  BY DroppedShape
<1> HIDE DEF a, b
<1>3. Len(s) \in Nat /\ n \in Nat
  BY LenProperties
<1>4. /\ a \o b \in Seq(V) /\ Len(a \o b) = Len(a) + Len(b)
      /\ \A i \in 1 .. Len(a) : (a \o b)[i] = a[i]
      /\ \A i \in 1 .. Len(b) : (a \o b)[Len(a) + i] = b[i]
  BY <1>1, <1>2, JoinShape
<1>5. Len(a \o b) = Len(s)
  BY <1>1, <1>2, <1>3, <1>4
<1>6. ASSUME NEW i \in 1 .. Len(s) PROVE (a \o b)[i] = s[i]
  <2>1. CASE i \in 1 .. n
    BY <1>1, <1>4, <2>1
  <2>2. CASE i \in n + 1 .. Len(s)
    <3>1. i - n \in 1 .. Len(s) - n /\ n + (i - n) = i
      BY <1>3, <2>2
    <3>2. (a \o b)[n + (i - n)] = b[i - n] /\ b[i - n] = s[n + (i - n)]
      BY <1>1, <1>2, <1>4, <3>1
    <3> QED
      BY <3>1, <3>2
  <2>3. i \in 1 .. n \/ i \in n + 1 .. Len(s)
    BY <1>3
  <2> QED
    BY <2>1, <2>2, <2>3
<1>7. a \o b = s
  BY <1>4, <1>5, <1>6, SeqEqual
<1> QED
  BY <1>7 DEF a, b

LEMMA Moves ==
    ASSUME NEW V, NEW r \in Seq(V), NEW s \in Seq(V), NEW n \in 0 .. Len(s)
    PROVE  (r \o Taken(s, n)) \o Dropped(s, n) = r \o s
<1> DEFINE a == Taken(s, n)
           b == Dropped(s, n)
<1>1. a \in Seq(V) /\ b \in Seq(V)
  BY TakenShape, DroppedShape
<1>2. a \o b = s
  BY Divided
<1> HIDE DEF a, b
<1>3. (r \o a) \o b = r \o (a \o b)
  BY <1>1, ConcatAssociative, SMTT(20)
<1>4. (r \o a) \o b = r \o s
  BY <1>2, <1>3
<1> QED
  BY <1>4 DEF a, b

LEMMA LengthFacts ==
    ASSUME NEW V, NEW s \in Seq(V)
    PROVE  Len(s) \in Nat /\ (Len(s) = 0 <=> s = <<>>)
  BY EmptySeq, LenProperties

\* Each byte is its own position.
LEMMA CountingIs ==
    ASSUME NEW V, NEW s \in Seq(V)
    PROVE  Counting(s) <=> \A i \in 1 .. Len(s) : s[i] = i
<1>1. s = [i \in 1 .. Len(s) |-> s[i]]
  BY LenProperties
<1>2. ASSUME \A i \in 1 .. Len(s) : s[i] = i PROVE Counting(s)
  BY <1>1, <1>2 DEF Counting
<1>3. ASSUME Counting(s), NEW i \in 1 .. Len(s) PROVE s[i] = i
  BY <1>3, Zenon DEF Counting
<1> QED
  BY <1>2, <1>3

LEMMA OneIs == ASSUME NEW c PROVE One(c) \in {0, 1} /\ (c => One(c) = 1) /\ (~c => One(c) = 0)
  BY DEF One

-----------------------------------------------------------------------------
(* The connection's record.                                                *)

StreamPositions(t, w, p) ==
    /\ SentTo(t, w) \in Nat /\ AckedTo(t, w) \in Nat /\ TakenTo(p) \in Nat
    /\ 1 <= AckedTo(t, w) /\ AckedTo(t, w) <= TakenTo(p) /\ TakenTo(p) <= SentTo(t, w)
    /\ SentTo(t, w) <= w + 2

LEMMA PositionFacts ==
    ASSUME NEW t \in Connections, NEW w \in 0 .. MaxWritten, NEW p \in Peers, Sends(t, w, p)
    PROVE  StreamPositions(t, w, p)
<1>1. /\ t.sendBuffer \in Seq(Nat) /\ t.pending \in Pendings /\ p.taken \in Seq(Nat)
  BY DEF Connections, Peers
<1>2. Len(t.sendBuffer) \in Nat /\ Len(p.taken) \in Nat /\ Len(t.pending.payload) \in Nat
  BY <1>1 DEF Pendings
<1>3. One(t.state \in Fins) \in {0, 1} /\ One(p.end) \in {0, 1} /\ One(t.pending.kind = "fin") \in {0, 1}
  BY OneIs
<1>4. Len(t.sendBuffer) <= w
  BY DEF Sends, Numbered
<1> DEFINE a == One(t.state \in Fins)
           b == One(p.end)
           c == One(t.pending.kind = "fin")
<1>5. /\ SentTo(t, w) = 1 + w + a - Len(t.sendBuffer)
      /\ AckedTo(t, w) = SentTo(t, w) - Len(t.pending.payload) - c
      /\ TakenTo(p) = 1 + Len(p.taken) + b
  BY DEF SentTo, AckedTo, TakenTo
<1>6. a \in {0, 1} /\ b \in {0, 1} /\ c \in {0, 1}
  BY <1>3
<1> HIDE DEF a, b, c
<1>7. Follows(t, w, p) /\ w \in Nat
  BY Facts DEF Sends
<1>8. SentTo(t, w) \in Int /\ AckedTo(t, w) \in Int /\ TakenTo(p) \in Int /\ SentTo(t, w) <= w + 2
  <2>1. SentTo(t, w) \in Int /\ SentTo(t, w) <= w + 2
    <3> DEFINE l == Len(t.sendBuffer)
    <3>1. l \in Nat /\ SentTo(t, w) = 1 + w + a - l /\ a \in Int /\ a <= 1 /\ w \in Nat
      BY <1>2, <1>5, <1>6, <1>7
    <3> HIDE DEF l
    <3> QED
      BY <3>1
  <2>2. AckedTo(t, w) \in Int
    BY <1>2, <1>5, <1>6, <2>1
  <2>3. TakenTo(p) \in Int
    BY <1>2, <1>5, <1>6
  <2> QED
    BY <2>1, <2>2, <2>3
<1> QED
  BY <1>7, <1>8 DEF Follows, StreamPositions

LEMMA NoPendingIs == NoPending \in Pendings /\ NoPending.payload = <<>> /\ NoPending.kind = "none"
<1>1. 0 \in Numbers /\ 0 \in Nat /\ <<>> \in Seq(Nat)
  BY Facts, EmptySeq DEF Numbers
<1> QED
  BY <1>1 DEF NoPending, Pendings

LEMMA PendingIs ==
    ASSUME NEW n \in Numbers, NEW k \in {"syn", "data", "fin"}, NEW b \in Seq(Nat)
    PROVE  /\ Pending(n, k, b) \in Pendings /\ Pending(n, k, b) # NoPending
           /\ Pending(n, k, b).sequence = n /\ Pending(n, k, b).kind = k /\ Pending(n, k, b).payload = b
<1>1. 0 \in Nat
  OBVIOUS
<1>2. Pending(n, k, b) \in Pendings
  BY <1>1 DEF Pending, Pendings
<1>3. Pending(n, k, b).sequence = n /\ Pending(n, k, b).kind = k /\ Pending(n, k, b).payload = b
  BY DEF Pending
<1>4. Pending(n, k, b) # NoPending
  BY <1>3, NoPendingIs
<1> QED
  BY <1>2, <1>3, <1>4

LEMMA SegmentIs ==
    ASSUME NEW n \in Numbers, NEW k \in {"syn", "data", "fin"}, NEW b \in Seq(Nat)
    PROVE  /\ Segment(n, k, b) \in Segments
           /\ Segment(n, k, b).sequence = n /\ Segment(n, k, b).kind = k /\ Segment(n, k, b).payload = b
  BY DEF Segment, Segments

\* What neither a launch nor a flush touches.
Kept(t, f) ==
    /\ f.una = t.una /\ f.receiveNext = t.receiveNext /\ f.receiveBuffer = t.receiveBuffer
    /\ f.peerWindow = t.peerWindow /\ f.lastAcknowledgedByte = t.lastAcknowledgedByte

\* flush hands the next bytes, n of them, to the network.
FlushesData(t, f, out, n) ==
    LET b == Taken(t.sendBuffer, n)
    IN  /\ t.state \in Opens /\ ~InFlight(t) /\ n \in 1 .. Len(t.sendBuffer)
        /\ f.state = t.state /\ f.sendBuffer = Dropped(t.sendBuffer, n) /\ ~f.zeroWindow
        /\ f.pending = Pending(t.next, "data", b) /\ f.next = Plus(t.next, n)
        /\ out = {Segment(t.next, "data", b)}

FlushesFin(t, f, out) ==
    /\ t.state \in Opens /\ ~InFlight(t) /\ t.sendBuffer = <<>> /\ t.peerWindow # 0
    /\ f.state = (IF t.state = "closeWait" THEN "lastAck" ELSE "finWait1")
    /\ f.sendBuffer = <<>> /\ f.zeroWindow = t.zeroWindow
    /\ f.pending = Pending(t.next, "fin", <<>>) /\ f.next = Plus(t.next, 1)
    /\ out = {Segment(t.next, "fin", <<>>)}

\* A shut window starts the clock of probes.
FlushesNothing(t, f, out) ==
    /\ f.state = t.state /\ f.sendBuffer = t.sendBuffer /\ f.pending = t.pending /\ f.next = t.next
    /\ out = {}
    /\ f.zeroWindow => t.zeroWindow \/ (t.peerWindow = 0 /\ t.state \in Opens /\ ~InFlight(t))

LEMMA ConnectionFields ==
    ASSUME NEW t \in Connections
    PROVE  /\ t.sendBuffer \in Seq(Nat) /\ t.receiveBuffer \in Seq(Nat) /\ t.pending \in Pendings
           /\ t.pending.payload \in Seq(Nat) /\ t.pending.sequence \in Numbers
           /\ t.next \in Numbers /\ t.una \in Numbers /\ t.receiveNext \in Numbers /\ t.peerWindow \in Nat
           /\ t.state \in States
           /\ Len(t.sendBuffer) \in Nat /\ Len(t.receiveBuffer) \in Nat /\ Len(t.pending.payload) \in Nat
  BY DEF Connections, Pendings

LEMMA FlushShape ==
    ASSUME NEW t \in Connections
    PROVE  LET f == Flush(t).tcp
               out == Flush(t).out
           IN  /\ f \in Connections /\ Kept(t, f)
               /\ \/ FlushesNothing(t, f, out) \/ FlushesFin(t, f, out)
                  \/ \E n \in Nat : FlushesData(t, f, out, n)
<1> DEFINE idle == InFlight(t) \/ t.state \notin Opens \/ (t.sendBuffer = <<>> /\ ~t.closeRequested)
           count == Smaller(Smaller(Len(t.sendBuffer), MSS), t.peerWindow)
           payload == Taken(t.sendBuffer, count)
           less == [t EXCEPT !.zeroWindow = FALSE, !.sendBuffer = Dropped(@, count)]
           data == Launch(less, "data", payload)
           fin == Launch(t, "fin", <<>>)
           closing == IF t.state = "closeWait" THEN "lastAck" ELSE "finWait1"
<1>1. Flush(t) = IF idle THEN [tcp |-> t, out |-> {}]
                 ELSE IF t.peerWindow = 0 THEN [tcp |-> [t EXCEPT !.zeroWindow = TRUE], out |-> {}]
                 ELSE IF t.sendBuffer # <<>> THEN data
                 ELSE [fin EXCEPT !.tcp.state = closing]
  BY DEF Flush, Opens
<1>f. /\ t.sendBuffer \in Seq(Nat) /\ t.receiveBuffer \in Seq(Nat) /\ t.pending \in Pendings /\ t.peerWindow \in Nat
      /\ t.next \in Numbers /\ Len(t.sendBuffer) \in Nat
  BY ConnectionFields
<1>2. CASE idle
  <2>1. Flush(t).tcp = t /\ Flush(t).out = {}
    BY <1>1, <1>2
  <2> QED
    BY <2>1 DEF FlushesNothing, Kept
<1>3. CASE ~idle /\ t.peerWindow = 0
  <2>1. Flush(t).tcp = [t EXCEPT !.zeroWindow = TRUE] /\ Flush(t).out = {}
    BY <1>1, <1>3
  <2>2. [t EXCEPT !.zeroWindow = TRUE] \in Connections
    BY Zenon DEF Connections
  <2>3. ~InFlight(t) /\ t.state \in Opens
    BY <1>3
  <2>4. FlushesNothing(t, Flush(t).tcp, Flush(t).out) /\ Kept(t, Flush(t).tcp)
    BY <1>3, <2>1, <2>3 DEF FlushesNothing, Kept, Connections
  <2> QED
    BY <2>1, <2>2, <2>4
<1>4. CASE ~idle /\ t.peerWindow # 0 /\ t.sendBuffer # <<>>
  <2>1. Flush(t) = data /\ ~InFlight(t) /\ t.state \in Opens
    BY <1>1, <1>4
  <2>2. count \in 1 .. Len(t.sendBuffer)
    <3>1. Len(t.sendBuffer) # 0
      BY <1>4, <1>f, LengthFacts
    <3> QED
      BY <1>4, <1>f, <3>1, Facts DEF Smaller
  <2> HIDE DEF count
  <2>3. payload \in Seq(Nat) /\ Len(payload) = count /\ Dropped(t.sendBuffer, count) \in Seq(Nat)
    <3>1. count \in 0 .. Len(t.sendBuffer)
      BY <2>2
    <3> QED
      BY <1>f, <3>1, TakenShape, DroppedShape
  <2> HIDE DEF payload
  <2> DEFINE rest == Dropped(t.sendBuffer, count)
             p == Pending(t.next, "data", payload)
             n == Plus(t.next, count)
  <2>4. less = [t EXCEPT !.zeroWindow = FALSE, !.sendBuffer = rest]
    OBVIOUS
  <2>5. p \in Pendings /\ n \in Numbers
    <3>1. p \in Pendings
      BY <1>f, <2>3, PendingIs
    <3>2. count \in Int
      BY <2>2
    <3>3. n \in Numbers
      BY <1>f, <3>2, PlusType
    <3> QED
      BY <3>1, <3>3
  <2>6. less.next = t.next
    BY DEF Connections
  <2>7. Len(payload) + (IF "data" = "data" THEN 0 ELSE 1) = count /\ count \in Nat
    BY <2>2, <2>3
  <2>8. data.tcp = [less EXCEPT !.pending = p, !.next = n] /\ data.out = {Segment(t.next, "data", payload)}
    BY <2>6, <2>7 DEF Launch
  <2> HIDE DEF rest, p, n, data
  <2>9. less \in Connections
    BY <2>3, <2>4, Zenon DEF Connections, rest
  <2>10. less.state = t.state /\ less.sendBuffer = rest /\ less.zeroWindow = FALSE /\ Kept(t, less)
    BY <2>4 DEF Connections, Kept
  <2> HIDE DEF less
  <2>11. data.tcp \in Connections
    BY <2>5, <2>8, <2>9, Zenon DEF Connections
  <2>12. /\ data.tcp.state = t.state /\ data.tcp.sendBuffer = rest /\ data.tcp.zeroWindow = FALSE
         /\ data.tcp.pending = p /\ data.tcp.next = n /\ Kept(t, data.tcp)
    BY <2>8, <2>9, <2>10 DEF Connections, Kept
  <2>13. FlushesData(t, data.tcp, data.out, count)
    BY <2>1, <2>2, <2>8, <2>12 DEF FlushesData, rest, p, n, payload
  <2> QED
    BY <2>1, <2>2, <2>11, <2>12, <2>13
<1>5. CASE ~idle /\ t.peerWindow # 0 /\ t.sendBuffer = <<>>
  <2>1. Flush(t) = [fin EXCEPT !.tcp.state = closing] /\ ~InFlight(t) /\ t.state \in Opens
    BY <1>1, <1>5
  <2> DEFINE p == Pending(t.next, "fin", <<>>)
             n == Plus(t.next, 1)
             s == Segment(t.next, "fin", <<>>)
  <2>2. p \in Pendings /\ n \in Numbers /\ closing \in States
    <3>1. <<>> \in Seq(Nat)
      BY EmptySeq
    <3>2. p \in Pendings
      BY <1>f, <3>1, PendingIs
    <3>3. n \in Numbers
      BY <1>f, PlusType
    <3>4. closing \in States
      BY DEF States
    <3> QED
      BY <3>2, <3>3, <3>4
  <2>3. Len(<<>>) + (IF "fin" = "data" THEN 0 ELSE 1) = 1
    OBVIOUS
  <2> DEFINE c == [t EXCEPT !.pending = p, !.next = n]
  <2>4. fin = [tcp |-> c, out |-> {s}]
    BY <2>3 DEF Launch
  <2> HIDE DEF p, n, s, closing
  <2>5. c \in Connections
    BY <2>2, Zenon DEF Connections
  <2>6. /\ c.state = t.state /\ c.sendBuffer = t.sendBuffer /\ c.zeroWindow = t.zeroWindow
        /\ c.pending = p /\ c.next = n /\ Kept(t, c)
    BY DEF Connections, Kept
  <2> HIDE DEF c, fin
  <2> DEFINE f == [c EXCEPT !.state = closing]
  <2>7. Flush(t).tcp = f /\ Flush(t).out = {s}
    BY <2>1, <2>4
  <2>8. f \in Connections
    BY <2>2, <2>5, Zenon DEF Connections
  <2>9. /\ f.state = closing /\ f.sendBuffer = t.sendBuffer /\ f.zeroWindow = t.zeroWindow
        /\ f.pending = p /\ f.next = n /\ Kept(t, f)
    BY <2>5, <2>6 DEF Connections, Kept
  <2> HIDE DEF f
  <2>10. FlushesFin(t, f, {s})
    BY <1>5, <2>1, <2>9 DEF FlushesFin, p, n, s, closing
  <2> QED
    BY <2>7, <2>8, <2>9, <2>10
<1> QED
  BY <1>2, <1>3, <1>4, <1>5
-----------------------------------------------------------------------------
(* What is sent.                                                           *)

\* The connection moves on without a segment of its past becoming wrong.
Onward(t, f, w) ==
    /\ f.state \in {"idle", "synSent"} => t.state \in {"idle", "synSent"}
    /\ t.state \in Fins \cup Ends => f.state \in Fins \cup Ends
    /\ f.state \in Lives => t.state \in Lives /\ SentTo(t, w) <= SentTo(f, w) /\ SentTo(t, w) \in Nat /\ SentTo(f, w) \in Nat

LEMMA SoundStays ==
    ASSUME NEW s \in Segments, NEW t, NEW f, NEW w \in 0 .. MaxWritten, Sound(s, t, w), Onward(t, f, w)
    PROVE  Sound(s, f, w)
<1>1. PICK k \in 0 .. w + 1 : Carries(s, k, w) /\ Reaches(s, k, t, w)
  BY DEF Sound
<1>2. Len(s.payload) \in Nat /\ One(s.kind = "fin") \in {0, 1}
  BY OneIs DEF Segments
<1>3. ASSUME f.state \in Lives PROVE k + Len(s.payload) + One(s.kind = "fin") <= SentTo(f, w)
  <2>1. /\ k + Len(s.payload) + One(s.kind = "fin") <= SentTo(t, w)
        /\ SentTo(t, w) <= SentTo(f, w) /\ SentTo(t, w) \in Nat /\ SentTo(f, w) \in Nat
    BY <1>1, <1>3 DEF Reaches, Onward
  <2> DEFINE o == One(s.kind = "fin")
  <2>2. o \in Int /\ k \in Int
    BY <1>2
  <2> HIDE DEF o
  <2> QED
    BY <1>2, <2>1, <2>2 DEF o
<1>4. Reaches(s, k, f, w)
  BY <1>1, <1>3 DEF Reaches, Onward
<1> QED
  BY <1>1, <1>4 DEF Sound

LEMMA StatesAre ==
    /\ \A x \in Opens : x \in Lives /\ x \notin Fins /\ x \notin Ends /\ x \notin {"idle", "synSent"}
    /\ \A x \in Fins : x \in Lives /\ x \notin Opens /\ x \notin Ends /\ x \notin {"idle", "synSent"}
    /\ \A x \in Lives : x \in Opens \/ x \in Fins
    /\ \A x \in Ends : x \notin Lives /\ x \notin {"idle", "synSent"}
    /\ \A x \in Awaits : x \in Fins /\ x \notin Rests
    /\ \A x \in Rests : x \in Fins
    /\ "established" \in Opens /\ "closeWait" \in Opens /\ "finWait1" \in Awaits /\ "lastAck" \in Awaits
    /\ "closing" \in Awaits /\ "finWait2" \in Rests /\ "timeWait" \in Rests
  BY DEF Opens, Awaits, Rests, Fins, Lives, Ends

\* Nothing in flight: all that was sent is acknowledged.
LEMMA NothingInFlight ==
    ASSUME NEW t \in Connections, NEW w \in 0 .. MaxWritten, NEW p \in Peers, Sends(t, w, p), t.pending = NoPending
    PROVE  AckedTo(t, w) = SentTo(t, w) /\ t.una = t.next
<1>1. Len(t.pending.payload) = 0 /\ One(t.pending.kind = "fin") = 0
  <2>1. t.pending.kind # "fin" /\ t.pending.payload = <<>>
    BY NoPendingIs
  <2>2. One(t.pending.kind = "fin") = 0
    BY <2>1, OneIs
  <2>3. Len(<<>>) = 0
    BY EmptySeq
  <2> QED
    BY <2>1, <2>2, <2>3
<1>2. SentTo(t, w) \in Nat
  BY PositionFacts DEF StreamPositions
<1>3. AckedTo(t, w) = SentTo(t, w)
  BY <1>1, <1>2 DEF AckedTo
<1> QED
  BY <1>3 DEF Sends, Numbered

LEMMA NothingAcked ==
    ASSUME NEW t, NEW w, t.pending = NoPending, SentTo(t, w) \in Int
    PROVE  AckedTo(t, w) = SentTo(t, w)
<1>1. t.pending.kind # "fin" /\ t.pending.payload = <<>>
  BY NoPendingIs
<1>2. One(t.pending.kind = "fin") = 0
  BY <1>1 DEF One
<1>3. Len(<<>>) = 0
  BY EmptySeq
<1> QED
  BY <1>1, <1>2, <1>3 DEF AckedTo

LEMMA OpenPositions ==
    ASSUME NEW t \in Connections, NEW w \in Nat, t.state \in Opens
    PROVE  SentTo(t, w) = 1 + w - Len(t.sendBuffer) /\ SentTo(t, w) \in Int
<1>1. One(t.state \in Fins) = 0
  <2>1. ~(t.state \in Fins)
    BY StatesAre
  <2> QED
    BY <2>1 DEF One
<1>2. Len(t.sendBuffer) \in Nat
  BY ConnectionFields
<1>3. SentTo(t, w) = 1 + w + 0 - Len(t.sendBuffer)
  BY <1>1 DEF SentTo
<1> DEFINE l == Len(t.sendBuffer)
           x == SentTo(t, w)
<1>4. l \in Nat /\ x = 1 + w + 0 - l
  BY <1>2, <1>3
<1> HIDE DEF l, x
<1>5. x = 1 + w - l /\ x \in Int
  BY <1>4
<1> QED
  BY <1>5 DEF l, x

LEMMA DataPositions ==
    ASSUME NEW t \in Connections, NEW w, t.pending.kind = "data", SentTo(t, w) \in Int
    PROVE  AckedTo(t, w) = SentTo(t, w) - Len(t.pending.payload)
<1>1. One(t.pending.kind = "fin") = 0
  <2>1. ~(t.pending.kind = "fin")
    OBVIOUS
  <2> QED
    BY <2>1, OneIs
<1>2. Len(t.pending.payload) \in Nat
  BY ConnectionFields
<1>3. AckedTo(t, w) = SentTo(t, w) - Len(t.pending.payload) - 0
  BY <1>1 DEF AckedTo
<1> QED
  BY <1>2, <1>3

LEMMA FinPositions ==
    ASSUME NEW t \in Connections, NEW w \in Nat, t.state \in Fins, t.sendBuffer = <<>>
    PROVE  SentTo(t, w) = 2 + w
<1>1. One(t.state \in Fins) = 1
  BY OneIs
<1>2. Len(t.sendBuffer) = 0
  BY EmptySeq
<1>3. SentTo(t, w) = 1 + w + 1 - 0
  BY <1>1, <1>2 DEF SentTo
<1> QED
  BY <1>3

LEMMA DataFlushed ==
    ASSUME NEW t \in Connections, NEW w \in 0 .. MaxWritten, NEW p \in Peers, Sends(t, w, p),
           NEW f \in Connections, NEW out, Kept(t, f), NEW n \in Nat, FlushesData(t, f, out, n)
    PROVE  /\ Sends(f, w, p) /\ Onward(t, f, w)
           /\ \A s \in out : s \in Segments /\ Sound(s, f, w)
<1> DEFINE b == Taken(t.sendBuffer, n)
           L == Len(t.sendBuffer)
           k == SentTo(t, w)
<1>1. /\ t.state \in Opens /\ t.pending = NoPending /\ n \in 1 .. L
      /\ f.state = t.state /\ f.sendBuffer = Dropped(t.sendBuffer, n) /\ ~f.zeroWindow
      /\ f.pending = Pending(t.next, "data", b) /\ f.next = Plus(t.next, n)
      /\ out = {Segment(t.next, "data", b)}
  BY DEF FlushesData, InFlight
<1>2. /\ t.sendBuffer \in Seq(Nat) /\ L \in Nat /\ t.next \in Numbers /\ t.una \in Numbers /\ w \in Nat
      /\ f.state \in Opens
  BY <1>1, ConnectionFields, Facts
<1>3. /\ f.una = t.una /\ f.lastAcknowledgedByte = t.lastAcknowledgedByte
  BY DEF Kept
<1>4. AckedTo(t, w) = k /\ t.una = t.next
  BY <1>1, NothingInFlight
<1>5. k = 1 + w - L /\ k \in Nat /\ 1 <= k /\ L <= w
  <2>1. k = 1 + w - L
    BY <1>1, <1>2, OpenPositions
  <2>2. L <= w
    BY DEF Sends, Numbered
  <2> HIDE DEF L, k
  <2> QED
    BY <1>2, <2>1, <2>2
<1>6. /\ b \in Seq(Nat) /\ Len(b) = n /\ \A i \in 1 .. n : b[i] = t.sendBuffer[i]
  <2>1. n \in 0 .. L
    BY <1>1
  <2> QED
    BY <1>2, <2>1, TakenShape
<1>7. /\ Len(f.sendBuffer) = L - n /\ \A i \in 1 .. L - n : f.sendBuffer[i] = t.sendBuffer[n + i]
  <2>1. n \in 0 .. L
    BY <1>1
  <2> DEFINE d == Dropped(t.sendBuffer, n)
  <2>2. Len(d) = L - n /\ \A i \in 1 .. L - n : d[i] = t.sendBuffer[n + i]
    BY <1>2, <2>1, DroppedShape
  <2>3. f.sendBuffer = d
    BY <1>1
  <2> HIDE DEF d
  <2> QED
    BY <2>2, <2>3
<1>8. /\ f.pending # NoPending /\ f.pending.sequence = t.next /\ f.pending.kind = "data" /\ f.pending.payload = b
  BY <1>1, <1>2, <1>6, PendingIs
<1>9. SentTo(f, w) = k + n /\ SentTo(f, w) \in Int
  <2>1. SentTo(f, w) = 1 + w - (L - n)
    BY <1>2, <1>7, OpenPositions
  <2> HIDE DEF L, k
  <2> QED
    BY <1>2, <1>5, <2>1
<1>10. AckedTo(f, w) = k
  <2>1. AckedTo(f, w) = SentTo(f, w) - Len(f.pending.payload)
    BY <1>8, <1>9, DataPositions
  <2> QED
    BY <1>5, <1>6, <1>8, <1>9, <2>1
<1>11. t.next = Plus(ISN, k) /\ f.next = Plus(ISN, k + n)
  <2>1. t.next = Plus(ISN, k)
    BY DEF Sends, Numbered
  <2>2. ISN \in Numbers /\ k \in Int /\ n \in Int
    BY <1>5, Facts
  <2> HIDE DEF k
  <2>3. Plus(Plus(ISN, k), n) = Plus(ISN, k + n)
    BY <2>2, PlusPlus
  <2> QED
    BY <1>1, <2>1, <2>3
<1>12. \A i \in 1 .. L : t.sendBuffer[i] = w - L + i
  BY DEF Sends, Stored
<1> HIDE DEF b, L, k
<1>13. FlightOf(f)
  <2>1. f.pending.payload # <<>>
    BY <1>1, <1>6, <1>8
  <2> QED
    BY <1>2, <1>3, <1>4, <1>8, <2>1, StatesAre DEF FlightOf
<1>14. Numbered(f, w)
  <2>1. Len(f.sendBuffer) <= w
    BY <1>1, <1>2, <1>5, <1>7
  <2> QED
    BY <1>2, <1>3, <1>4, <1>9, <1>10, <1>11, <2>1, StatesAre DEF Numbered
<1>15. Stored(f, w)
  <2>1. ASSUME NEW i \in 1 .. Len(f.sendBuffer) PROVE f.sendBuffer[i] = w - Len(f.sendBuffer) + i
    <3>1. n + i \in 1 .. L /\ i \in 1 .. L - n
      BY <1>1, <1>2, <1>7
    <3>2. t.sendBuffer[n + i] = w - L + (n + i)
      BY <1>12, <3>1
    <3> QED
      BY <1>1, <1>2, <1>7, <3>1, <3>2
  <2>2. ASSUME NEW i \in 1 .. n PROVE b[i] = k + i - 1
    <3>0. i \in 1 .. L
      BY <1>1, <1>2
    <3>1. b[i] = w - L + i
      BY <1>6, <1>12, <3>0
    <3> QED
      BY <1>2, <1>5, <3>1
  <2>3. f.lastAcknowledgedByte = k - 1
    BY <1>1, <1>3, <1>4 DEF Sends, Stored
  <2> QED
    BY <1>1, <1>6, <1>8, <1>10, <2>1, <2>2, <2>3 DEF Stored
<1>16. Follows(f, w, p)
  <2>1. 1 <= k /\ k <= TakenTo(p) /\ TakenTo(p) <= k /\ TakenTo(p) \in Nat
    BY <1>4, PositionFacts DEF StreamPositions, k
  <2> QED
    BY <1>5, <1>9, <1>10, <2>1 DEF Follows
<1>17. Onward(t, f, w)
  <2>1. SentTo(f, w) \in Nat /\ SentTo(t, w) \in Nat /\ SentTo(t, w) <= SentTo(f, w)
    BY <1>5, <1>9 DEF k
  <2> QED
    BY <1>1, <2>1, StatesAre DEF Onward
<1> DEFINE s == Segment(t.next, "data", b)
<1>18. s \in Segments /\ s.sequence = t.next /\ s.kind = "data" /\ s.payload = b
  BY <1>2, <1>6, SegmentIs
<1> HIDE DEF s
<1>19. Carries(s, k, w)
  <2>1. ASSUME NEW i \in 1 .. n PROVE b[i] = k + i - 1
    <3>0. i \in 1 .. L
      BY <1>1, <1>2
    <3>1. b[i] = w - L + i
      BY <1>6, <1>12, <3>0
    <3> QED
      BY <1>2, <1>5, <3>1
  <2>2. k + n <= 1 + w
    BY <1>1, <1>2, <1>5
  <2> QED
    BY <1>6, <1>11, <1>18, <2>1, <2>2 DEF Carries
<1>20. Reaches(s, k, f, w)
  <2>1. One(s.kind = "fin") = 0
    BY <1>18, OneIs
  <2>2. k + n + 0 <= SentTo(f, w)
    BY <1>5, <1>9
  <2> QED
    BY <1>2, <1>6, <1>18, <2>1, <2>2, StatesAre DEF Reaches
<1>21. k \in 0 .. w + 1
  BY <1>2, <1>5
<1>22. Sound(s, f, w)
  BY <1>19, <1>20, <1>21 DEF Sound
<1> QED
  BY <1>1, <1>13, <1>14, <1>15, <1>16, <1>17, <1>18, <1>22 DEF Sends, s
-----------------------------------------------------------------------------
\* A flush leaves the connection as sound as it was.
Flushed(t, f, out, w, p) ==
    /\ Sends(f, w, p) /\ Onward(t, f, w)
    /\ f.state \in Lives /\ (f.state \in Hears <=> t.state \in Hears)
    /\ \A s \in out : s \in Segments /\ Sound(s, f, w)

LEMMA FinFlushed ==
    ASSUME NEW t \in Connections, NEW w \in 0 .. MaxWritten, NEW p \in Peers, Sends(t, w, p),
           NEW f \in Connections, NEW out, Kept(t, f), FlushesFin(t, f, out)
    PROVE  Flushed(t, f, out, w, p)
<1> DEFINE k == SentTo(t, w)
<1>1. /\ t.state \in Opens /\ t.pending = NoPending /\ t.sendBuffer = <<>> /\ t.peerWindow # 0
      /\ f.state = (IF t.state = "closeWait" THEN "lastAck" ELSE "finWait1")
      /\ f.sendBuffer = <<>> /\ f.zeroWindow = t.zeroWindow
      /\ f.pending = Pending(t.next, "fin", <<>>) /\ f.next = Plus(t.next, 1)
      /\ out = {Segment(t.next, "fin", <<>>)}
  BY DEF FlushesFin, InFlight
<1>2. /\ t.next \in Numbers /\ t.una \in Numbers /\ w \in Nat /\ <<>> \in Seq(Nat) /\ Len(<<>>) = 0
      /\ f.zeroWindow \in BOOLEAN /\ t.zeroWindow \in BOOLEAN
  BY ConnectionFields, Facts, EmptySeq DEF Connections
<1>3. /\ f.una = t.una /\ f.lastAcknowledgedByte = t.lastAcknowledgedByte /\ f.peerWindow = t.peerWindow
  BY DEF Kept
<1>4. AckedTo(t, w) = k /\ t.una = t.next
  BY <1>1, NothingInFlight
<1>5. k = 1 + w /\ k \in Nat
  <2>1. k = 1 + w - 0
    BY <1>1, <1>2, OpenPositions
  <2> QED
    BY <1>2, <2>1
<1>6. f.state \in Awaits /\ f.state \in Fins /\ f.state \in Lives
  BY <1>1, StatesAre
<1>7. SentTo(f, w) = 2 + w
  BY <1>1, <1>2, <1>6, FinPositions
<1>8. f.pending # NoPending /\ f.pending.sequence = t.next /\ f.pending.kind = "fin" /\ f.pending.payload = <<>>
  <2>1. /\ Pending(t.next, "fin", <<>>).sequence = t.next
        /\ Pending(t.next, "fin", <<>>).kind = "fin" /\ Pending(t.next, "fin", <<>>).payload = <<>>
    BY DEF Pending
  <2>2. Pending(t.next, "fin", <<>>) # NoPending
    BY <2>1, NoPendingIs
  <2> QED
    BY <1>1, <2>1, <2>2
<1>9. AckedTo(f, w) = 1 + w
  <2>1. One(f.pending.kind = "fin") = 1
    BY <1>8, OneIs
  <2>2. AckedTo(f, w) = (2 + w) - 0 - 1
    BY <1>2, <1>7, <1>8, <2>1 DEF AckedTo
  <2> QED
    BY <1>2, <2>2
<1>10. t.next = Plus(ISN, 1 + w) /\ f.next = Plus(ISN, 2 + w)
  <2>1. t.next = Plus(ISN, 1 + w)
    BY <1>5 DEF Sends, Numbered
  <2>2. ISN \in Numbers /\ 1 + w \in Int /\ 1 \in Int /\ (1 + w) + 1 = 2 + w
    BY <1>2, Facts
  <2>3. Plus(Plus(ISN, 1 + w), 1) = Plus(ISN, (1 + w) + 1)
    BY <2>2, PlusPlus
  <2> QED
    BY <1>1, <2>1, <2>2, <2>3
<1>11. FlightOf(f)
  BY <1>3, <1>4, <1>6, <1>8, StatesAre DEF FlightOf
<1>12. Numbered(f, w)
  <2>1. Len(f.sendBuffer) <= w
    BY <1>1, <1>2
  <2> QED
    BY <1>1, <1>3, <1>4, <1>7, <1>9, <1>10, <2>1 DEF Numbered
<1>13. Stored(f, w)
  <2>1. ~t.zeroWindow
    BY <1>1 DEF Sends, Stored
  <2>2. 1 .. 0 = {}
    OBVIOUS
  <2>3. f.state \notin Opens
    BY <1>6, StatesAre
  <2>4. ~f.zeroWindow
    BY <1>1, <2>1
  <2> QED
    BY <1>1, <1>2, <1>8, <2>2, <2>3, <2>4 DEF Stored
<1>14. Follows(f, w, p)
  <2>1. 1 <= k /\ k <= TakenTo(p) /\ TakenTo(p) <= k /\ TakenTo(p) \in Nat
    BY <1>4, PositionFacts DEF StreamPositions, k
  <2> QED
    BY <1>2, <1>5, <1>7, <1>9, <2>1 DEF Follows
<1>15. Onward(t, f, w)
  <2>1. SentTo(f, w) \in Nat /\ SentTo(t, w) \in Nat /\ SentTo(t, w) <= SentTo(f, w)
    BY <1>2, <1>5, <1>7
  <2> QED
    BY <1>1, <1>6, <2>1, StatesAre DEF Onward
<1> DEFINE s == Segment(t.next, "fin", <<>>)
<1>16. s \in Segments /\ s.sequence = t.next /\ s.kind = "fin" /\ s.payload = <<>>
  BY <1>2 DEF Segment, Segments
<1> HIDE DEF s
<1>17. Carries(s, 1 + w, w)
  <2>1. 1 .. 0 = {}
    OBVIOUS
  <2> QED
    BY <1>2, <1>10, <1>16, <2>1 DEF Carries
<1>18. Reaches(s, 1 + w, f, w)
  <2>1. One(s.kind = "fin") = 1
    BY <1>16, OneIs
  <2>2. 1 + w + Len(s.payload) + One(s.kind = "fin") <= SentTo(f, w)
    BY <1>2, <1>7, <1>16, <2>1
  <2> QED
    BY <1>6, <2>2, StatesAre DEF Reaches
<1>19. Sound(s, f, w)
  <2>1. 1 + w \in 0 .. w + 1
    BY <1>2
  <2> QED
    BY <1>17, <1>18, <2>1 DEF Sound
<1>20. f.state \in Hears <=> t.state \in Hears
  BY <1>1 DEF Hears, Opens
<1> QED
  BY <1>1, <1>6, <1>11, <1>12, <1>13, <1>14, <1>15, <1>16, <1>19, <1>20 DEF Sends, Flushed, s

LEMMA NothingFlushed ==
    ASSUME NEW t \in Connections, NEW w \in 0 .. MaxWritten, NEW p \in Peers, Sends(t, w, p), t.state \in Lives,
           NEW f \in Connections, NEW out, Kept(t, f), FlushesNothing(t, f, out)
    PROVE  Flushed(t, f, out, w, p)
<1>1. /\ f.state = t.state /\ f.sendBuffer = t.sendBuffer /\ f.pending = t.pending /\ f.next = t.next
      /\ out = {}
      /\ f.zeroWindow => t.zeroWindow \/ (t.peerWindow = 0 /\ t.state \in Opens /\ t.pending = NoPending)
  BY DEF FlushesNothing, InFlight
<1>2. f.una = t.una /\ f.lastAcknowledgedByte = t.lastAcknowledgedByte /\ f.peerWindow = t.peerWindow
  BY DEF Kept
<1>3. SentTo(f, w) = SentTo(t, w) /\ AckedTo(f, w) = AckedTo(t, w)
  BY <1>1 DEF SentTo, AckedTo
<1>4. FlightOf(t) /\ Numbered(t, w) /\ Stored(t, w) /\ Follows(t, w, p)
  BY DEF Sends
<1>5. FlightOf(f)
  BY <1>1, <1>2, <1>4 DEF FlightOf
<1>6. Numbered(f, w)
  BY <1>1, <1>2, <1>3, <1>4 DEF Numbered
<1>7. Stored(f, w)
  BY <1>1, <1>2, <1>3, <1>4 DEF Stored
<1>8. Follows(f, w, p)
  BY <1>3, <1>4 DEF Follows
<1>9. SentTo(t, w) \in Nat
  BY PositionFacts DEF StreamPositions
<1>10. Onward(t, f, w)
  BY <1>1, <1>3, <1>9 DEF Onward
<1> QED
  BY <1>1, <1>5, <1>6, <1>7, <1>8, <1>10 DEF Flushed, Sends

LEMMA FlushKeeps ==
    ASSUME NEW t \in Connections, NEW w \in 0 .. MaxWritten, NEW p \in Peers, Sends(t, w, p), t.state \in Lives
    PROVE  /\ Flush(t).tcp \in Connections /\ Kept(t, Flush(t).tcp)
           /\ Flushed(t, Flush(t).tcp, Flush(t).out, w, p)
<1> DEFINE f == Flush(t).tcp
           out == Flush(t).out
<1>1. /\ f \in Connections /\ Kept(t, f)
      /\ \/ FlushesNothing(t, f, out) \/ FlushesFin(t, f, out)
         \/ \E n \in Nat : FlushesData(t, f, out, n)
  BY FlushShape
<1> HIDE DEF f, out
<1>2. ASSUME FlushesNothing(t, f, out) PROVE Flushed(t, f, out, w, p)
  BY <1>1, <1>2, NothingFlushed
<1>3. ASSUME FlushesFin(t, f, out) PROVE Flushed(t, f, out, w, p)
  BY <1>1, <1>3, FinFlushed
<1>4. ASSUME \E n \in Nat : FlushesData(t, f, out, n) PROVE Flushed(t, f, out, w, p)
  <2>1. PICK n \in Nat : FlushesData(t, f, out, n)
    BY <1>4
  <2>2. Sends(f, w, p) /\ Onward(t, f, w) /\ \A s \in out : s \in Segments /\ Sound(s, f, w)
    BY <1>1, <2>1, DataFlushed
  <2>3. f.state = t.state /\ f.state \in Lives
    BY <2>1 DEF FlushesData
  <2> QED
    BY <2>2, <2>3 DEF Flushed
<1>5. Flushed(t, f, out, w, p)
  BY <1>1, <1>2, <1>3, <1>4
<1> QED
  BY <1>1, <1>5 DEF f, out
-----------------------------------------------------------------------------
(* What is acknowledged.                                                   *)

\* Two connections that send alike: only the window, the retries, the closing
\* times or the received bytes differ.
Alike(t, f) ==
    /\ f.next = t.next /\ f.una = t.una /\ f.sendBuffer = t.sendBuffer
    /\ f.lastAcknowledgedByte = t.lastAcknowledgedByte
    /\ (f.pending = NoPending) <=> (t.pending = NoPending)
    /\ f.pending.sequence = t.pending.sequence /\ f.pending.kind = t.pending.kind
    /\ f.pending.payload = t.pending.payload
    /\ f.zeroWindow => t.zeroWindow /\ f.peerWindow \in {0, t.peerWindow}
    /\ (f.state \in Opens) <=> (t.state \in Opens)
    /\ (f.state \in Awaits) <=> (t.state \in Awaits)
    /\ (f.state \in Rests) <=> (t.state \in Rests)

LEMMA AlikeSends ==
    ASSUME NEW t \in Connections, NEW w \in 0 .. MaxWritten, NEW p \in Peers, Sends(t, w, p), t.state \in Lives,
           NEW f, Alike(t, f)
    PROVE  Sends(f, w, p) /\ Onward(t, f, w) /\ f.state \in Lives /\ SentTo(f, w) = SentTo(t, w) /\ AckedTo(f, w) = AckedTo(t, w)
<1>1. /\ f.next = t.next /\ f.una = t.una /\ f.sendBuffer = t.sendBuffer
      /\ f.lastAcknowledgedByte = t.lastAcknowledgedByte
      /\ (f.pending = NoPending) <=> (t.pending = NoPending)
      /\ f.pending.sequence = t.pending.sequence /\ f.pending.kind = t.pending.kind
      /\ f.pending.payload = t.pending.payload
      /\ f.zeroWindow => t.zeroWindow /\ f.peerWindow \in {0, t.peerWindow}
      /\ (f.state \in Opens) <=> (t.state \in Opens)
      /\ (f.state \in Awaits) <=> (t.state \in Awaits)
      /\ (f.state \in Rests) <=> (t.state \in Rests)
  BY DEF Alike
<1>2. (f.state \in Fins) <=> (t.state \in Fins)
  BY <1>1 DEF Fins
<1>3. SentTo(f, w) = SentTo(t, w)
  BY <1>1, <1>2 DEF SentTo, One
<1>4. AckedTo(f, w) = AckedTo(t, w)
  BY <1>1, <1>3 DEF AckedTo
<1>5. FlightOf(t) /\ Numbered(t, w) /\ Stored(t, w) /\ Follows(t, w, p)
  BY DEF Sends
<1>6. FlightOf(f)
  BY <1>1, <1>5 DEF FlightOf
<1>7. Numbered(f, w)
  BY <1>1, <1>2, <1>3, <1>4, <1>5 DEF Numbered
<1>8. Stored(f, w)
  BY <1>1, <1>4, <1>5 DEF Stored
<1>9. Follows(f, w, p)
  BY <1>3, <1>4, <1>5 DEF Follows
<1>10. f.state \in Lives
  BY <1>1, <1>2 DEF Lives
<1>11. Onward(t, f, w)
  <2>1. SentTo(t, w) \in Nat
    BY PositionFacts DEF StreamPositions
  <2> QED
    BY <1>2, <1>3, <1>10, <2>1, StatesAre DEF Onward
<1> QED
  BY <1>3, <1>4, <1>6, <1>7, <1>8, <1>9, <1>10, <1>11 DEF Sends

Inbound == [sequence : Numbers, ack : Numbers, window : Nat, payload : Seq(Nat), fin : BOOLEAN]

\* What acknowledging leaves alone.
StillHears(t, f) == f.receiveNext = t.receiveNext /\ f.receiveBuffer = t.receiveBuffer

LEMMA WindowedShape ==
    ASSUME NEW t \in Connections, NEW s \in Inbound
    PROVE  /\ Windowed(t, s) \in Connections /\ Alike(t, Windowed(t, s)) /\ StillHears(t, Windowed(t, s))
           /\ Windowed(t, s).state = t.state /\ Windowed(t, s).pending = t.pending
<1> DEFINE newer == \/ Before(t.windowSequence, s.sequence)
                    \/ t.windowSequence = s.sequence /\ ~Before(s.ack, t.windowACK)
           zero == t.zeroWindow /\ s.window = 0
           v == [t EXCEPT !.peerWindow = s.window, !.windowSequence = s.sequence, !.windowACK = s.ack,
                          !.zeroWindow = zero]
<1>1. Windowed(t, s) = IF newer THEN v ELSE t
  BY DEF Windowed
<1>2. s.window \in Nat /\ s.sequence \in Numbers /\ s.ack \in Numbers /\ zero \in BOOLEAN
  BY DEF Inbound
<1> HIDE DEF newer
<1>3. Alike(t, t) /\ StillHears(t, t)
  BY DEF Alike, StillHears
<1>4. v \in Connections
  <2> HIDE DEF zero
  <2> QED
    BY <1>2, Zenon DEF Connections
<1>5. /\ v.next = t.next /\ v.una = t.una /\ v.sendBuffer = t.sendBuffer /\ v.state = t.state
      /\ v.lastAcknowledgedByte = t.lastAcknowledgedByte /\ v.pending = t.pending
      /\ v.peerWindow = s.window /\ StillHears(t, v)
      /\ v.zeroWindow = zero
  BY DEF Connections, StillHears
<1>6. v.zeroWindow => t.zeroWindow /\ v.peerWindow \in {0, t.peerWindow}
  BY <1>5
<1> HIDE DEF v, zero
<1>7. Alike(t, v)
  BY <1>5, <1>6 DEF Alike
<1> QED
  BY <1>1, <1>3, <1>4, <1>5, <1>7

\* Two positions that the stream can reach compare as their numbers do.
LEMMA BeforeIs ==
    ASSUME NEW b \in Numbers, NEW k \in Int, NEW l \in Int, 2 * (k - l) < Modulus, 2 * (l - k) < Modulus
    PROVE  Before(Plus(b, k), Plus(b, l)) <=> k < l
<1>1. Signed(Plus(b, k), Plus(b, l)) = k - l
  BY SignedIs
<1>2. Before(Plus(b, k), Plus(b, l)) <=> k - l < 0
  BY <1>1 DEF Before
<1> QED
  BY <1>2

LEMMA Near ==
    ASSUME NEW k \in 0 .. MaxWritten + 2, NEW l \in 0 .. MaxWritten + 2
    PROVE  k \in Int /\ l \in Int /\ 2 * (k - l) < Modulus /\ 2 * (l - k) < Modulus /\ k - l < Modulus
  BY Facts
LEMMA PeerNear ==
    ASSUME NEW k \in 0 .. MaxPeerBytes + 2, NEW l \in 0 .. MaxPeerBytes + 2
    PROVE  k \in Int /\ l \in Int /\ 2 * (k - l) < Modulus /\ 2 * (l - k) < Modulus
  BY Facts

\* An acknowledgement of position a moves the connection to f.
Moved(t, f, w, p, a) ==
    /\ f.next = t.next /\ f.una = Plus(ISN, a) /\ f.sendBuffer = t.sendBuffer /\ StillHears(t, f)
    /\ f.zeroWindow = t.zeroWindow /\ f.peerWindow = t.peerWindow
    /\ \/ /\ t.state \in Opens /\ f.state = t.state /\ f.lastAcknowledgedByte = a - 1
          /\ \/ f.pending = NoPending /\ a = SentTo(t, w)
             \/ /\ f.pending # NoPending /\ f.pending.sequence = Plus(ISN, a) /\ f.pending.kind = "data"
                /\ f.pending.payload # <<>> /\ Len(f.pending.payload) = SentTo(t, w) - a
                /\ \A i \in 1 .. Len(f.pending.payload) : f.pending.payload[i] = a + i - 1
       \/ t.state \in Awaits /\ f.state = t.state /\ f.pending = NoPending /\ a = SentTo(t, w)

LEMMA TrimmedShape ==
    ASSUME NEW t \in Connections, NEW w \in 0 .. MaxWritten, NEW p \in Peers, Sends(t, w, p), t.state \in Lives,
           NEW a \in Nat, AckedTo(t, w) < a, a <= TakenTo(p)
    PROVE  Trimmed(t, Plus(ISN, a)) \in Connections /\ Moved(t, Trimmed(t, Plus(ISN, a)), w, p, a)
<1> DEFINE ack == Plus(ISN, a)
           u == AckedTo(t, w)
           n == SentTo(t, w)
           b == t.pending.payload
           partly == InFlight(t) /\ a - u <= Len(b)
           last == IF partly THEN b[a - u] ELSE t.lastAcknowledgedByte
           rest == IF ack = t.next THEN NoPending
                   ELSE IF partly THEN Pending(ack, t.pending.kind, Dropped(b, a - u))
                   ELSE t.pending
           f == [t EXCEPT !.una = ack, !.lastAcknowledgedByte = last, !.pending = rest]
<1>1. /\ u \in Nat /\ n \in Nat /\ TakenTo(p) \in Nat /\ 1 <= u /\ u <= TakenTo(p) /\ TakenTo(p) <= n /\ n <= w + 2
      /\ w \in Nat /\ w <= MaxWritten /\ MaxWritten \in Nat
  BY PositionFacts, Facts DEF StreamPositions
<1>2. /\ b \in Seq(Nat) /\ Len(b) \in Nat /\ t.pending \in Pendings /\ t.next \in Numbers
      /\ t.lastAcknowledgedByte \in Nat
  BY ConnectionFields DEF Connections
<1>3. t.una = Plus(ISN, u) /\ t.next = Plus(ISN, n) /\ ISN \in Numbers /\ ack \in Numbers
  <2>1. a \in Int
    OBVIOUS
  <2> QED
    BY <2>1, Facts, PlusType DEF Sends, Numbered
<1>4. u < a /\ a <= n
  BY <1>1
<1>5. /\ a \in 0 .. MaxWritten + 2 /\ u \in 0 .. MaxWritten + 2 /\ n \in 0 .. MaxWritten + 2
  <2> HIDE DEF u, n
  <2> QED
    BY <1>1, <1>4
<1>6. (ack - t.una) % Modulus = a - u
  <2>1. a \in Int /\ u \in Int /\ u <= a /\ a - u < Modulus
    BY <1>4, <1>5, Near
  <2> HIDE DEF u
  <2>2. (Plus(ISN, a) - Plus(ISN, u)) % Modulus = a - u
    BY <1>3, <2>1, AmountIs
  <2> QED
    BY <1>3, <2>2
<1>7. (ack = t.next) <=> (a = n)
  <2>1. a \in Int /\ n \in Int /\ 2 * (a - n) < Modulus /\ 2 * (n - a) < Modulus
    BY <1>5, Near
  <2> HIDE DEF n
  <2> QED
    BY <1>3, <2>1, PlusIsOne
<1>8. t.pending # NoPending
  <2>1. ASSUME t.pending = NoPending PROVE FALSE
    <3>1. u = n
      BY <2>1, NothingInFlight
    <3> HIDE DEF u, n
    <3> QED
      BY <1>1, <1>4, <3>1
  <2> QED
    BY <2>1
<1>9. Trimmed(t, ack) = f
  BY <1>6 DEF Trimmed
<1>10. \A i \in 1 .. Len(b) : b[i] = u + i - 1
  BY DEF Sends, Stored
<1>11. FlightOf(t)
  BY DEF Sends
<1> HIDE DEF ack
<1>12. CASE t.state \in Opens
  <2>1. t.pending.kind = "data" /\ b # <<>>
    BY <1>8, <1>11, <1>12 DEF FlightOf
  <2>2. u = n - Len(b)
    BY <1>1, <2>1, DataPositions
  <2> DEFINE l == Len(b)
             d == a - u
  <2>3. l \in Nat /\ d \in 1 .. l /\ n = u + l /\ a = u + d
    <3>1. l \in Nat /\ u = n - l
      BY <1>2, <2>2
    <3> HIDE DEF l, u, n
    <3> QED
      BY <1>1, <1>4, <3>1
  <2>4. partly
    BY <1>8, <2>3 DEF InFlight
  <2>5. b[d] = a - 1
    <3>1. b[d] = u + d - 1
      BY <1>10, <2>3
    <3> HIDE DEF b, d, u
    <3> QED
      BY <1>1, <2>3, <3>1
  <2>6. last = a - 1 /\ a - 1 \in Nat
    BY <1>1, <1>4, <2>4, <2>5
  <2> DEFINE c == Dropped(b, d)
  <2>7. c \in Seq(Nat) /\ Len(c) = l - d /\ \A i \in 1 .. l - d : c[i] = b[d + i]
    <3>1. d \in 0 .. l
      BY <2>3
    <3> QED
      BY <1>2, <3>1, DroppedShape
  <2>8. rest = IF a = n THEN NoPending ELSE Pending(ack, "data", c)
    BY <1>7, <2>1, <2>4
  <2>9. /\ Pending(ack, "data", c) \in Pendings /\ Pending(ack, "data", c) # NoPending
        /\ Pending(ack, "data", c).sequence = ack /\ Pending(ack, "data", c).kind = "data"
        /\ Pending(ack, "data", c).payload = c
    BY <1>3, <2>7, PendingIs
  <2>10. rest \in Pendings
    BY <2>8, <2>9, NoPendingIs
  <2>11. \A i \in 1 .. l - d : c[i] = a + i - 1
    <3>1. ASSUME NEW i \in 1 .. l - d PROVE c[i] = a + i - 1
      <4>1. c[i] = b[d + i] /\ d + i \in 1 .. l
        <5>1. c[i] = b[d + i]
          BY <2>7
        <5> HIDE DEF d, l
        <5> QED
          BY <2>3, <5>1
      <4>2. b[d + i] = u + (d + i) - 1
        BY <1>10, <4>1
      <4> HIDE DEF b, c, d, u, l
      <4> QED
        BY <1>1, <2>3, <4>1, <4>2
    <3> QED
      BY <3>1
  <2>12. l - d = n - a
    <3> HIDE DEF l, d, n, u
    <3> QED
      BY <1>1, <2>3
  <2>13. a # n => c # <<>>
    <3>1. ASSUME a # n, c = <<>> PROVE FALSE
      <4>1. l - d = 0
        BY <2>7, <3>1, EmptySeq
      <4> HIDE DEF l, d, n, u, c
      <4> QED
        BY <1>1, <2>12, <3>1, <4>1
    <3> QED
      BY <3>1
  <2>14. f \in Connections
    <3> HIDE DEF rest, last
    <3> QED
      BY <1>3, <2>6, <2>10, Zenon DEF Connections
  <2>15. /\ f.next = t.next /\ f.una = ack /\ f.sendBuffer = t.sendBuffer /\ StillHears(t, f) /\ f.state = t.state
         /\ f.zeroWindow = t.zeroWindow /\ f.peerWindow = t.peerWindow
         /\ f.pending = rest /\ f.lastAcknowledgedByte = last
    BY DEF Connections, StillHears
  <2> HIDE DEF f, rest, last, partly, c, b, d, l, n, u
  <2>16. \/ f.pending = NoPending /\ a = n
         \/ /\ f.pending # NoPending /\ f.pending.sequence = ack /\ f.pending.kind = "data"
            /\ f.pending.payload # <<>> /\ Len(f.pending.payload) = n - a
            /\ \A i \in 1 .. Len(f.pending.payload) : f.pending.payload[i] = a + i - 1
    <3>1. CASE a = n
      BY <2>8, <2>15, <3>1
    <3>2. CASE a # n
      <4>1. f.pending = Pending(ack, "data", c)
        BY <2>8, <2>15, <3>2
      <4> QED
        BY <2>7, <2>9, <2>11, <2>12, <2>13, <3>2, <4>1
    <3> QED
      BY <3>1, <3>2
  <2>17. Moved(t, f, w, p, a)
    BY <1>12, <2>6, <2>15, <2>16 DEF Moved, ack, n
  <2> QED
    BY <1>9, <2>14, <2>17 DEF ack
<1>13. CASE t.state \in Awaits
  <2>1. t.pending.kind = "fin" /\ b = <<>> /\ Len(b) = 0
    BY <1>11, <1>13, EmptySeq DEF FlightOf
  <2>2. u = n - 1
    <3>1. One(t.pending.kind = "fin") = 1
      BY <2>1, OneIs
    <3>2. u = n - 0 - 1
      BY <2>1, <3>1 DEF AckedTo
    <3> HIDE DEF u, n
    <3> QED
      BY <1>1, <3>2
  <2>3. a = n
    <3> HIDE DEF u, n
    <3> QED
      BY <1>1, <1>4, <2>2
  <2>4. ~partly
    <3> HIDE DEF u, n, b
    <3> QED
      BY <1>1, <1>4, <2>1
  <2>5. rest = NoPending /\ last = t.lastAcknowledgedByte
    BY <1>7, <2>3, <2>4
  <2>6. f \in Connections
    <3> HIDE DEF rest, last
    <3> QED
      BY <1>2, <1>3, <2>5, NoPendingIs, Zenon DEF Connections
  <2>7. /\ f.next = t.next /\ f.una = ack /\ f.sendBuffer = t.sendBuffer /\ StillHears(t, f) /\ f.state = t.state
        /\ f.zeroWindow = t.zeroWindow /\ f.peerWindow = t.peerWindow
        /\ f.pending = rest
    BY DEF Connections, StillHears
  <2> HIDE DEF f, rest, last
  <2>8. Moved(t, f, w, p, a)
    BY <1>13, <2>3, <2>5, <2>7 DEF Moved, ack
  <2> QED
    BY <1>9, <2>6, <2>8 DEF ack
<1>14. t.state \notin Rests
  BY <1>8, <1>11 DEF FlightOf
<1> QED
  BY <1>12, <1>13, <1>14 DEF Lives, Fins
\* With nothing left in flight a closing connection moves on.
Advances(t, f) ==
    \/ f.state = t.state
    \/ t.state = "finWait1" /\ f.state = "finWait2"
    \/ t.state = "closing" /\ f.state = "timeWait"
    \/ t.state = "lastAck" /\ f.state = "closed"

LEMMA AdvancedShape ==
    ASSUME NEW t \in Connections
    PROVE  LET f == Advanced(t)
           IN  /\ f \in Connections /\ Advances(t, f) /\ StillHears(t, f)
               /\ f.next = t.next /\ f.una = t.una /\ f.sendBuffer = t.sendBuffer /\ f.pending = t.pending
               /\ f.lastAcknowledgedByte = t.lastAcknowledgedByte
               /\ f.zeroWindow = t.zeroWindow /\ f.peerWindow = t.peerWindow
               /\ t.pending # NoPending => f.state = t.state
               /\ t.pending = NoPending => f.state \notin Awaits
<1> DEFINE Whole(f) ==
        /\ f \in Connections /\ Advances(t, f) /\ StillHears(t, f)
        /\ f.next = t.next /\ f.una = t.una /\ f.sendBuffer = t.sendBuffer /\ f.pending = t.pending
        /\ f.lastAcknowledgedByte = t.lastAcknowledgedByte
        /\ f.zeroWindow = t.zeroWindow /\ f.peerWindow = t.peerWindow
        /\ t.pending # NoPending => f.state = t.state
        /\ t.pending = NoPending => f.state \notin Awaits
<1> SUFFICES Whole(Advanced(t))
  OBVIOUS
<1>1. ASSUME t.pending # NoPending \/ t.state \notin Awaits PROVE Whole(t)
  BY <1>1 DEF Advances, StillHears
<1> DEFINE g == [t EXCEPT !.state = "finWait2", !.closeDeadline = TRUE]
           h == [t EXCEPT !.state = "timeWait", !.closeDeadline = TRUE]
           i == [t EXCEPT !.state = "closed"]
<1>2. "finWait2" \in States /\ "timeWait" \in States /\ "closed" \in States /\ TRUE \in BOOLEAN
  BY DEF States
<1>3. g \in Connections /\ h \in Connections /\ i \in Connections
  BY <1>2, Zenon DEF Connections
<1>4. "finWait2" \notin Awaits /\ "timeWait" \notin Awaits /\ "closed" \notin Awaits
  BY DEF Awaits
<1>5. ASSUME t.pending = NoPending, t.state = "finWait1" PROVE Whole(g)
  BY <1>3, <1>4, <1>5 DEF Advances, StillHears, Connections
<1>6. ASSUME t.pending = NoPending, t.state = "closing" PROVE Whole(h)
  BY <1>3, <1>4, <1>6 DEF Advances, StillHears, Connections
<1>7. ASSUME t.pending = NoPending, t.state = "lastAck" PROVE Whole(i)
  BY <1>3, <1>4, <1>7 DEF Advances, StillHears, Connections
<1>8. t.state \in Awaits => t.state \in {"finWait1", "closing", "lastAck"}
  BY DEF Awaits
<1>9. Advanced(t) = IF t.pending # NoPending THEN t
                    ELSE IF t.state = "finWait1" THEN g
                    ELSE IF t.state = "closing" THEN h
                    ELSE IF t.state = "lastAck" THEN i ELSE t
  BY DEF Advanced, InFlight
<1> HIDE DEF Whole, g, h, i
<1> QED
  BY <1>1, <1>5, <1>6, <1>7, <1>8, <1>9

\* What the peer acknowledged leaves the connection as sound as it was; the
\* last acknowledgement of a closing connection means that the peer has it all.
Answered(t, f, w, p) ==
    /\ Onward(t, f, w) /\ StillHears(t, f) /\ f.state \in Lives \cup {"closed"} /\ Advances(t, f)
    /\ f.state \in Lives => Sends(f, w, p)
    /\ f.state = "closed" => TakenTo(p) = w + 2

LEMMA MovedKeeps ==
    ASSUME NEW t \in Connections, NEW w \in 0 .. MaxWritten, NEW p \in Peers, Sends(t, w, p), t.state \in Lives,
           NEW a \in Nat, AckedTo(t, w) < a, a <= TakenTo(p),
           NEW m \in Connections, Moved(t, m, w, p, a)
    PROVE  Answered(t, Advanced(m), w, p)
<1> DEFINE f == Advanced(m)
           n == SentTo(t, w)
<1>1. /\ n \in Nat /\ TakenTo(p) \in Nat /\ 1 <= a /\ TakenTo(p) <= n /\ n <= w + 2 /\ w \in Nat
  BY PositionFacts, Facts DEF StreamPositions
<1>2. /\ f \in Connections /\ Advances(m, f) /\ StillHears(m, f)
      /\ f.next = m.next /\ f.una = m.una /\ f.sendBuffer = m.sendBuffer /\ f.pending = m.pending
      /\ f.lastAcknowledgedByte = m.lastAcknowledgedByte
      /\ f.zeroWindow = m.zeroWindow /\ f.peerWindow = m.peerWindow
      /\ m.pending # NoPending => f.state = m.state
      /\ m.pending = NoPending => f.state \notin Awaits
  BY AdvancedShape
<1> HIDE DEF f
<1>3. /\ m.next = t.next /\ m.una = Plus(ISN, a) /\ m.sendBuffer = t.sendBuffer /\ StillHears(t, m)
      /\ m.zeroWindow = t.zeroWindow /\ m.peerWindow = t.peerWindow /\ m.state = t.state
  BY DEF Moved
<1>4. Advances(t, f) /\ StillHears(t, f)
  BY <1>2, <1>3 DEF Advances, StillHears
<1>5. Numbered(t, w) /\ Stored(t, w) /\ FlightOf(t) /\ Follows(t, w, p)
  BY DEF Sends
<1>6. CASE t.state \in Opens
  <2>1. /\ m.lastAcknowledgedByte = a - 1
        /\ \/ m.pending = NoPending /\ a = n
           \/ /\ m.pending # NoPending /\ m.pending.sequence = Plus(ISN, a) /\ m.pending.kind = "data"
              /\ m.pending.payload # <<>> /\ Len(m.pending.payload) = n - a
              /\ \A i \in 1 .. Len(m.pending.payload) : m.pending.payload[i] = a + i - 1
    BY <1>6, StatesAre DEF Moved
  <2>2. f.state = t.state /\ f.state \in Lives
    BY <1>2, <1>3, <1>6 DEF Advances, Opens, Lives
  <2>3. SentTo(f, w) = n
    BY <1>2, <1>3, <2>2 DEF SentTo
  <2>4. AckedTo(f, w) = a
    <3>1. CASE m.pending = NoPending /\ a = n
      BY <1>2, <2>3, <3>1, NothingAcked, <1>1
    <3>2. CASE m.pending.kind = "data" /\ Len(m.pending.payload) = n - a
      <4>1. AckedTo(f, w) = SentTo(f, w) - Len(f.pending.payload)
        BY <1>1, <1>2, <2>3, <3>2, DataPositions
      <4> HIDE DEF n
      <4> QED
        BY <1>1, <1>2, <2>3, <3>2, <4>1
    <3> QED
      BY <2>1, <3>1, <3>2
  <2> HIDE DEF n
  <2>5. FlightOf(f)
    BY <1>2, <1>3, <1>6, <2>1, <2>2, StatesAre DEF FlightOf
  <2>6. Numbered(f, w)
    BY <1>2, <1>3, <1>5, <2>2, <2>3, <2>4 DEF Numbered, n
  <2>7. Stored(f, w)
    <3>1. \A i \in 1 .. Len(f.pending.payload) : f.pending.payload[i] = a + i - 1
      <4>1. CASE m.pending = NoPending
        <5>1. Len(f.pending.payload) = 0 /\ 1 .. 0 = {}
          BY <1>2, <4>1, NoPendingIs, EmptySeq
        <5> QED
          BY <5>1
      <4>2. CASE m.pending # NoPending
        BY <1>2, <2>1, <4>2
      <4> QED
        BY <4>1, <4>2
    <3>2. ~t.zeroWindow
      <4>1. ASSUME t.zeroWindow PROVE FALSE
        <5>1. t.pending = NoPending
          BY <1>5, <4>1 DEF Stored
        <5>2. AckedTo(t, w) = n
          BY <5>1, NothingInFlight DEF n
        <5> QED
          BY <1>1, <5>2
      <4> QED
        BY <4>1
    <3>3. \A i \in 1 .. Len(f.sendBuffer) : f.sendBuffer[i] = w - Len(f.sendBuffer) + i
      BY <1>2, <1>3, <1>5 DEF Stored
    <3>4. f.lastAcknowledgedByte = AckedTo(f, w) - 1
      BY <1>2, <2>1, <2>4
    <3>5. ~f.zeroWindow
      BY <1>2, <1>3, <3>2
    <3> QED
      BY <2>4, <3>1, <3>3, <3>4, <3>5 DEF Stored
  <2>8. Follows(f, w, p)
    BY <1>1, <2>3, <2>4 DEF Follows
  <2>9. Onward(t, f, w)
    BY <1>1, <1>6, <2>2, <2>3, StatesAre DEF Onward, n
  <2>10. f.state # "closed"
    BY <1>6, <2>2 DEF Opens
  <2> QED
    BY <1>4, <2>2, <2>5, <2>6, <2>7, <2>8, <2>9, <2>10 DEF Answered, Sends, f
<1>7. CASE t.state \in Awaits
  <2>1. m.pending = NoPending /\ a = n
    BY <1>7, StatesAre DEF Moved
  <2>2. f.state \in Rests \cup {"closed"}
    BY <1>2, <1>4, <1>7, <2>1 DEF Advances, Awaits, Rests
  <2>3. t.sendBuffer = <<>> /\ t.state \in Fins
    BY <1>5, <1>7, StatesAre DEF Numbered
  <2>4. n = w + 2 /\ TakenTo(p) = w + 2 /\ a = w + 2
    <3>1. n = 2 + w
      BY <1>1, <2>3, FinPositions
    <3> HIDE DEF n
    <3> QED
      BY <1>1, <2>1, <3>1
  <2>5. CASE f.state = "closed"
    <3>1. f.state \notin Lives /\ f.state \in Ends /\ f.state \notin {"idle", "synSent"}
      BY <2>5 DEF Lives, Ends, Opens, Fins, Awaits, Rests
    <3>2. Onward(t, f, w)
      BY <3>1 DEF Onward
    <3> QED
      BY <1>4, <2>4, <2>5, <3>1, <3>2 DEF Answered, f
  <2>6. CASE f.state \in Rests
    <3>1. f.state \in Fins /\ f.state \in Lives /\ f.state \notin Opens /\ f.state \notin Awaits /\ f.state # "closed"
      BY <2>6 DEF Rests, Fins, Lives, Opens, Awaits
    <3>2. SentTo(f, w) = 2 + w
      BY <1>1, <1>2, <1>3, <2>3, <3>1, FinPositions
    <3>3. f.pending = NoPending
      BY <1>2, <2>1
    <3>4. AckedTo(f, w) = 2 + w
      BY <1>1, <3>2, <3>3, NothingAcked
    <3>5. FlightOf(f)
      BY <3>1, <3>3 DEF FlightOf
    <3>6. Numbered(f, w)
      <4>1. Len(f.sendBuffer) <= w
        BY <1>2, <1>3, <1>5 DEF Numbered
      <4>2. 2 + w = w + 2
        BY <1>1
      <4> QED
        BY <1>2, <1>3, <1>5, <2>3, <2>4, <3>2, <3>4, <4>1, <4>2 DEF Numbered
    <3>7. Stored(f, w)
      <4>1. Len(f.pending.payload) = 0 /\ Len(f.sendBuffer) = 0 /\ 1 .. 0 = {}
        BY <1>2, <1>3, <2>3, <3>3, NoPendingIs, EmptySeq
      <4>2. ~f.zeroWindow
        <5>1. t.state \notin Opens
          BY <1>7, StatesAre
        <5> QED
          BY <1>2, <1>3, <1>5, <5>1 DEF Stored
      <4> QED
        BY <3>1, <4>1, <4>2 DEF Stored
    <3>8. Follows(f, w, p)
      BY <1>1, <2>4, <3>2, <3>4 DEF Follows
    <3>9. Onward(t, f, w)
      <4>1. SentTo(t, w) = SentTo(f, w) /\ SentTo(t, w) \in Nat
        BY <1>1, <2>4, <3>2 DEF n
      <4>2. t.state \in Lives
        OBVIOUS
      <4>3. f.state \notin {"idle", "synSent"}
        BY <3>1, StatesAre
      <4> QED
        BY <1>1, <3>1, <4>1, <4>2, <4>3 DEF Onward
    <3> QED
      BY <1>4, <3>1, <3>5, <3>6, <3>7, <3>8, <3>9 DEF Answered, Sends, f
  <2> QED
    BY <2>2, <2>5, <2>6
<1> QED
  BY <1>6, <1>7 DEF Moved
LEMMA AcknowledgedKeeps ==
    ASSUME NEW t \in Connections, NEW w \in 0 .. MaxWritten, NEW p \in Peers, Sends(t, w, p), t.state \in Lives,
           NEW s \in Inbound, NEW a \in Nat, 1 <= a, a <= TakenTo(p), s.ack = Plus(ISN, a)
    PROVE  Acknowledged(t, s) \in Connections /\ Answered(t, Acknowledged(t, s), w, p)
<1> DEFINE u == AckedTo(t, w)
           v == Windowed(t, s)
           m == Trimmed(v, s.ack)
<1>1. /\ u \in 0 .. MaxWritten + 2 /\ a \in 0 .. MaxWritten + 2 /\ SentTo(t, w) \in Nat
  <2>1. u \in Nat /\ SentTo(t, w) \in Nat /\ TakenTo(p) \in Nat /\ u <= TakenTo(p) /\ TakenTo(p) <= SentTo(t, w) /\ SentTo(t, w) <= w + 2
    BY PositionFacts DEF StreamPositions
  <2> HIDE DEF u
  <2> QED
    BY <2>1, Facts
<1>2. t.una = Plus(ISN, u) /\ ISN \in Numbers
  BY Facts DEF Sends, Numbered
<1>3. (Before(s.ack, t.una) <=> a < u) /\ (Before(t.una, s.ack) <=> u < a)
  <2>1. u \in Int /\ a \in Int /\ 2 * (u - a) < Modulus /\ 2 * (a - u) < Modulus
    BY <1>1, Near
  <2> HIDE DEF u
  <2> QED
    BY <1>2, <2>1, BeforeIs
<1>4. Acknowledged(t, s) = IF a < u THEN t ELSE IF ~(u < a) THEN v ELSE Advanced(m)
  BY <1>3 DEF Acknowledged
<1>5. v \in Connections /\ Alike(t, v) /\ StillHears(t, v) /\ v.state = t.state /\ v.pending = t.pending
  BY WindowedShape
<1> HIDE DEF v
<1>6. Sends(v, w, p) /\ Onward(t, v, w) /\ v.state \in Lives /\ SentTo(v, w) = SentTo(t, w) /\ AckedTo(v, w) = u
  BY <1>5, AlikeSends
<1>7. CASE a < u
  <2>1. Onward(t, t, w)
    BY <1>1, StatesAre DEF Onward
  <2>2. t.state # "closed"
    BY DEF Lives, Fins, Awaits, Rests, Opens
  <2>3. Answered(t, t, w, p)
    BY <2>1, <2>2 DEF Answered, StillHears, Advances
  <2> QED
    BY <1>4, <1>7, <2>3
<1>8. CASE ~(a < u) /\ ~(u < a)
  <2>1. v.state # "closed"
    BY <1>6 DEF Lives, Fins, Awaits, Rests, Opens
  <2>2. Answered(t, v, w, p)
    BY <1>5, <1>6, <2>1 DEF Answered, Advances
  <2> QED
    BY <1>4, <1>5, <1>8, <2>2
<1>9. CASE ~(a < u) /\ u < a
  <2>1. AckedTo(v, w) < a
    BY <1>6, <1>9
  <2>2. m \in Connections /\ Moved(v, m, w, p, a)
    BY <1>5, <1>6, <2>1, TrimmedShape
  <2> HIDE DEF m
  <2>3. Answered(v, Advanced(m), w, p)
    BY <1>5, <1>6, <2>1, <2>2, MovedKeeps
  <2>4. Advanced(m) \in Connections
    BY <2>2, AdvancedShape
  <2> DEFINE f == Advanced(m)
  <2> HIDE DEF f
  <2>5. Onward(t, f, w)
    BY <1>5, <1>6, <2>3 DEF Answered, Onward, f
  <2>6. StillHears(t, f) /\ Advances(t, f)
    BY <1>5, <2>3 DEF Answered, StillHears, Advances, f
  <2>7. Answered(t, f, w, p)
    BY <2>3, <2>5, <2>6 DEF Answered, f
  <2> QED
    BY <1>4, <1>9, <2>4, <2>7 DEF f
<1> QED
  BY <1>7, <1>8, <1>9

-----------------------------------------------------------------------------
(* What is received.                                                       *)

\* The segment carries the peer's bytes behind position from, and its FIN only
\* if there is nothing behind them.
Brings(s, p, from) ==
    /\ from \in 0 .. p.sent /\ s.sequence = Plus(PeerISN, 1 + from)
    /\ from + Len(s.payload) <= p.sent
    /\ \A i \in 1 .. Len(s.payload) : s.payload[i] = from + i
    /\ s.fin => p.fin /\ from + Len(s.payload) = p.sent

\* New bytes in order are kept as far as they fit.
Keeps(t, f, r, p) ==
    /\ Alike(t, f) /\ f.state = t.state
    /\ Holds(f, r, p)
    /\ f.receiveNext = Plus(PeerISN, 1 + Len(Got(f, r)))

LEMMA AcceptedKeeps ==
    ASSUME NEW t \in Connections, NEW r \in Seq(Nat), NEW p \in Peers, NEW s \in Inbound, NEW from,
           Brings(s, p, from), Holds(t, r, p), t.receiveNext = Plus(PeerISN, 1 + Len(Got(t, r))),
           ~(Offset(t, s) > 0)
    PROVE  Accepted(t, s) \in Connections /\ Keeps(t, Accepted(t, s), r, p)
<1> DEFINE g == Len(Got(t, r))
           l == Len(s.payload)
           b == Len(t.receiveBuffer)
           o == Offset(t, s)
           skipped == Smaller(l, IF o < 0 THEN -o ELSE 0)
           count == Smaller(l - skipped, Window(t))
           piece == Taken(Dropped(s.payload, skipped), count)
           f == [t EXCEPT !.receiveBuffer = t.receiveBuffer \o piece, !.receiveNext = Plus(t.receiveNext, count)]
<1>1. /\ from \in 0 .. p.sent /\ s.sequence = Plus(PeerISN, 1 + from)
      /\ from + l <= p.sent
      /\ \A i \in 1 .. l : s.payload[i] = from + i
  BY DEF Brings
<1>2. /\ t.receiveBuffer \in Seq(Nat) /\ b \in Nat /\ t.receiveNext \in Numbers /\ s.payload \in Seq(Nat) /\ l \in Nat
      /\ p.sent \in 0 .. MaxPeerBytes /\ MaxPeerBytes \in Nat /\ ReceiveCapacity \in Nat /\ PeerISN \in Numbers
  BY ConnectionFields, Facts DEF Inbound, Peers
<1>3. Got(t, r) \in Seq(Nat) /\ g = Len(r) + b /\ g \in Nat /\ Len(r) \in Nat
  BY <1>2, JoinShape DEF Got
<1>4. g <= p.sent /\ b <= ReceiveCapacity /\ \A i \in 1 .. g : Got(t, r)[i] = i
  BY <1>3 DEF Holds, Counting
<1> HIDE DEF g, l, b
<1>5. o = from - g
  <2>1. 1 + from \in 0 .. MaxPeerBytes + 2 /\ 1 + g \in 0 .. MaxPeerBytes + 2
    <3> DEFINE z == p.sent
    <3>1. from \in 0 .. z /\ z \in 0 .. MaxPeerBytes /\ MaxPeerBytes \in Nat /\ g \in Nat /\ g <= z
      BY <1>1, <1>2, <1>3, <1>4
    <3> HIDE DEF z
    <3> QED
      BY <3>1
  <2>2. /\ 1 + from \in Int /\ 1 + g \in Int /\ 2 * ((1 + from) - (1 + g)) < Modulus
        /\ 2 * ((1 + g) - (1 + from)) < Modulus
    BY <2>1, PeerNear
  <2>3. Signed(Plus(PeerISN, 1 + from), Plus(PeerISN, 1 + g)) = (1 + from) - (1 + g)
    BY <1>2, <2>2, SignedIs
  <2>4. o = (1 + from) - (1 + g)
    BY <1>1, <2>3 DEF Offset, g
  <2> QED
    BY <1>1, <1>2, <1>3, <2>4
<1> HIDE DEF o
<1>6. ~(o > 0)
  BY DEF o
<1>7. /\ skipped \in 0 .. l /\ l - skipped \in Nat
      /\ count \in 0 .. l - skipped /\ count <= ReceiveCapacity - b
      /\ count > 0 => skipped = g - from
  <2>1. Window(t) = ReceiveCapacity - b
    BY DEF Window, b
  <2>2. skipped = IF l < -o THEN l ELSE -o
    <3>0. o \in Int
      BY <1>1, <1>2, <1>3, <1>5
    <3>1. (IF o < 0 THEN -o ELSE 0) = -o
      BY <1>6, <3>0
    <3> QED
      BY <3>1 DEF Smaller
  <2>3. skipped \in 0 .. l /\ (skipped = l \/ skipped = g - from)
    <3> HIDE DEF skipped
    <3> QED
      BY <1>1, <1>2, <1>3, <1>5, <1>6, <2>2
  <2> HIDE DEF skipped
  <2>4. count = IF l - skipped < ReceiveCapacity - b THEN l - skipped ELSE ReceiveCapacity - b
    BY <2>1 DEF Smaller
  <2> HIDE DEF count
  <2> QED
    BY <1>2, <1>4, <2>3, <2>4
<1> HIDE DEF skipped, count
<1>8. /\ piece \in Seq(Nat) /\ Len(piece) = count
      /\ \A i \in 1 .. count : piece[i] = g + i
  <2> DEFINE d == Dropped(s.payload, skipped)
  <2>1. d \in Seq(Nat) /\ Len(d) = l - skipped /\ \A i \in 1 .. l - skipped : d[i] = s.payload[skipped + i]
    BY <1>2, <1>7, DroppedShape DEF l
  <2> HIDE DEF d
  <2>2. Taken(d, count) \in Seq(Nat) /\ Len(Taken(d, count)) = count /\ \A i \in 1 .. count : Taken(d, count)[i] = d[i]
    <3>1. count \in 0 .. Len(d)
      BY <1>7, <2>1
    <3> QED
      BY <2>1, <3>1, TakenShape
  <2>3. ASSUME NEW i \in 1 .. count PROVE Taken(d, count)[i] = g + i
    <3>1. i \in 1 .. l - skipped /\ skipped + i \in 1 .. l /\ skipped = g - from
      BY <1>2, <1>7
    <3>2. Taken(d, count)[i] = s.payload[skipped + i] /\ s.payload[skipped + i] = from + (skipped + i)
      BY <1>1, <2>1, <2>2, <3>1
    <3> DEFINE x == Taken(d, count)[i]
    <3>3. x = from + (skipped + i)
      BY <3>2
    <3> HIDE DEF x
    <3>4. x = g + i
      BY <1>1, <1>2, <1>3, <1>7, <3>1, <3>3
    <3> QED
      BY <3>4 DEF x
  <2> QED
    BY <2>2, <2>3 DEF d
<1>9. Accepted(t, s) = f
  BY DEF Accepted, count, skipped, o, l
<1> HIDE DEF piece
<1> DEFINE buffer == t.receiveBuffer \o piece
           next == Plus(t.receiveNext, count)
<1>10. /\ buffer \in Seq(Nat) /\ Len(buffer) = b + count
       /\ \A i \in 1 .. b : buffer[i] = t.receiveBuffer[i]
       /\ \A i \in 1 .. count : buffer[b + i] = piece[i]
  <2> DEFINE old == t.receiveBuffer
  <2>1. old \in Seq(Nat) /\ piece \in Seq(Nat)
    BY <1>2, <1>8
  <2> HIDE DEF old
  <2>2. /\ old \o piece \in Seq(Nat) /\ Len(old \o piece) = Len(old) + Len(piece)
        /\ \A i \in 1 .. Len(old) : (old \o piece)[i] = old[i]
        /\ \A i \in 1 .. Len(piece) : (old \o piece)[Len(old) + i] = piece[i]
    BY <2>1, JoinShape
  <2>3. b = Len(old) /\ buffer = old \o piece
    BY DEF b, old
  <2> HIDE DEF buffer
  <2> QED
    BY <1>8, <2>2, <2>3 DEF old
<1>11. next \in Numbers
  <2>1. count \in Int
    BY <1>7
  <2> QED
    BY <1>2, <2>1, PlusType
<1>12. next = Plus(PeerISN, 1 + (g + count))
  <2>1. 1 + g \in Int /\ count \in Int /\ (1 + g) + count = 1 + (g + count)
    BY <1>3, <1>7
  <2>2. Plus(Plus(PeerISN, 1 + g), count) = Plus(PeerISN, (1 + g) + count)
    BY <1>2, <2>1, PlusPlus
  <2> QED
    BY <2>1, <2>2 DEF g
<1>13. f \in Connections
  <2>1. f = [t EXCEPT !.receiveBuffer = buffer, !.receiveNext = next]
    OBVIOUS
  <2> HIDE DEF buffer, next, f
  <2> QED
    BY <1>10, <1>11, <2>1, Zenon DEF Connections
<1>14. f.receiveBuffer = buffer /\ f.receiveNext = next /\ f.state = t.state /\ Alike(t, f)
  BY DEF Connections, Alike
<1> HIDE DEF f, buffer, next
<1>15. /\ Got(f, r) \in Seq(Nat) /\ Len(Got(f, r)) = g + count
       /\ \A i \in 1 .. g + count : Got(f, r)[i] = i
  <2>1. Got(f, r) = r \o buffer
    BY <1>14 DEF Got
  <2>2. /\ r \o buffer \in Seq(Nat) /\ Len(r \o buffer) = Len(r) + (b + count)
        /\ \A i \in 1 .. Len(r) : (r \o buffer)[i] = r[i]
        /\ \A i \in 1 .. b + count : (r \o buffer)[Len(r) + i] = buffer[i]
    <3>0. buffer \in Seq(Nat) /\ r \in Seq(Nat)
      BY <1>10
    <3>1. /\ r \o buffer \in Seq(Nat) /\ Len(r \o buffer) = Len(r) + Len(buffer)
          /\ \A i \in 1 .. Len(r) : (r \o buffer)[i] = r[i]
          /\ \A i \in 1 .. Len(buffer) : (r \o buffer)[Len(r) + i] = buffer[i]
      BY <3>0, JoinShape
    <3> QED
      BY <1>10, <3>1
  <2>3. /\ \A i \in 1 .. Len(r) : Got(t, r)[i] = r[i]
        /\ \A i \in 1 .. b : Got(t, r)[Len(r) + i] = t.receiveBuffer[i]
    BY <1>2, JoinShape DEF Got, b
  <2> DEFINE q == Got(f, r)
             n == Len(r)
  <2>4. /\ n \in Nat /\ g = n + b /\ b \in Nat /\ count \in Nat
    BY <1>2, <1>3, <1>7
  <2>5. ASSUME NEW i \in 1 .. g + count PROVE q[i] = i
    <3>1. CASE i \in 1 .. n
      <4>1. q[i] = r[i] /\ Got(t, r)[i] = r[i] /\ i \in 1 .. g
        BY <2>1, <2>2, <2>3, <2>4, <3>1
      <4> QED
        BY <1>4, <4>1
    <3>2. CASE i \in n + 1 .. n + b
      <4>1. PICK j \in 1 .. b : i = n + j
        <5>1. i - n \in 1 .. b /\ i = n + (i - n)
          BY <2>4, <3>2
        <5> QED
          BY <5>1
      <4>2. j \in 1 .. b + count /\ n + j \in 1 .. g
        BY <2>4
      <4>3. q[n + j] = buffer[j]
        BY <2>1, <2>2, <4>2
      <4>4. buffer[j] = t.receiveBuffer[j] /\ Got(t, r)[n + j] = t.receiveBuffer[j]
        BY <1>10, <2>3
      <4>5. Got(t, r)[n + j] = n + j
        BY <1>4, <4>2
      <4> QED
        BY <4>1, <4>3, <4>4, <4>5
    <3>3. CASE i \in g + 1 .. g + count
      <4>1. PICK j \in 1 .. count : i = g + j
        <5>1. i - g \in 1 .. count /\ i = g + (i - g)
          BY <1>3, <2>4, <3>3
        <5> QED
          BY <5>1
      <4>2. b + j \in 1 .. b + count /\ g + j = n + (b + j)
        BY <2>4
      <4>3. q[n + (b + j)] = buffer[b + j]
        BY <2>1, <2>2, <4>2
      <4>4. buffer[b + j] = piece[j] /\ piece[j] = g + j
        BY <1>8, <1>10
      <4> QED
        BY <4>1, <4>2, <4>3, <4>4
    <3>4. i \in 1 .. n \/ i \in n + 1 .. n + b \/ i \in g + 1 .. g + count
      <4> HIDE DEF n
      <4> QED
        BY <1>3, <2>4
    <3> QED
      BY <3>1, <3>2, <3>3, <3>4
  <2>6. Len(q) = g + count
    <3>1. Len(q) = n + (b + count)
      BY <2>1, <2>2
    <3> HIDE DEF n, q
    <3> QED
      BY <2>4, <3>1
  <2> QED
    BY <2>1, <2>2, <2>5, <2>6
<1>16. g + count <= p.sent /\ b + count <= ReceiveCapacity
  BY <1>1, <1>2, <1>3, <1>4, <1>7
<1>17. Holds(f, r, p)
  <2>1. Len(f.receiveBuffer) <= ReceiveCapacity
    BY <1>10, <1>14, <1>16
  <2>2. Counting(Got(f, r))
    BY <1>15, CountingIs
  <2> QED
    BY <1>15, <1>16, <2>1, <2>2 DEF Holds
<1>18. Keeps(t, f, r, p)
  BY <1>12, <1>14, <1>15, <1>17 DEF Keeps
<1> QED
  BY <1>9, <1>13, <1>18
\* The peer's FIN counts only behind its last byte.
LEMMA FinishedKeeps ==
    ASSUME NEW t \in Connections, NEW r \in Seq(Nat), NEW p \in Peers, NEW s \in Inbound, NEW from,
           Brings(s, p, from), NEW f \in Connections, Keeps(t, f, r, p), t.state \in Hears
    PROVE  /\ Finished(f, t, s) \in Connections /\ Alike(f, Finished(f, t, s))
           /\ Holds(Finished(f, t, s), r, p) /\ Hearing(Finished(f, t, s), r, p)
<1> DEFINE whole == /\ s.fin
                    /\ Plus(s.sequence, Len(s.payload)) = f.receiveNext
                    /\ Length(s) + Offset(t, s) <= Window(t)
           next == Plus(f.receiveNext, 1)
           state == CASE f.state = "established" -> "closeWait"
                      [] f.state = "finWait1" -> "closing"
                      [] f.state = "finWait2" -> "timeWait"
           deadline == f.closeDeadline \/ f.state = "finWait2"
           x == [f EXCEPT !.receiveNext = next, !.state = state, !.closeDeadline = deadline]
           g == Len(Got(f, r))
           l == Len(s.payload)
<1>1. Finished(f, t, s) = IF whole THEN x ELSE f
  BY DEF Finished
<1>2. /\ f.state = t.state /\ f.state \in Hears /\ Holds(f, r, p) /\ f.receiveNext = Plus(PeerISN, 1 + g)
  BY DEF Keeps
<1>3. f.state \in {"established", "finWait1", "finWait2"}
  BY <1>2 DEF Hears
<1>4. /\ from \in 0 .. p.sent /\ s.sequence = Plus(PeerISN, 1 + from) /\ from + l <= p.sent
      /\ s.fin => p.fin /\ from + l = p.sent
  BY DEF Brings
<1>5. /\ s.payload \in Seq(Nat) /\ l \in Nat /\ f.receiveNext \in Numbers /\ PeerISN \in Numbers
      /\ p.sent \in 0 .. MaxPeerBytes /\ MaxPeerBytes \in Nat /\ deadline \in BOOLEAN
      /\ f.receiveBuffer \in Seq(Nat)
  BY ConnectionFields, Facts DEF Inbound, Peers
<1>6. g \in Nat /\ g <= p.sent
  BY <1>2, <1>5, JoinShape DEF Got, Holds
<1>7. Hearing(f, r, p)
  <2>1. One(f.state \notin Hears) = 0
    BY <1>2 DEF One
  <2> HIDE DEF g
  <2>2. 1 + g + 0 = 1 + g
    BY <1>6
  <2>3. f.receiveNext = Plus(PeerISN, 1 + g + One(f.state \notin Hears))
    BY <1>2, <2>1, <2>2
  <2> QED
    BY <1>2, <2>3 DEF Hearing, g
<1>8. Alike(f, f)
  BY DEF Alike
<1>9. ASSUME whole PROVE x \in Connections /\ Alike(f, x) /\ Holds(x, r, p) /\ Hearing(x, r, p)
  <2>1. s.fin /\ Plus(s.sequence, l) = f.receiveNext
    BY <1>9
  <2> HIDE DEF g, l
  <2>2. Plus(s.sequence, l) = Plus(PeerISN, 1 + (from + l))
    <3>1. 1 + from \in Int /\ l \in Int /\ (1 + from) + l = 1 + (from + l)
      BY <1>4, <1>5
    <3>2. Plus(Plus(PeerISN, 1 + from), l) = Plus(PeerISN, (1 + from) + l)
      BY <1>5, <3>1, PlusPlus
    <3> QED
      BY <1>4, <3>1, <3>2
  <2>3. 1 + (from + l) = 1 + g
    <3>1. 1 + (from + l) \in 0 .. MaxPeerBytes + 2 /\ 1 + g \in 0 .. MaxPeerBytes + 2
      BY <1>4, <1>5, <1>6
    <3> DEFINE k == 1 + (from + l)
               h == 1 + g
    <3>2. k \in Int /\ h \in Int /\ 2 * (k - h) < Modulus /\ 2 * (h - k) < Modulus
      BY <3>1, PeerNear
    <3>3. Plus(PeerISN, k) = Plus(PeerISN, h)
      BY <1>2, <2>1, <2>2
    <3> HIDE DEF k, h
    <3>4. k = h
      BY <1>5, <3>2, <3>3, PlusIsOne
    <3> QED
      BY <3>4 DEF k, h
  <2>4. g = p.sent /\ p.fin
    <3>1. p.fin /\ from + l = p.sent
      BY <1>4, <2>1
    <3> QED
      BY <1>4, <1>5, <1>6, <2>3, <3>1
  <2>5. next = Plus(PeerISN, 1 + g + 1) /\ next \in Numbers
    <3>1. 1 + g \in Int /\ 1 \in Int
      BY <1>6
    <3>2. Plus(Plus(PeerISN, 1 + g), 1) = Plus(PeerISN, 1 + g + 1)
      BY <1>5, <3>1, PlusPlus
    <3>3. next \in Numbers
      BY <1>5, <3>1, PlusType
    <3> QED
      BY <1>2, <3>2, <3>3
  <2>6. /\ state \in States /\ state \notin Hears
        /\ (state \in Opens) <=> (f.state \in Opens)
        /\ (state \in Awaits) <=> (f.state \in Awaits)
        /\ (state \in Rests) <=> (f.state \in Rests)
    BY <1>3 DEF States, Hears, Opens, Awaits, Rests
  <2> HIDE DEF next, state, deadline
  <2>7. x \in Connections
    BY <1>5, <2>5, <2>6, Zenon DEF Connections
  <2>8. /\ x.state = state /\ x.receiveNext = next /\ x.receiveBuffer = f.receiveBuffer
        /\ x.next = f.next /\ x.una = f.una /\ x.sendBuffer = f.sendBuffer
        /\ x.lastAcknowledgedByte = f.lastAcknowledgedByte /\ x.pending = f.pending
        /\ x.zeroWindow = f.zeroWindow /\ x.peerWindow = f.peerWindow
    BY DEF Connections
  <2> HIDE DEF x
  <2>9. Alike(f, x)
    BY <2>6, <2>8 DEF Alike
  <2>10. Got(x, r) = Got(f, r)
    BY <2>8 DEF Got
  <2>11. Holds(x, r, p)
    BY <1>2, <2>8, <2>10 DEF Holds
  <2>12. One(x.state \notin Hears) = 1
    BY <2>6, <2>8 DEF One
  <2>13. Hearing(x, r, p)
    BY <2>4, <2>5, <2>8, <2>10, <2>12 DEF Hearing, g
  <2> QED
    BY <2>7, <2>9, <2>11, <2>13
<1> HIDE DEF x, whole
<1> QED
  BY <1>1, <1>2, <1>7, <1>8, <1>9

-----------------------------------------------------------------------------
(* Steps of the connection.                                                *)

LEMMA OnwardOn ==
    ASSUME NEW t, NEW f, NEW h, NEW w, Onward(t, f, w), Onward(f, h, w)
    PROVE  Onward(t, h, w)
<1>1. /\ h.state \in {"idle", "synSent"} => t.state \in {"idle", "synSent"}
      /\ t.state \in Fins \cup Ends => h.state \in Fins \cup Ends
  BY DEF Onward
<1>2. ASSUME h.state \in Lives
      PROVE  t.state \in Lives /\ SentTo(t, w) <= SentTo(h, w) /\ SentTo(t, w) \in Nat /\ SentTo(h, w) \in Nat
  <2>1. f.state \in Lives /\ SentTo(f, w) <= SentTo(h, w) /\ SentTo(f, w) \in Nat /\ SentTo(h, w) \in Nat
    BY <1>2 DEF Onward
  <2>2. t.state \in Lives /\ SentTo(t, w) <= SentTo(f, w) /\ SentTo(t, w) \in Nat
    BY <2>1 DEF Onward
  <2> QED
    BY <2>1, <2>2
<1> QED
  BY <1>1, <1>2 DEF Onward

LEMMA TakingStays ==
    ASSUME NEW p, NEW t, NEW f, NEW w, Taking(p, t, w), Onward(t, f, w)
    PROVE  Taking(p, f, w)
  BY DEF Taking, Onward

LEMMA AllTaken ==
    ASSUME NEW p \in Peers, NEW t, NEW w \in 0 .. MaxWritten, Taking(p, t, w), TakenTo(p) = w + 2
    PROVE  p.end /\ Len(p.taken) = w
<1> DEFINE l == Len(p.taken)
           e == One(p.end)
<1>1. l \in Nat /\ l <= w /\ e \in {0, 1} /\ w \in Nat /\ (~p.end => e = 0)
  BY OneIs, Facts DEF Taking, Peers
<1>2. 1 + l + e = w + 2
  BY DEF TakenTo
<1> HIDE DEF l, e
<1>3. e = 1 /\ l = w
  BY <1>1, <1>2
<1> QED
  BY <1>1, <1>3 DEF l

\* A step that leaves both applications and the network's past alone.
LEMMA BecomesKeeps ==
    ASSUME TCPInv, NEW f \in Connections, NEW out, Becomes(f, out), UNCHANGED <<written, received, peer>>,
           aborted' \in BOOLEAN, Connected(f, written, received, peer), Onward(tcp, f, written),
           \A s \in out : s \in Segments /\ Sound(s, f, written),
           f.state = "closed" /\ ~aborted' => peer.end /\ Len(peer.taken) = written
    PROVE  TCPInv'
<1>1. tcp' = f /\ wire' = wire \cup out /\ written' = written /\ received' = received /\ peer' = peer
  BY DEF Becomes
<1>2. Types'
  BY <1>1 DEF TCPInv, Types
<1>3. Connected(tcp, written, received, peer)'
  BY <1>1
<1>4. ASSUME NEW s \in wire' PROVE Sound(s, f, written)
  <2>1. CASE s \in wire
    <3>1. s \in Segments /\ written \in 0 .. MaxWritten /\ Sound(s, tcp, written)
      BY <2>1 DEF TCPInv, Types
    <3> QED
      BY <3>1, SoundStays
  <2>2. CASE s \in out
    BY <2>2
  <2> QED
    BY <1>1, <1>4, <2>1, <2>2
<1>5. (\A s \in wire : Sound(s, tcp, written))'
  BY <1>1, <1>4
<1>6. Closed'
  BY <1>1 DEF Closed
<1> QED
  BY <1>2, <1>3, <1>5, <1>6 DEF TCPInv

\* The connection's own part of the invariant while it lives.
Alive(t, w, r, p) ==
    /\ t \in Connections /\ t.state \in Lives /\ Sends(t, w, p) /\ Hearing(t, r, p) /\ Holds(t, r, p) /\ Taking(p, t, w)

LEMMA AliveIsConnected ==
    ASSUME NEW t, NEW w, NEW r, NEW p, Alive(t, w, r, p)
    PROVE  Connected(t, w, r, p) /\ t.state # "closed"
<1>1. t.state \notin {"idle", "synSent"} /\ t.state # "closed"
  BY DEF Alive, Lives, Opens, Fins, Awaits, Rests
<1> QED
  BY <1>1 DEF Alive, Connected

LEMMA FlushesKeep ==
    ASSUME NEW t, NEW w \in 0 .. MaxWritten, NEW r, NEW p \in Peers, Alive(t, w, r, p)
    PROVE  LET f == Flush(t).tcp
           IN  /\ Alive(f, w, r, p) /\ Onward(t, f, w)
               /\ \A s \in Flush(t).out : s \in Segments /\ Sound(s, f, w)
<1> DEFINE f == Flush(t).tcp
           out == Flush(t).out
<1>1. t \in Connections /\ t.state \in Lives /\ Sends(t, w, p) /\ Hearing(t, r, p) /\ Holds(t, r, p) /\ Taking(p, t, w)
  BY DEF Alive
<1>2. f \in Connections /\ Kept(t, f) /\ Flushed(t, f, out, w, p)
  BY <1>1, FlushKeeps
<1> HIDE DEF f, out
<1>3. /\ Sends(f, w, p) /\ Onward(t, f, w) /\ f.state \in Lives /\ (f.state \in Hears <=> t.state \in Hears)
      /\ \A s \in out : s \in Segments /\ Sound(s, f, w)
  BY <1>2 DEF Flushed
<1>4. Got(f, r) = Got(t, r) /\ f.receiveNext = t.receiveNext /\ f.receiveBuffer = t.receiveBuffer
  BY <1>2 DEF Kept, Got
<1>5. Holds(f, r, p)
  BY <1>1, <1>4 DEF Holds
<1>6. Hearing(f, r, p)
  BY <1>1, <1>3, <1>4 DEF Hearing, One
<1>7. Taking(p, f, w)
  BY <1>1, <1>3, TakingStays
<1>8. Alive(f, w, r, p)
  BY <1>2, <1>3, <1>5, <1>6, <1>7 DEF Alive
<1> QED
  BY <1>3, <1>8 DEF f, out
LEMMA OnwardToEnd ==
    ASSUME NEW t, NEW f, NEW w, f.state \in Ends
    PROVE  Onward(t, f, w)
<1>1. f.state \notin Lives /\ f.state \notin {"idle", "synSent"}
  BY StatesAre
<1> QED
  BY <1>1 DEF Onward

\* What remains of a connection that is over.
LEMMA OverIsConnected ==
    ASSUME NEW t, NEW w, NEW r, NEW p, NEW f, f.state \in Ends, Holds(f, r, p), Taking(p, t, w)
    PROVE  Connected(f, w, r, p) /\ Onward(t, f, w)
<1>1. f.state \notin Lives /\ f.state \notin {"idle", "synSent"} /\ Onward(t, f, w)
  BY StatesAre, OnwardToEnd
<1>2. Taking(p, f, w)
  BY <1>1, TakingStays
<1> QED
  BY <1>1, <1>2 DEF Connected

LEMMA LivesAre ==
    /\ \A x \in States : x \in Lives \/ x \in Ends \/ x \in {"idle", "synSent"}
    /\ "closed" \in Ends /\ "failed" \in Ends
    /\ \A x \in Lives : x \in States
  BY DEF States, Lives, Opens, Fins, Awaits, Rests, Ends

LEMMA InvariantParts ==
    ASSUME TCPInv
    PROVE  /\ tcp \in Connections /\ written \in 0 .. MaxWritten /\ received \in Seq(Nat) /\ aborted \in BOOLEAN
           /\ wire \subseteq Segments /\ peer \in Peers
           /\ Holds(tcp, received, peer) /\ Taking(peer, tcp, written)
           /\ tcp.state \in Lives => Alive(tcp, written, received, peer)
           /\ tcp.state \in {"idle", "synSent"} => Silent(tcp, written, received, peer)
           /\ \A s \in wire : Sound(s, tcp, written)
           /\ Closed
  BY DEF TCPInv, Types, Connected, Alive

\* A connection that goes on living.
LEMMA AliveKeeps ==
    ASSUME TCPInv, NEW f, NEW out, Becomes(f, out), UNCHANGED <<written, received, aborted, peer>>,
           Alive(f, written, received, peer), Onward(tcp, f, written),
           \A s \in out : s \in Segments /\ Sound(s, f, written)
    PROVE  TCPInv'
<1>1. Connected(f, written, received, peer) /\ f.state # "closed"
  BY AliveIsConnected
<1>2. f \in Connections
  BY DEF Alive
<1>3. aborted' \in BOOLEAN
  BY InvariantParts
<1> QED
  BY <1>1, <1>2, <1>3, BecomesKeeps

\* A connection that flushes before it goes on.
LEMMA AliveFlushes ==
    ASSUME TCPInv, NEW f, Flushes(f), UNCHANGED <<written, received, aborted, peer>>,
           Alive(f, written, received, peer), Onward(tcp, f, written)
    PROVE  TCPInv'
<1> DEFINE h == Flush(f).tcp
           out == Flush(f).out
<1>1. written \in 0 .. MaxWritten /\ peer \in Peers
  BY InvariantParts
<1>2. /\ Alive(h, written, received, peer) /\ Onward(f, h, written)
      /\ \A s \in out : s \in Segments /\ Sound(s, h, written)
  BY <1>1, FlushesKeep
<1>3. Becomes(h, out)
  BY DEF Flushes
<1> HIDE DEF h, out
<1>4. Onward(tcp, h, written)
  BY <1>2, OnwardOn
<1> QED
  BY <1>2, <1>3, <1>4, AliveKeeps

LEMMA AnsweredAlive ==
    ASSUME NEW t, NEW w, NEW r, NEW p, Alive(t, w, r, p), NEW f \in Connections, Answered(t, f, w, p), f.state \in Lives
    PROVE  Alive(f, w, r, p)
<1>1. Hearing(t, r, p) /\ Holds(t, r, p) /\ Taking(p, t, w) /\ t.state \in Lives
  BY DEF Alive
<1>2. Onward(t, f, w) /\ StillHears(t, f) /\ Advances(t, f) /\ Sends(f, w, p)
  BY DEF Answered
<1>3. (f.state \in Hears) <=> (t.state \in Hears)
  BY <1>2 DEF Advances, Hears, Lives, Opens, Fins, Awaits, Rests
<1>4. f.receiveNext = t.receiveNext /\ f.receiveBuffer = t.receiveBuffer /\ Got(f, r) = Got(t, r)
  BY <1>2 DEF StillHears, Got
<1>5. Hearing(f, r, p)
  BY <1>1, <1>3, <1>4 DEF Hearing, One
<1>6. Holds(f, r, p)
  BY <1>1, <1>4 DEF Holds
<1>7. Taking(p, f, w)
  BY <1>1, <1>2, TakingStays
<1> QED
  BY <1>2, <1>5, <1>6, <1>7 DEF Alive

\* New bytes and the peer's FIN leave a connection alive.
LEMMA HeardAlive ==
    ASSUME NEW t, NEW w \in 0 .. MaxWritten, NEW r \in Seq(Nat), NEW p \in Peers, Alive(t, w, r, p), t.state \in Hears,
           NEW s \in Inbound, NEW from, Brings(s, p, from), ~(Offset(t, s) > 0)
    PROVE  /\ Alive(Finished(Accepted(t, s), t, s), w, r, p)
           /\ Onward(t, Finished(Accepted(t, s), t, s), w)
<1> DEFINE f == Accepted(t, s)
           x == Finished(f, t, s)
<1>1. t \in Connections /\ t.state \in Lives /\ Sends(t, w, p) /\ Hearing(t, r, p) /\ Holds(t, r, p) /\ Taking(p, t, w)
  BY DEF Alive
<1>2. t.receiveNext = Plus(PeerISN, 1 + Len(Got(t, r)))
  <2>1. One(t.state \notin Hears) = 0
    BY DEF One
  <2> DEFINE g == Len(Got(t, r))
  <2>2. g \in Nat
    BY <1>1, ConnectionFields, JoinShape DEF Got
  <2>3. t.receiveNext = Plus(PeerISN, 1 + g + 0)
    BY <1>1, <2>1 DEF Hearing
  <2> HIDE DEF g
  <2>4. 1 + g + 0 = 1 + g
    BY <2>2
  <2>5. t.receiveNext = Plus(PeerISN, 1 + g)
    BY <2>3, <2>4
  <2> QED
    BY <2>5 DEF g
<1>3. f \in Connections /\ Keeps(t, f, r, p)
  BY <1>1, <1>2, AcceptedKeeps
<1> HIDE DEF f
<1>4. x \in Connections /\ Alike(f, x) /\ Holds(x, r, p) /\ Hearing(x, r, p)
  BY <1>1, <1>3, FinishedKeeps
<1> HIDE DEF x
<1>5. Alike(t, f)
  BY <1>3 DEF Keeps
<1>6. Sends(f, w, p) /\ Onward(t, f, w) /\ f.state \in Lives
  BY <1>1, <1>5, AlikeSends
<1>7. Sends(x, w, p) /\ Onward(f, x, w) /\ x.state \in Lives
  BY <1>3, <1>4, <1>6, AlikeSends
<1>8. Onward(t, x, w)
  BY <1>6, <1>7, OnwardOn
<1>9. Taking(p, x, w)
  BY <1>1, <1>8, TakingStays
<1>10. Alive(x, w, r, p)
  BY <1>4, <1>7, <1>9 DEF Alive
<1> QED
  BY <1>8, <1>10 DEF f, x

LEMMA ReceiveKeeps ==
    ASSUME TCPInv, NEW s \in Inbound, NEW from, Brings(s, peer, from),
           NEW a \in Nat, 1 <= a, a <= TakenTo(peer), s.ack = Plus(ISN, a), Receive(s)
    PROVE  TCPInv'
<1> DEFINE t == Acknowledged(tcp, s)
           Deaf == {"closeWait", "lastAck", "closing", "timeWait"}
<1>1. /\ tcp.state \notin {"idle", "closed", "failed", "synSent", "timeWait"}
      /\ IF t.state = "closed" THEN Becomes(t, {})
         ELSE IF Offset(tcp, s) > 0 \/ t.state \in Deaf
         THEN Flushes(t)
         ELSE Flushes(Finished(Accepted(t, s), t, s))
      /\ UNCHANGED <<written, received, aborted, peer>>
  BY DEF Receive
<1>2. /\ tcp \in Connections /\ written \in 0 .. MaxWritten /\ received \in Seq(Nat) /\ aborted \in BOOLEAN /\ peer \in Peers
      /\ Holds(tcp, received, peer) /\ Taking(peer, tcp, written)
      /\ tcp.state \in Lives => Alive(tcp, written, received, peer)
  BY InvariantParts
<1>3. tcp.state \in Lives
  <2>1. tcp.state \in States
    BY <1>2, ConnectionFields
  <2> QED
    BY <1>1, <2>1, LivesAre DEF Ends
<1>4. Alive(tcp, written, received, peer) /\ Sends(tcp, written, peer)
  BY <1>2, <1>3 DEF Alive
<1>5. t \in Connections /\ Answered(tcp, t, written, peer)
  BY <1>2, <1>3, <1>4, AcknowledgedKeeps
<1> HIDE DEF t
<1>6. Onward(tcp, t, written) /\ StillHears(tcp, t) /\ t.state \in Lives \cup {"closed"}
  BY <1>5 DEF Answered
<1>7. CASE t.state = "closed"
  <2>1. Becomes(t, {}) /\ t.state \in Ends
    BY <1>1, <1>7, LivesAre
  <2>2. Holds(t, received, peer)
    BY <1>2, <1>6 DEF Holds, StillHears, Got
  <2>3. Connected(t, written, received, peer)
    BY <1>2, <2>1, <2>2, OverIsConnected
  <2>4. TakenTo(peer) = written + 2
    BY <1>5, <1>7 DEF Answered
  <2>5. peer.end /\ Len(peer.taken) = written
    BY <1>2, <2>4, AllTaken
  <2>6. UNCHANGED <<written, received, peer>> /\ aborted' \in BOOLEAN
    BY <1>1, <1>2
  <2>7. \A x \in {} : x \in Segments /\ Sound(x, t, written)
    OBVIOUS
  <2> QED
    BY <1>5, <1>6, <2>1, <2>3, <2>5, <2>6, <2>7, BecomesKeeps
<1>8. CASE t.state # "closed"
  <2>1. t.state \in Lives
    BY <1>6, <1>8
  <2>2. Alive(t, written, received, peer)
    BY <1>4, <1>5, <2>1, AnsweredAlive
  <2>3. CASE Offset(tcp, s) > 0 \/ t.state \in Deaf
    <3>1. Flushes(t)
      BY <1>1, <1>8, <2>3
    <3> QED
      BY <1>1, <1>6, <2>2, <3>1, AliveFlushes
  <2>4. CASE ~(Offset(tcp, s) > 0) /\ t.state \notin Deaf
    <3> DEFINE x == Finished(Accepted(t, s), t, s)
    <3>1. Flushes(x)
      BY <1>1, <1>8, <2>4
    <3>2. t.state \in Hears
      BY <2>1, <2>4 DEF Hears, Lives, Opens, Fins, Awaits, Rests
    <3>3. ~(Offset(t, s) > 0)
      BY <1>6, <2>4 DEF Offset, StillHears
    <3>4. Alive(x, written, received, peer) /\ Onward(t, x, written)
      BY <1>2, <2>2, <3>2, <3>3, HeardAlive
    <3> HIDE DEF x
    <3>5. Onward(tcp, x, written)
      BY <1>6, <3>4, OnwardOn
    <3> QED
      BY <1>1, <3>1, <3>4, <3>5, AliveFlushes
  <2> QED
    BY <2>3, <2>4
<1> QED
  BY <1>7, <1>8
-----------------------------------------------------------------------------
(* What arrives, and the ends.                                             *)

LEMMA DeliverKeeps == ASSUME TCPInv, Deliver PROVE TCPInv'
<1>1. peer \in Peers
  BY InvariantParts
<1>2. PICK from \in 0 .. peer.sent, acked \in 0 .. Len(peer.taken) + (IF peer.end THEN 1 ELSE 0), window \in PeerWindows :
        \E to \in from .. peer.sent, fin \in {FALSE, peer.fin} :
            /\ fin => to = peer.sent
            /\ to - from <= MSS
            /\ Receive([sequence |-> Plus(PeerISN, 1 + from), ack |-> Plus(ISN, 1 + acked),
                        window |-> window, payload |-> SubSeq(PeerBytes, from + 1, to), fin |-> fin])
  BY Zenon DEF Deliver
<1>3. PICK to \in from .. peer.sent, fin \in {FALSE, peer.fin} :
            /\ fin => to = peer.sent
            /\ Receive([sequence |-> Plus(PeerISN, 1 + from), ack |-> Plus(ISN, 1 + acked),
                        window |-> window, payload |-> SubSeq(PeerBytes, from + 1, to), fin |-> fin])
  BY <1>2
<1> DEFINE bytes == SubSeq(PeerBytes, from + 1, to)
           s == [sequence |-> Plus(PeerISN, 1 + from), ack |-> Plus(ISN, 1 + acked),
                 window |-> window, payload |-> bytes, fin |-> fin]
<1>4. /\ peer.sent \in Nat /\ peer.fin \in BOOLEAN /\ Len(peer.taken) \in Nat /\ from \in Nat /\ to \in Nat
      /\ from <= to /\ to <= peer.sent
  <2>1. peer.sent \in Nat /\ peer.fin \in BOOLEAN /\ Len(peer.taken) \in Nat
    BY <1>1, Facts DEF Peers
  <2> QED
    BY <2>1
<1>5. bytes \in Seq(Nat) /\ Len(bytes) = to - from /\ \A i \in 1 .. to - from : bytes[i] = from + i
  <2>1. PeerBytes \in Seq(Nat) /\ Len(PeerBytes) = peer.sent /\ \A i \in 1 .. peer.sent : PeerBytes[i] = i
    BY <1>4 DEF PeerBytes
  <2> HIDE DEF PeerBytes
  <2>2. bytes = [i \in 1 .. to - from |-> PeerBytes[from + i]]
    <3>1. bytes = [i \in 1 .. to - (from + 1) + 1 |-> PeerBytes[i + (from + 1) - 1]]
      BY <1>4, <2>1
    <3>2. to - (from + 1) + 1 = to - from /\ \A i \in Int : i + (from + 1) - 1 = from + i
      BY <1>4
    <3> QED
      BY <1>4, <3>1, <3>2
  <2>3. \A i \in 1 .. to - from : from + i \in 1 .. peer.sent
    BY <1>4
  <2>4. \A i \in 1 .. to - from : PeerBytes[from + i] = from + i /\ from + i \in Nat
    BY <1>4, <2>1, <2>3
  <2>5. bytes = [i \in 1 .. to - from |-> from + i]
    BY <2>2, <2>4
  <2> HIDE DEF bytes
  <2>6. to - from \in Nat /\ \A i \in 1 .. to - from : from + i \in Nat
    BY <1>4
  <2> QED
    BY <2>5, <2>6
<1> HIDE DEF bytes
<1>6. s \in Inbound /\ s.sequence = Plus(PeerISN, 1 + from) /\ s.ack = Plus(ISN, 1 + acked) /\ s.payload = bytes /\ s.fin = fin
  <2>1. Plus(PeerISN, 1 + from) \in Numbers
    <3>1. 1 + from \in Int /\ PeerISN \in Numbers
      BY <1>4, Facts
    <3> QED
      BY <3>1, PlusType
  <2>2. Plus(ISN, 1 + acked) \in Numbers
    <3>1. 1 + acked \in Int /\ ISN \in Numbers
      BY Facts
    <3> QED
      BY <3>1, PlusType
  <2>3. window \in Nat /\ fin \in BOOLEAN
    BY <1>4, Facts
  <2> QED
    BY <1>5, <2>1, <2>2, <2>3 DEF Inbound
<1>7. Receive(s)
  BY <1>3 DEF bytes
<1> HIDE DEF s
<1>8. Brings(s, peer, from)
  <2>1. from + Len(bytes) = to
    BY <1>4, <1>5
  <2>2. fin => peer.fin
    BY <1>4
  <2> QED
    BY <1>3, <1>4, <1>5, <1>6, <2>1, <2>2 DEF Brings
<1>9. 1 + acked \in Nat /\ 1 <= 1 + acked /\ 1 + acked <= TakenTo(peer)
  <2> DEFINE e == IF peer.end THEN 1 ELSE 0
             l == Len(peer.taken)
  <2>1. TakenTo(peer) = 1 + l + e
    BY DEF TakenTo, One
  <2>2. e \in Nat /\ l \in Nat /\ acked \in 0 .. l + e
    BY <1>4
  <2> HIDE DEF e, l
  <2> QED
    BY <2>1, <2>2
<1> QED
  BY <1>6, <1>7, <1>8, <1>9, ReceiveKeeps

\* The app keeps what it read, which is a beginning of what it had.
LEMMA ReadStays ==
    ASSUME NEW t \in Connections, NEW r \in Seq(Nat), NEW p \in Peers, Holds(t, r, p)
    PROVE  Counting(r) /\ Len(r) <= p.sent
<1> DEFINE b == t.receiveBuffer
<1>1. b \in Seq(Nat)
  BY ConnectionFields
<1> HIDE DEF b
<1>2. /\ r \o b \in Seq(Nat) /\ Len(r \o b) = Len(r) + Len(b)
      /\ \A i \in 1 .. Len(r) : (r \o b)[i] = r[i]
  BY <1>1, JoinShape
<1>3. Counting(r \o b) /\ Len(r \o b) <= p.sent
  BY DEF Holds, Got, b
<1>4. Len(r) \in Nat /\ Len(b) \in Nat /\ p.sent \in Nat
  BY <1>1, Facts DEF Peers
<1>5. \A i \in 1 .. Len(r) + Len(b) : (r \o b)[i] = i
  BY <1>2, <1>3, CountingIs
<1>6. \A i \in 1 .. Len(r) : r[i] = i
  <2>1. \A i \in 1 .. Len(r) : i \in 1 .. Len(r) + Len(b)
    BY <1>4
  <2> QED
    BY <1>2, <1>5, <2>1
<1>7. Counting(r)
  BY <1>6, CountingIs
<1>8. Len(r) <= p.sent
  <2> DEFINE x == Len(r)
             y == Len(b)
             z == Len(r \o b)
  <2>1. x \in Nat /\ y \in Nat /\ z = x + y /\ z <= p.sent
    BY <1>2, <1>3, <1>4
  <2> HIDE DEF x, y, z
  <2>2. x <= p.sent
    BY <1>4, <2>1
  <2> QED
    BY <2>2 DEF x
<1> QED
  BY <1>7, <1>8

LEMMA EndedShape ==
    ASSUME NEW t \in Connections, NEW state \in Ends
    PROVE  Ended(t, state) \in Connections /\ Ended(t, state).state = state /\ Ended(t, state).receiveBuffer = <<>>
<1>1. state \in States /\ <<>> \in Seq(Nat) /\ NoPending \in Pendings
  BY EmptySeq, NoPendingIs DEF Ends, States
<1>2. Ended(t, state) \in Connections
  BY <1>1, Zenon DEF Ended, Connections
<1>3. Ended(t, state).state = state /\ Ended(t, state).receiveBuffer = <<>>
  BY DEF Ended, Connections
<1> QED
  BY <1>2, <1>3

\* fail and abort: nothing that was read or taken is undone.
LEMMA EndedKeeps ==
    ASSUME TCPInv, NEW state \in Ends, Becomes(Ended(tcp, state), {}), UNCHANGED <<written, received, peer>>,
           aborted' \in BOOLEAN, state = "failed" \/ aborted'
    PROVE  TCPInv'
<1> DEFINE f == Ended(tcp, state)
<1>1. /\ tcp \in Connections /\ received \in Seq(Nat) /\ peer \in Peers
      /\ Holds(tcp, received, peer) /\ Taking(peer, tcp, written)
  BY InvariantParts
<1>2. f \in Connections /\ f.state = state /\ f.receiveBuffer = <<>>
  BY <1>1, EndedShape
<1>3. Becomes(f, {})
  OBVIOUS
<1> HIDE DEF f
<1>4. Counting(received) /\ Len(received) <= peer.sent
  BY <1>1, ReadStays
<1>5. Got(f, received) = received
  <2>1. received \o <<>> = received
    BY <1>1, ConcatEmptySeq
  <2> QED
    BY <1>2, <2>1 DEF Got
<1>6. Len(f.receiveBuffer) <= ReceiveCapacity
  <2>1. Len(<<>>) = 0
    BY EmptySeq
  <2> QED
    BY <1>2, <2>1, Facts
<1>7. Holds(f, received, peer)
  BY <1>4, <1>5, <1>6 DEF Holds
<1>8. Connected(f, written, received, peer) /\ Onward(tcp, f, written)
  BY <1>1, <1>2, <1>7, OverIsConnected
<1>9. f.state # "closed" \/ aborted'
  BY <1>2
<1>10. \A s \in {} : s \in Segments /\ Sound(s, f, written)
  OBVIOUS
<1> QED
  BY <1>2, <1>3, <1>8, <1>9, <1>10, BecomesKeeps

LEMMA DeliverResetKeeps == ASSUME TCPInv, DeliverReset PROVE TCPInv'
<1>1. PICK from : ReceiveReset(Plus(PeerISN, 1 + from))
  BY Zenon DEF DeliverReset
<1>2. Becomes(Ended(tcp, "failed"), {}) /\ UNCHANGED <<written, received, aborted, peer>>
  BY <1>1 DEF ReceiveReset
<1>3. aborted' \in BOOLEAN
  BY <1>2, InvariantParts
<1>4. "failed" \in Ends
  BY LivesAre
<1> QED
  BY <1>2, <1>3, <1>4, EndedKeeps

LEMMA AbortKeeps == ASSUME TCPInv, Abort PROVE TCPInv'
<1>1. /\ Becomes(Ended(tcp, "closed"), {}) /\ aborted' = TRUE /\ UNCHANGED <<written, received, peer>>
  BY DEF Abort
<1>2. "closed" \in Ends
  BY LivesAre
<1> QED
  BY <1>1, <1>2, EndedKeeps

\* The end of TIME-WAIT: the peer has taken everything before it.
LEMMA RestIsTaken ==
    ASSUME NEW t, NEW w \in 0 .. MaxWritten, NEW r, NEW p \in Peers, Alive(t, w, r, p), t.state \in Rests
    PROVE  p.end /\ Len(p.taken) = w
<1>1. t \in Connections /\ Sends(t, w, p) /\ Taking(p, t, w)
  BY DEF Alive
<1>2. t.pending = NoPending /\ t.sendBuffer = <<>> /\ t.state \in Fins
  BY <1>1, StatesAre DEF Sends, FlightOf, Numbered
<1>3. AckedTo(t, w) = SentTo(t, w)
  BY <1>1, <1>2, NothingInFlight
<1>4. SentTo(t, w) = 2 + w /\ w \in Nat
  BY <1>1, <1>2, FinPositions, Facts
<1>5. TakenTo(p) \in Nat /\ AckedTo(t, w) <= TakenTo(p) /\ TakenTo(p) <= SentTo(t, w)
  BY <1>1, PositionFacts DEF StreamPositions
<1>6. TakenTo(p) = w + 2
  BY <1>3, <1>4, <1>5
<1> QED
  BY <1>1, <1>6, AllTaken

LEMMA TickClosesKeeps == ASSUME TCPInv, TickCloses PROVE TCPInv'
<1>1. /\ Becomes(IF tcp.state = "timeWait" THEN [tcp EXCEPT !.state = "closed"] ELSE Ended(tcp, "failed"), {})
      /\ UNCHANGED <<written, received, aborted, peer>>
  BY DEF TickCloses
<1>2. /\ tcp \in Connections /\ received \in Seq(Nat) /\ peer \in Peers /\ aborted \in BOOLEAN /\ written \in 0 .. MaxWritten
      /\ Holds(tcp, received, peer) /\ Taking(peer, tcp, written)
      /\ tcp.state \in Lives => Alive(tcp, written, received, peer)
  BY InvariantParts
<1>3. CASE tcp.state = "timeWait"
  <2> DEFINE f == [tcp EXCEPT !.state = "closed"]
  <2>1. "closed" \in States /\ "closed" \in Ends
    BY LivesAre DEF States
  <2>2. f \in Connections
    BY <1>2, <2>1, Zenon DEF Connections
  <2>3. f.state = "closed" /\ f.receiveBuffer = tcp.receiveBuffer
    BY <1>2 DEF Connections
  <2>4. Becomes(f, {})
    BY <1>1, <1>3
  <2> HIDE DEF f
  <2>5. Holds(f, received, peer)
    BY <1>2, <2>3 DEF Holds, Got
  <2>6. Connected(f, written, received, peer) /\ Onward(tcp, f, written)
    BY <1>2, <2>1, <2>3, <2>5, OverIsConnected
  <2>7. peer.end /\ Len(peer.taken) = written
    <3>1. tcp.state \in Rests /\ tcp.state \in Lives
      BY <1>3 DEF Rests, Lives, Fins
    <3> QED
      BY <1>2, <3>1, RestIsTaken
  <2>8. \A s \in {} : s \in Segments /\ Sound(s, f, written)
    OBVIOUS
  <2> QED
    BY <1>1, <1>2, <2>2, <2>4, <2>6, <2>7, <2>8, BecomesKeeps
<1>4. CASE tcp.state # "timeWait"
  <2>1. Becomes(Ended(tcp, "failed"), {}) /\ "failed" \in Ends
    BY <1>1, <1>4, LivesAre
  <2> QED
    BY <1>1, <1>2, <2>1, EndedKeeps
<1> QED
  BY <1>3, <1>4

LEMMA TickGivesUpOnWindowKeeps == ASSUME TCPInv, TickGivesUpOnWindow PROVE TCPInv'
<1>1. Becomes(Ended(tcp, "failed"), {}) /\ UNCHANGED <<written, received, aborted, peer>>
  BY DEF TickGivesUpOnWindow
<1>2. aborted' \in BOOLEAN /\ "failed" \in Ends
  BY <1>1, InvariantParts, LivesAre
<1> QED
  BY <1>1, <1>2, EndedKeeps
-----------------------------------------------------------------------------
(* What is sent again.                                                     *)

\* The segment in flight holds the bytes of its positions.
LEMMA PendingIsSound ==
    ASSUME NEW t \in Connections, NEW w \in 0 .. MaxWritten, NEW p \in Peers, Sends(t, w, p), t.state \in Lives,
           t.pending # NoPending
    PROVE  LET s == Segment(t.pending.sequence, t.pending.kind, t.pending.payload)
           IN  s \in Segments /\ Sound(s, t, w)
<1> DEFINE b == t.pending.payload
           a == AckedTo(t, w)
           n == SentTo(t, w)
           l == Len(b)
           s == Segment(t.pending.sequence, t.pending.kind, b)
<1>1. FlightOf(t) /\ Numbered(t, w) /\ Stored(t, w)
  BY DEF Sends
<1>2. a \in Nat /\ n \in Nat /\ 1 <= a /\ n <= w + 2 /\ a <= n /\ w \in Nat
  <2>1. /\ a \in Nat /\ n \in Nat /\ TakenTo(p) \in Nat /\ 1 <= a /\ a <= TakenTo(p) /\ TakenTo(p) <= n /\ n <= w + 2
        /\ w \in Nat
    BY PositionFacts, Facts DEF StreamPositions
  <2> HIDE DEF a, n
  <2> QED
    BY <2>1
<1>3. t.pending.sequence = Plus(ISN, a) /\ t.pending.sequence \in Numbers
  BY <1>1, ConnectionFields DEF FlightOf, Numbered
<1>4. b \in Seq(Nat) /\ l \in Nat /\ t.state \notin Rests
  BY <1>1, ConnectionFields DEF FlightOf
<1>5. \A i \in 1 .. l : b[i] = a + i - 1
  BY <1>1 DEF Stored
<1>6. CASE t.state \in Opens
  <2>1. t.pending.kind = "data"
    BY <1>1, <1>6 DEF FlightOf
  <2>2. a = n - l
    BY <1>2, <2>1, DataPositions
  <2>3. s \in Segments /\ s.sequence = Plus(ISN, a) /\ s.kind = "data" /\ s.payload = b
    BY <1>3, <1>4, <2>1 DEF Segment, Segments
  <2>4. n <= 1 + w
    <3>1. n = 1 + w - Len(t.sendBuffer) /\ Len(t.sendBuffer) \in Nat
      BY <1>2, <1>6, OpenPositions, ConnectionFields
    <3> DEFINE q == Len(t.sendBuffer)
    <3>2. n = 1 + w - q /\ q \in Nat
      BY <3>1
    <3> HIDE DEF n, q
    <3> QED
      BY <1>2, <3>2
  <2> HIDE DEF s
  <2>5. a + l <= 1 + w /\ a + l + 0 <= n /\ a \in 0 .. w + 1
    <3> HIDE DEF a, l, n
    <3> QED
      BY <1>2, <1>4, <2>2, <2>4
  <2>6. Carries(s, a, w)
    BY <1>5, <2>3, <2>5 DEF Carries
  <2>7. Reaches(s, a, t, w)
    <3>1. One(s.kind = "fin") = 0
      BY <2>3 DEF One
    <3>2. t.state \notin {"idle", "synSent"}
      BY <1>6, StatesAre
    <3> QED
      BY <2>3, <2>5, <3>1, <3>2 DEF Reaches
  <2> QED
    BY <2>3, <2>5, <2>6, <2>7 DEF Sound, s
<1>7. CASE t.state \in Awaits
  <2>1. t.pending.kind = "fin" /\ b = <<>> /\ l = 0
    BY <1>1, <1>7, EmptySeq DEF FlightOf
  <2>2. t.state \in Fins /\ t.sendBuffer = <<>>
    BY <1>1, <1>7, StatesAre DEF Numbered
  <2>3. n = 2 + w
    BY <1>2, <2>2, FinPositions
  <2>4. a = 1 + w
    <3>1. One(t.pending.kind = "fin") = 1
      BY <2>1 DEF One
    <3>2. a = n - 0 - 1
      BY <2>1, <3>1 DEF AckedTo
    <3> HIDE DEF a, n
    <3> QED
      BY <1>2, <2>3, <3>2
  <2>5. s \in Segments /\ s.sequence = Plus(ISN, 1 + w) /\ s.kind = "fin" /\ s.payload = <<>> /\ Len(s.payload) = 0
    BY <1>3, <1>4, <2>1, <2>4 DEF Segment, Segments
  <2> HIDE DEF s
  <2>6. Carries(s, 1 + w, w)
    <3>1. 1 .. 0 = {}
      OBVIOUS
    <3> QED
      BY <2>5, <3>1 DEF Carries
  <2>7. Reaches(s, 1 + w, t, w)
    <3>1. One(s.kind = "fin") = 1
      BY <2>5 DEF One
    <3>2. 1 + w + 0 + 1 <= 2 + w
      BY <1>2
    <3>3. 1 + w + Len(s.payload) + One(s.kind = "fin") <= SentTo(t, w)
      BY <2>3, <2>5, <3>1, <3>2
    <3> QED
      BY <2>2, <3>3, StatesAre DEF Reaches
  <2>8. 1 + w \in 0 .. w + 1
    BY <1>2
  <2> QED
    BY <2>5, <2>6, <2>7, <2>8 DEF Sound, s
<1> QED
  BY <1>4, <1>6, <1>7 DEF Lives, Fins

\* The SYN stands before the first byte.
LEMMA SynIsSound ==
    ASSUME NEW t, NEW w \in 0 .. MaxWritten, t.state = "synSent"
    PROVE  Segment(ISN, "syn", <<>>) \in Segments /\ Sound(Segment(ISN, "syn", <<>>), t, w)
<1> DEFINE s == Segment(ISN, "syn", <<>>)
<1>1. s.sequence = ISN /\ s.kind = "syn" /\ s.payload = <<>>
  BY DEF Segment
<1>2. s \in Segments
  BY Facts, EmptySeq DEF Segment, Segments
<1> HIDE DEF s
<1>3. w \in Nat /\ Plus(ISN, 0) = ISN /\ Len(<<>>) = 0 /\ 1 .. 0 = {}
  <2>1. ISN \in Numbers
    BY Facts
  <2> QED
    BY <2>1, Facts, PlusZero, EmptySeq
<1>4. Carries(s, 0, w)
  BY <1>1, <1>3 DEF Carries
<1>5. Reaches(s, 0, t, w)
  BY <1>1 DEF Reaches, Lives, Opens, Fins, Awaits, Rests
<1>6. 0 \in 0 .. w + 1
  BY <1>3
<1> QED
  BY <1>2, <1>4, <1>5, <1>6 DEF Sound, s

LEMMA TickRetransmitsKeeps == ASSUME TCPInv, TickRetransmits PROVE TCPInv'
<1> DEFINE q == tcp.pending
           s == Segment(q.sequence, q.kind, q.payload)
           f == [tcp EXCEPT !.pending.retries = @ + 1]
<1>1. /\ Ticking /\ q # NoPending
      /\ IF q.retries < MaxRetries THEN Becomes(f, {s}) ELSE Becomes(Ended(tcp, "failed"), {})
      /\ UNCHANGED <<written, received, aborted, peer>>
  BY DEF TickRetransmits, InFlight
<1>2. /\ tcp \in Connections /\ received \in Seq(Nat) /\ peer \in Peers /\ aborted \in BOOLEAN /\ written \in 0 .. MaxWritten
      /\ Holds(tcp, received, peer) /\ Taking(peer, tcp, written)
      /\ tcp.state \in Lives => Alive(tcp, written, received, peer)
      /\ tcp.state \in {"idle", "synSent"} => Silent(tcp, written, received, peer)
  BY InvariantParts
<1>3. CASE ~(q.retries < MaxRetries)
  <2>1. Becomes(Ended(tcp, "failed"), {}) /\ "failed" \in Ends
    BY <1>1, <1>3, LivesAre
  <2> QED
    BY <1>1, <1>2, <2>1, EndedKeeps
<1>4. CASE q.retries < MaxRetries
  <2>1. Becomes(f, {s})
    BY <1>1, <1>4
  <2> DEFINE again == [q EXCEPT !.retries = @ + 1]
  <2>2. q \in Pendings /\ q.retries \in Nat
    BY <1>2, ConnectionFields DEF Pendings
  <2>3. f = [tcp EXCEPT !.pending = again]
    BY <1>2 DEF Connections
  <2>4. /\ again \in Pendings /\ again.sequence = q.sequence /\ again.kind = q.kind /\ again.payload = q.payload
    BY <2>2 DEF Pendings
  <2> HIDE DEF again, f
  <2>5. f \in Connections
    BY <1>2, <2>3, <2>4, Zenon DEF Connections
  <2>6. /\ f.state = tcp.state /\ f.pending = again /\ f.next = tcp.next /\ f.una = tcp.una
        /\ f.sendBuffer = tcp.sendBuffer /\ f.lastAcknowledgedByte = tcp.lastAcknowledgedByte
        /\ f.zeroWindow = tcp.zeroWindow /\ f.peerWindow = tcp.peerWindow
        /\ f.receiveNext = tcp.receiveNext /\ f.receiveBuffer = tcp.receiveBuffer
    BY <1>2, <2>3 DEF Connections
  <2>7. Got(f, received) = Got(tcp, received) /\ Holds(f, received, peer)
    BY <1>2, <2>6 DEF Got, Holds
  <2>8. tcp.state \in Lives \/ tcp.state = "synSent"
    <3>1. tcp.state \in States /\ tcp.state \notin Ends
      BY <1>1, <1>2, ConnectionFields DEF Ticking, Ends
    <3>2. tcp.state # "idle"
      BY <1>1, <1>2 DEF Silent
    <3> QED
      BY <3>1, <3>2, LivesAre
  <2>9. CASE tcp.state \in Lives
    <3>1. Sends(tcp, written, peer) /\ Hearing(tcp, received, peer)
      BY <1>2, <2>9 DEF Alive
    <3>2. q.kind # "none"
      BY <1>1, <2>9, <3>1 DEF Sends, FlightOf, Lives, Fins
    <3>3. again # NoPending
      BY <2>4, <3>2, NoPendingIs
    <3>4. Alike(tcp, f)
      BY <1>1, <2>4, <2>6, <3>3 DEF Alike
    <3>5. Sends(f, written, peer) /\ Onward(tcp, f, written) /\ f.state \in Lives /\ SentTo(f, written) = SentTo(tcp, written)
      BY <1>2, <2>9, <3>1, <3>4, AlikeSends
    <3>6. Hearing(f, received, peer)
      BY <2>6, <2>7, <3>1 DEF Hearing
    <3>7. Taking(peer, f, written)
      BY <1>2, <3>5, TakingStays
    <3>8. Alive(f, written, received, peer)
      BY <2>5, <2>7, <3>5, <3>6, <3>7 DEF Alive
    <3>9. s \in Segments /\ Sound(s, tcp, written)
      BY <1>1, <1>2, <2>9, <3>1, PendingIsSound
    <3> HIDE DEF s
    <3>10. Sound(s, f, written)
      BY <1>2, <3>5, <3>9, SoundStays
    <3> QED
      BY <1>1, <2>1, <3>5, <3>8, <3>9, <3>10, AliveKeeps
  <2>10. CASE tcp.state = "synSent"
    <3>1. Silent(tcp, written, received, peer)
      BY <1>2, <2>10
    <3>2. q.sequence = ISN /\ q.kind = "syn" /\ q.payload = <<>>
      BY <2>10, <3>1 DEF Silent
    <3>3. s = Segment(ISN, "syn", <<>>)
      BY <3>2
    <3>4. s \in Segments /\ Sound(s, f, written)
      BY <1>2, <2>6, <2>10, <3>3, SynIsSound
    <3> HIDE DEF s
    <3>5. again # NoPending
      BY <2>4, <3>2, NoPendingIs
    <3>6. Silent(f, written, received, peer)
      BY <2>4, <2>6, <2>10, <3>1, <3>5 DEF Silent
    <3>7. f.state \notin Lives /\ f.state \notin Fins \cup Ends /\ tcp.state \notin Fins \cup Ends
      BY <2>6, <2>10 DEF Lives, Opens, Fins, Awaits, Rests, Ends
    <3>8. Onward(tcp, f, written)
      BY <2>6, <3>7 DEF Onward
    <3>9. Taking(peer, f, written)
      BY <1>2, <3>8, TakingStays
    <3>10. Connected(f, written, received, peer)
      BY <2>7, <3>6, <3>7, <3>9 DEF Connected
    <3>11. f.state # "closed" /\ aborted' \in BOOLEAN
      BY <1>1, <1>2, <2>6, <2>10
    <3> QED
      BY <1>1, <2>1, <2>5, <3>4, <3>8, <3>10, <3>11, BecomesKeeps
  <2> QED
    BY <2>8, <2>9, <2>10
<1> QED
  BY <1>3, <1>4
\* A probe repeats the last byte the peer acknowledged.
LEMMA TickProbesKeeps == ASSUME TCPInv, TickProbes PROVE TCPInv'
<1> DEFINE s == Segment(Plus(tcp.next, -1), "data", <<tcp.lastAcknowledgedByte>>)
           n == SentTo(tcp, written)
<1>1. /\ Ticking /\ tcp.zeroWindow /\ Becomes(tcp, {s}) /\ UNCHANGED <<written, received, aborted, peer>>
  BY DEF TickProbes
<1>2. /\ tcp \in Connections /\ received \in Seq(Nat) /\ peer \in Peers /\ aborted \in BOOLEAN /\ written \in 0 .. MaxWritten
      /\ tcp.state \in Lives => Alive(tcp, written, received, peer)
      /\ tcp.state \in {"idle", "synSent"} => Silent(tcp, written, received, peer)
  BY InvariantParts
<1>3. tcp.state \in Lives
  <2>1. tcp.state \in States /\ tcp.state \notin Ends
    BY <1>1, <1>2, ConnectionFields DEF Ticking, Ends
  <2>2. tcp.state \notin {"idle", "synSent"}
    BY <1>1, <1>2 DEF Silent
  <2> QED
    BY <2>1, <2>2, LivesAre
<1>4. Alive(tcp, written, received, peer) /\ Sends(tcp, written, peer)
  BY <1>2, <1>3 DEF Alive
<1>5. tcp.pending = NoPending /\ tcp.state \in Opens /\ tcp.lastAcknowledgedByte = AckedTo(tcp, written) - 1
  BY <1>1, <1>4 DEF Sends, Stored
<1>6. AckedTo(tcp, written) = n
  BY <1>2, <1>4, <1>5, NothingInFlight
<1>7. n \in Nat /\ 1 <= n /\ written \in Nat
  <2>1. n \in Nat /\ 1 <= AckedTo(tcp, written)
    BY <1>2, <1>4, PositionFacts DEF StreamPositions
  <2> QED
    BY <1>2, <1>6, <2>1, Facts
<1>8. n <= 1 + written
  <2> DEFINE q == Len(tcp.sendBuffer)
  <2>1. n = 1 + written - q /\ q \in Nat
    BY <1>2, <1>5, <1>7, OpenPositions, ConnectionFields
  <2> HIDE DEF n, q
  <2> QED
    BY <1>7, <2>1
<1> DEFINE k == n - 1
           last == tcp.lastAcknowledgedByte
<1>9. k \in 0 .. written + 1 /\ k \in Nat /\ last = k /\ k + 1 = n
  <2>1. last = n - 1
    BY <1>5, <1>6
  <2> HIDE DEF n, last
  <2> QED
    BY <1>7, <1>8, <2>1
<1>10. Plus(tcp.next, -1) = Plus(ISN, k) /\ Plus(tcp.next, -1) \in Numbers
  <2>1. tcp.next = Plus(ISN, n) /\ ISN \in Numbers
    BY <1>4, Facts DEF Sends, Numbered
  <2> HIDE DEF n
  <2>2. n \in Int /\ -1 \in Int /\ n + (-1) = k
    BY <1>7
  <2>3. Plus(Plus(ISN, n), -1) = Plus(ISN, n + (-1))
    BY <2>1, <2>2, PlusPlus
  <2>4. Plus(ISN, k) \in Numbers
    <3>1. k \in Int
      BY <1>9
    <3> QED
      BY <2>1, <3>1, PlusType
  <2> QED
    BY <2>1, <2>2, <2>3, <2>4
<1>11. /\ s \in Segments /\ s.sequence = Plus(ISN, k) /\ s.kind = "data" /\ Len(s.payload) = 1 /\ s.payload[1] = k
  <2>1. <<last>> \in Seq(Nat) /\ Len(<<last>>) = 1 /\ <<last>>[1] = last
    BY <1>9
  <2> HIDE DEF last, k
  <2>2. s = Segment(Plus(tcp.next, -1), "data", <<last>>)
    BY DEF last
  <2> HIDE DEF s
  <2>3. s.sequence = Plus(tcp.next, -1) /\ s.kind = "data" /\ s.payload = <<last>> /\ s \in Segments
    BY <1>10, <2>1, <2>2 DEF Segment, Segments
  <2> QED
    BY <1>9, <1>10, <2>1, <2>3
<1> HIDE DEF s, k
<1>12. Carries(s, k, written)
  <2>1. \A i \in 1 .. 1 : s.payload[i] = k + i - 1
    <3>1. \A i \in 1 .. 1 : i = 1
      OBVIOUS
    <3>2. k = k + 1 - 1
      BY <1>9
    <3> QED
      BY <1>11, <3>1, <3>2
  <2>2. k + 1 <= 1 + written
    BY <1>8, <1>9
  <2> QED
    BY <1>11, <2>1, <2>2 DEF Carries
<1>13. Reaches(s, k, tcp, written)
  <2>1. One(s.kind = "fin") = 0
    BY <1>11 DEF One
  <2>2. k + 1 + 0 <= n
    BY <1>7, <1>9
  <2>3. tcp.state \notin {"idle", "synSent"}
    BY <1>5, StatesAre
  <2> QED
    BY <1>11, <2>1, <2>2, <2>3 DEF Reaches
<1>14. Sound(s, tcp, written)
  BY <1>9, <1>12, <1>13 DEF Sound
<1>15. Onward(tcp, tcp, written)
  BY <1>3, <1>7 DEF Onward
<1> QED
  BY <1>1, <1>4, <1>11, <1>14, <1>15, AliveKeeps

-----------------------------------------------------------------------------
(* The beginning.                                                          *)

LEMMA ConnectKeeps == ASSUME TCPInv, Connect PROVE TCPInv'
<1>1. /\ tcp.state = "idle" /\ UNCHANGED <<written, received, aborted, peer>>
      /\ LET l == Launch(tcp, "syn", <<>>) IN Becomes([l.tcp EXCEPT !.state = "synSent"], l.out)
  BY DEF Connect
<1>2. /\ tcp \in Connections /\ received \in Seq(Nat) /\ peer \in Peers /\ aborted \in BOOLEAN /\ written \in 0 .. MaxWritten
      /\ Holds(tcp, received, peer) /\ Taking(peer, tcp, written)
      /\ tcp.state \in {"idle", "synSent"} => Silent(tcp, written, received, peer)
  BY InvariantParts
<1>3. Silent(tcp, written, received, peer) /\ tcp.next = ISN
  BY <1>1, <1>2 DEF Silent
<1> DEFINE q == Pending(ISN, "syn", <<>>)
           s == Segment(ISN, "syn", <<>>)
           n == Plus(ISN, 1)
           c == [tcp EXCEPT !.pending = q, !.next = n]
           f == [c EXCEPT !.state = "synSent"]
<1>4. Launch(tcp, "syn", <<>>) = [tcp |-> c, out |-> {s}]
  <2>1. Len(<<>>) + (IF "syn" = "data" THEN 0 ELSE 1) = 1
    BY EmptySeq
  <2> QED
    BY <1>3, <2>1 DEF Launch
<1>5. Becomes(f, {s})
  <2>1. Launch(tcp, "syn", <<>>).tcp = c /\ Launch(tcp, "syn", <<>>).out = {s}
    BY <1>4
  <2>2. Becomes([Launch(tcp, "syn", <<>>).tcp EXCEPT !.state = "synSent"], Launch(tcp, "syn", <<>>).out)
    BY <1>1
  <2> HIDE DEF c, s
  <2> QED
    BY <2>1, <2>2
<1>6. q \in Pendings /\ q # NoPending /\ q.sequence = ISN /\ q.kind = "syn" /\ q.payload = <<>>
  <2>1. q.sequence = ISN /\ q.kind = "syn" /\ q.payload = <<>>
    BY DEF Pending
  <2>2. q # NoPending
    BY <2>1, NoPendingIs
  <2>3. q \in Pendings
    BY Facts, EmptySeq DEF Pending, Pendings
  <2> QED
    BY <2>1, <2>2, <2>3
<1>7. n \in Numbers /\ "synSent" \in States
  <2>1. ISN \in Numbers /\ 1 \in Int
    BY Facts
  <2> QED
    BY <2>1, PlusType DEF States
<1> HIDE DEF q, n, s
<1>8. c \in Connections
  BY <1>2, <1>6, <1>7, Zenon DEF Connections
<1>9. c.pending = q /\ c.next = n /\ c.receiveBuffer = tcp.receiveBuffer /\ c.sendBuffer = tcp.sendBuffer
      /\ c.lastAcknowledgedByte = tcp.lastAcknowledgedByte /\ c.zeroWindow = tcp.zeroWindow
  BY <1>2 DEF Connections
<1> HIDE DEF c
<1>10. f \in Connections
  BY <1>7, <1>8, Zenon DEF Connections
<1>11. /\ f.pending = q /\ f.next = n /\ f.receiveBuffer = tcp.receiveBuffer /\ f.sendBuffer = tcp.sendBuffer
       /\ f.lastAcknowledgedByte = tcp.lastAcknowledgedByte /\ f.zeroWindow = tcp.zeroWindow /\ f.state = "synSent"
  BY <1>8, <1>9 DEF Connections
<1> HIDE DEF f
<1>12. Silent(f, written, received, peer)
  BY <1>3, <1>6, <1>11 DEF Silent, n
<1>13. Holds(f, received, peer)
  BY <1>2, <1>11 DEF Holds, Got
<1>14. f.state \notin Lives /\ f.state \notin Ends /\ tcp.state \notin Fins \cup Ends
  BY <1>1, <1>11 DEF Lives, Opens, Fins, Awaits, Rests, Ends
<1>15. Onward(tcp, f, written)
  BY <1>1, <1>14 DEF Onward
<1>16. Taking(peer, f, written)
  BY <1>2, <1>15, TakingStays
<1>17. Connected(f, written, received, peer)
  BY <1>12, <1>13, <1>14, <1>16 DEF Connected
<1>18. \A x \in {s} : x \in Segments /\ Sound(x, f, written)
  BY <1>2, <1>11, SynIsSound DEF s
<1>19. f.state # "closed" /\ aborted' \in BOOLEAN
  BY <1>1, <1>2, <1>11
<1> QED
  BY <1>1, <1>5, <1>10, <1>15, <1>17, <1>18, <1>19, BecomesKeeps

\* The answer to the SYN: nothing but SYNs was sent so far.
LEMMA ReceiveSynAckKeeps == ASSUME TCPInv, NEW window \in PeerWindows, ReceiveSynAck(window) PROVE TCPInv'
<1> DEFINE n == tcp.next
           h == Plus(PeerISN, 1)
           f == [tcp EXCEPT !.state = "established", !.una = n, !.pending = NoPending,
                            !.receiveNext = h, !.peerWindow = window,
                            !.windowSequence = PeerISN, !.windowACK = n]
<1>1. tcp.state = "synSent" /\ Becomes(f, {}) /\ UNCHANGED <<written, received, aborted, peer>>
  BY DEF ReceiveSynAck
<1>2. /\ tcp \in Connections /\ received \in Seq(Nat) /\ peer \in Peers /\ aborted \in BOOLEAN /\ written \in 0 .. MaxWritten
      /\ Holds(tcp, received, peer) /\ Taking(peer, tcp, written)
      /\ tcp.state \in {"idle", "synSent"} => Silent(tcp, written, received, peer)
      /\ \A s \in wire : Sound(s, tcp, written)
      /\ wire \subseteq Segments
  BY InvariantParts
<1>3. /\ written = 0 /\ received = <<>> /\ tcp.receiveBuffer = <<>> /\ tcp.sendBuffer = <<>> /\ peer.taken = <<>> /\ ~peer.end
      /\ tcp.lastAcknowledgedByte = 0 /\ ~tcp.zeroWindow /\ n = Plus(ISN, 1)
  BY <1>1, <1>2 DEF Silent
<1>4. n \in Numbers /\ h \in Numbers /\ window \in Nat /\ PeerISN \in Numbers /\ "established" \in States
  <2>1. PeerISN \in Numbers /\ 1 \in Int
    BY Facts
  <2> QED
    BY <1>2, <2>1, PlusType, ConnectionFields, Facts DEF States
<1> HIDE DEF n, h
<1>5. f \in Connections
  BY <1>2, <1>4, NoPendingIs, Zenon DEF Connections
<1>6. /\ f.state = "established" /\ f.next = n /\ f.una = n /\ f.pending = NoPending /\ f.receiveNext = h
      /\ f.sendBuffer = <<>> /\ f.receiveBuffer = <<>> /\ f.lastAcknowledgedByte = 0 /\ ~f.zeroWindow
  BY <1>2, <1>3 DEF Connections, n
<1>7. Becomes(f, {})
  BY <1>1
<1> HIDE DEF f
<1>8. /\ f.state \in Opens /\ f.state \in Lives /\ f.state \notin Awaits /\ f.state \notin Rests /\ f.state \notin Fins
      /\ f.state \in Hears /\ f.state # "closed"
  BY <1>6 DEF Opens, Lives, Awaits, Rests, Fins, Hears
<1>9. SentTo(f, written) = 1 /\ AckedTo(f, written) = 1 /\ TakenTo(peer) = 1
  <2>1. One(f.state \in Fins) = 0 /\ One(peer.end) = 0 /\ Len(<<>>) = 0
    BY <1>3, <1>8, EmptySeq DEF One
  <2>2. SentTo(f, written) = 1 + 0 + 0 - 0
    BY <1>3, <1>6, <2>1 DEF SentTo
  <2>3. SentTo(f, written) = 1
    BY <2>2
  <2>4. AckedTo(f, written) = 1
    BY <1>6, <2>3, NothingAcked
  <2>5. TakenTo(peer) = 1 + 0 + 0
    BY <1>3, <2>1 DEF TakenTo
  <2> QED
    BY <2>3, <2>4, <2>5
<1>10. FlightOf(f)
  BY <1>6, <1>8 DEF FlightOf
<1>11. Numbered(f, written)
  <2>1. Len(<<>>) = 0
    BY EmptySeq
  <2> QED
    BY <1>3, <1>6, <1>8, <1>9, <2>1 DEF Numbered
<1>12. Stored(f, written)
  <2>1. Len(f.sendBuffer) = 0 /\ Len(f.pending.payload) = 0 /\ 1 .. 0 = {} /\ 0 = 1 - 1
    BY <1>6, NoPendingIs, EmptySeq
  <2> QED
    BY <1>6, <1>8, <1>9, <2>1 DEF Stored
<1>13. Follows(f, written, peer)
  BY <1>9 DEF Follows
<1>14. Got(f, received) = Got(tcp, received) /\ Holds(f, received, peer)
  BY <1>2, <1>3, <1>6 DEF Got, Holds
<1>15. Hearing(f, received, peer)
  <2>1. Got(f, received) = <<>>
    <3>1. <<>> \o <<>> = <<>>
      OBVIOUS
    <3> QED
      BY <1>3, <1>6, <3>1 DEF Got
  <2>2. One(f.state \notin Hears) = 0 /\ Len(<<>>) = 0 /\ 1 + 0 + 0 = 1
    BY <1>8, EmptySeq DEF One
  <2> QED
    BY <1>6, <1>8, <2>1, <2>2 DEF Hearing, h
<1>16. Taking(peer, f, written)
  BY <1>2, <1>3 DEF Taking
<1>17. Alive(f, written, received, peer)
  BY <1>5, <1>8, <1>10, <1>11, <1>12, <1>13, <1>14, <1>15, <1>16 DEF Alive, Sends
<1>18. ASSUME NEW s \in wire PROVE Sound(s, f, written)
  <2>1. PICK k \in 0 .. written + 1 : Carries(s, k, written) /\ Reaches(s, k, tcp, written)
    BY <1>2, <1>18 DEF Sound
  <2>2. s.kind = "syn"
    BY <1>1, <2>1 DEF Reaches
  <2>3. k = 0 /\ s.payload = <<>> /\ Len(<<>>) = 0
    BY <2>1, <2>2, EmptySeq DEF Carries
  <2>4. One(s.kind = "fin") = 0
    BY <2>2 DEF One
  <2>5. k + Len(s.payload) + One(s.kind = "fin") <= SentTo(f, written)
    BY <1>9, <2>3, <2>4
  <2>6. Reaches(s, k, f, written)
    BY <2>2, <2>5 DEF Reaches
  <2> QED
    BY <2>1, <2>6 DEF Sound
<1>19. /\ tcp' = f /\ wire' = wire /\ written' = written /\ received' = received /\ aborted' = aborted /\ peer' = peer
  BY <1>1, <1>7 DEF Becomes
<1>20. Connected(f, written, received, peer)
  BY <1>17, AliveIsConnected
<1>21. Types'
  BY <1>2, <1>5, <1>19 DEF Types
<1>22. Closed'
  BY <1>8, <1>19 DEF Closed
<1>23. Connected(tcp, written, received, peer)'
  BY <1>19, <1>20
<1>24. (\A s \in wire : Sound(s, tcp, written))'
  BY <1>18, <1>19
<1> QED
  BY <1>21, <1>22, <1>23, <1>24 DEF TCPInv
-----------------------------------------------------------------------------
(* The app's other calls.                                                  *)

LEMMA ShutdownWriteKeeps == ASSUME TCPInv, ShutdownWrite PROVE TCPInv'
<1> DEFINE f == [tcp EXCEPT !.closeRequested = TRUE]
<1>1. tcp.state \in Opens /\ Flushes(f) /\ UNCHANGED <<written, received, aborted, peer>>
  BY DEF ShutdownWrite, Open, Opens
<1>2. /\ tcp \in Connections /\ received \in Seq(Nat) /\ peer \in Peers /\ written \in 0 .. MaxWritten
      /\ tcp.state \in Lives => Alive(tcp, written, received, peer)
  BY InvariantParts
<1>3. Alive(tcp, written, received, peer)
  BY <1>1, <1>2, StatesAre
<1>4. /\ tcp.state \in Lives /\ Sends(tcp, written, peer) /\ Hearing(tcp, received, peer) /\ Holds(tcp, received, peer)
      /\ Taking(peer, tcp, written)
  BY <1>3 DEF Alive
<1>5. f \in Connections
  BY <1>2, Zenon DEF Connections
<1>6. /\ Alike(tcp, f) /\ f.state = tcp.state /\ f.receiveBuffer = tcp.receiveBuffer /\ f.receiveNext = tcp.receiveNext
  BY <1>2 DEF Connections, Alike
<1> HIDE DEF f
<1>7. Sends(f, written, peer) /\ Onward(tcp, f, written) /\ f.state \in Lives
  BY <1>2, <1>4, <1>6, AlikeSends
<1>8. Holds(f, received, peer) /\ Hearing(f, received, peer)
  BY <1>4, <1>6 DEF Holds, Hearing, Got
<1>9. Taking(peer, f, written)
  BY <1>4, <1>7, TakingStays
<1>10. Alive(f, written, received, peer)
  BY <1>5, <1>7, <1>8, <1>9 DEF Alive
<1> QED
  BY <1>1, <1>7, <1>10, AliveFlushes

\* A step that changes the app's or the peer's side.
LEMMA StepKeeps ==
    ASSUME TCPInv, NEW f \in Connections, NEW out, Becomes(f, out),
           NEW w \in 0 .. MaxWritten, NEW r \in Seq(Nat), NEW p \in Peers,
           written' = w, received' = r, peer' = p, aborted' = aborted,
           Connected(f, w, r, p),
           \A s \in wire : Sound(s, f, w),
           \A s \in out : s \in Segments /\ Sound(s, f, w),
           f.state = "closed" /\ ~aborted => p.end /\ Len(p.taken) = w
    PROVE  TCPInv'
<1>1. tcp' = f /\ wire' = wire \cup out
  BY DEF Becomes
<1>2. aborted \in BOOLEAN /\ wire \subseteq Segments
  BY InvariantParts
<1>3. Types'
  BY <1>1, <1>2 DEF Types
<1>4. Connected(tcp, written, received, peer)'
  BY <1>1
<1>5. (\A s \in wire : Sound(s, tcp, written))'
  BY <1>1
<1>6. Closed'
  BY <1>1 DEF Closed
<1> QED
  BY <1>3, <1>4, <1>5, <1>6 DEF TCPInv

LEMMA ReadKeeps == ASSUME TCPInv, NEW maximum \in Nat, Read(maximum) PROVE TCPInv'
<1> DEFINE count == Smaller(maximum, Len(tcp.receiveBuffer))
           piece == Taken(tcp.receiveBuffer, count)
           rest == Dropped(tcp.receiveBuffer, count)
           f == [tcp EXCEPT !.receiveBuffer = rest]
           r == received \o piece
<1>1. count > 0 /\ received' = r /\ Becomes(f, {}) /\ UNCHANGED <<written, aborted, peer>>
  BY DEF Read
<1>2. /\ tcp \in Connections /\ received \in Seq(Nat) /\ peer \in Peers /\ written \in 0 .. MaxWritten
      /\ tcp.state \in Lives => Alive(tcp, written, received, peer)
      /\ tcp.state \in {"idle", "synSent"} => Silent(tcp, written, received, peer)
      /\ Holds(tcp, received, peer) /\ Taking(peer, tcp, written)
      /\ wire \subseteq Segments
      /\ \A s \in wire : Sound(s, tcp, written)
      /\ Closed
  BY InvariantParts
<1>3. /\ tcp.receiveBuffer \in Seq(Nat) /\ Len(tcp.receiveBuffer) \in Nat /\ count \in 0 .. Len(tcp.receiveBuffer)
  <2>1. tcp.receiveBuffer \in Seq(Nat) /\ Len(tcp.receiveBuffer) \in Nat
    BY <1>2, ConnectionFields
  <2> QED
    BY <2>1 DEF Smaller
<1> HIDE DEF count
<1>4. /\ piece \in Seq(Nat) /\ rest \in Seq(Nat) /\ Len(rest) = Len(tcp.receiveBuffer) - count
  BY <1>3, TakenShape, DroppedShape
<1>5. r \o rest = received \o tcp.receiveBuffer
  BY <1>2, <1>3, Moves
<1> HIDE DEF piece, rest
<1>6. r \in Seq(Nat)
  BY <1>2, <1>4, JoinShape
<1>7. r \o rest = received \o tcp.receiveBuffer
  BY <1>5
<1>8. f \in Connections
  BY <1>2, <1>4, Zenon DEF Connections
<1>9. /\ Alike(tcp, f) /\ f.state = tcp.state /\ f.receiveBuffer = rest /\ f.receiveNext = tcp.receiveNext
  BY <1>2 DEF Connections, Alike
<1>10. Becomes(f, {})
  BY <1>1
<1> HIDE DEF f, r
<1>11. Got(f, r) = Got(tcp, received)
  BY <1>7, <1>9 DEF Got, r
<1>12. Holds(f, r, peer)
  <2>1. Len(rest) <= ReceiveCapacity
    BY <1>2, <1>3, <1>4, Facts DEF Holds
  <2> QED
    BY <1>2, <1>9, <1>11, <2>1 DEF Holds
<1>13. tcp.state \notin {"idle", "synSent"}
  <2>1. ASSUME tcp.state \in {"idle", "synSent"} PROVE FALSE
    <3>1. tcp.receiveBuffer = <<>>
      BY <1>2, <2>1 DEF Silent
    <3>2. count = 0
      BY <1>3, <3>1, EmptySeq
    <3> QED
      BY <1>1, <3>2
  <2> QED
    BY <2>1
<1>14. CASE tcp.state \in Lives
  <2>1. Alive(tcp, written, received, peer)
    BY <1>2, <1>14
  <2>2. Sends(f, written, peer) /\ Onward(tcp, f, written) /\ f.state \in Lives
    BY <1>2, <1>9, <1>14, <2>1, AlikeSends DEF Alive
  <2>3. Hearing(f, r, peer)
    BY <1>9, <1>11, <2>1 DEF Hearing, Alive
  <2>4. Taking(peer, f, written)
    BY <1>2, <2>2, TakingStays
  <2>5. Alive(f, written, r, peer)
    BY <1>8, <1>12, <2>2, <2>3, <2>4 DEF Alive
  <2>6. Connected(f, written, r, peer) /\ f.state # "closed"
    BY <2>5, AliveIsConnected
  <2>7. \A s \in wire : Sound(s, f, written)
    <3>1. ASSUME NEW s \in wire PROVE Sound(s, f, written)
      <4>1. s \in Segments /\ Sound(s, tcp, written)
        BY <1>2
      <4> QED
        BY <1>2, <2>2, <4>1, SoundStays
    <3> QED
      BY <3>1
  <2>8. \A s \in {} : s \in Segments /\ Sound(s, f, written)
    OBVIOUS
  <2> QED
    BY <1>1, <1>2, <1>6, <1>8, <1>10, <2>6, <2>7, <2>8, StepKeeps
<1>15. CASE tcp.state \in Ends
  <2>1. f.state \in Ends
    BY <1>9, <1>15
  <2>2. Connected(f, written, r, peer) /\ Onward(tcp, f, written)
    BY <1>2, <1>12, <2>1, OverIsConnected
  <2>3. \A s \in wire : Sound(s, f, written)
    <3>1. ASSUME NEW s \in wire PROVE Sound(s, f, written)
      <4>1. s \in Segments /\ Sound(s, tcp, written)
        BY <1>2
      <4> QED
        BY <1>2, <2>2, <4>1, SoundStays
    <3> QED
      BY <3>1
  <2>4. \A s \in {} : s \in Segments /\ Sound(s, f, written)
    OBVIOUS
  <2>5. f.state = "closed" /\ ~aborted => peer.end /\ Len(peer.taken) = written
    BY <1>2, <1>9 DEF Closed
  <2> QED
    BY <1>1, <1>2, <1>6, <1>8, <1>10, <2>2, <2>3, <2>4, <2>5, StepKeeps
<1>16. tcp.state \in States
  BY <1>2, ConnectionFields
<1> QED
  BY <1>13, <1>14, <1>15, <1>16, LivesAre

\* Bytes that are written wait behind those that were.
LEMMA WriteKeeps == ASSUME TCPInv, NEW n \in Nat, Write(n) PROVE TCPInv'
<1> DEFINE more == [i \in 1 .. n |-> written + i]
           old == tcp.sendBuffer
           buffer == old \o more
           f == [tcp EXCEPT !.sendBuffer = buffer]
           w == written + n
<1>1. /\ tcp.state \in Opens /\ w <= MaxWritten /\ written' = w /\ Flushes(f) /\ UNCHANGED <<received, aborted, peer>>
  BY DEF Write, Open, Opens
<1>2. /\ tcp \in Connections /\ received \in Seq(Nat) /\ peer \in Peers /\ written \in 0 .. MaxWritten
      /\ tcp.state \in Lives => Alive(tcp, written, received, peer)
      /\ wire \subseteq Segments
      /\ \A s \in wire : Sound(s, tcp, written)
  BY InvariantParts
<1>3. Alive(tcp, written, received, peer) /\ tcp.state \in Lives
  BY <1>1, <1>2, StatesAre
<1>4. /\ Sends(tcp, written, peer) /\ Hearing(tcp, received, peer) /\ Holds(tcp, received, peer) /\ Taking(peer, tcp, written)
  BY <1>3 DEF Alive
<1>5. written \in Nat /\ w \in 0 .. MaxWritten /\ w \in Nat /\ old \in Seq(Nat) /\ Len(old) \in Nat /\ Len(old) <= written
  <2>1. old \in Seq(Nat) /\ Len(old) \in Nat
    BY <1>2, ConnectionFields
  <2>2. Len(old) <= written
    BY <1>4 DEF Sends, Numbered
  <2>3. written \in Nat /\ MaxWritten \in Nat /\ w \in Nat
    BY <1>2, Facts
  <2>4. w \in 0 .. MaxWritten
    BY <1>1, <2>3
  <2> QED
    BY <2>1, <2>2, <2>3, <2>4
<1>6. more \in Seq(Nat) /\ Len(more) = n /\ \A i \in 1 .. n : more[i] = written + i
  <2>1. \A i \in 1 .. n : written + i \in Nat
    BY <1>5
  <2> QED
    BY <2>1
<1> HIDE DEF more
<1>7. /\ buffer \in Seq(Nat) /\ Len(buffer) = Len(old) + n
      /\ \A i \in 1 .. Len(old) : buffer[i] = old[i]
      /\ \A i \in 1 .. n : buffer[Len(old) + i] = more[i]
  <2>0. old \in Seq(Nat) /\ more \in Seq(Nat)
    BY <1>5, <1>6
  <2> HIDE DEF old
  <2>1. /\ old \o more \in Seq(Nat) /\ Len(old \o more) = Len(old) + Len(more)
        /\ \A i \in 1 .. Len(old) : (old \o more)[i] = old[i]
        /\ \A i \in 1 .. Len(more) : (old \o more)[Len(old) + i] = more[i]
    BY <2>0, JoinShape
  <2> QED
    BY <1>6, <2>1
<1> HIDE DEF buffer
<1>8. f \in Connections
  BY <1>2, <1>7, Zenon DEF Connections
<1>9. /\ f.state = tcp.state /\ f.sendBuffer = buffer /\ f.pending = tcp.pending /\ f.next = tcp.next /\ f.una = tcp.una
      /\ f.lastAcknowledgedByte = tcp.lastAcknowledgedByte /\ f.zeroWindow = tcp.zeroWindow /\ f.peerWindow = tcp.peerWindow
      /\ f.receiveNext = tcp.receiveNext /\ f.receiveBuffer = tcp.receiveBuffer
  BY <1>2 DEF Connections
<1>10. Flushes(f)
  BY <1>1
<1> HIDE DEF f
<1>11. SentTo(f, w) = SentTo(tcp, written) /\ SentTo(f, w) \in Nat
  <2>1. SentTo(tcp, written) = 1 + written - Len(old) /\ SentTo(f, w) = 1 + w - Len(buffer)
    BY <1>1, <1>2, <1>5, <1>8, <1>9, OpenPositions
  <2> DEFINE l == Len(old)
             x == SentTo(tcp, written)
             y == SentTo(f, w)
  <2>2. x = 1 + written - l /\ y = 1 + (written + n) - (l + n) /\ l \in Nat /\ l <= written
    BY <1>5, <1>7, <2>1
  <2> HIDE DEF l, x, y
  <2>3. x = y /\ y \in Nat
    BY <1>5, <2>2
  <2> QED
    BY <2>3 DEF x, y
<1>12. AckedTo(f, w) = AckedTo(tcp, written)
  BY <1>9, <1>11 DEF AckedTo
<1>13. FlightOf(tcp) /\ Numbered(tcp, written) /\ Stored(tcp, written) /\ Follows(tcp, written, peer)
  BY <1>4 DEF Sends
<1>14. FlightOf(f)
  BY <1>9, <1>13 DEF FlightOf
<1>15. f.state \notin Fins /\ f.state \in Lives
  BY <1>1, <1>9, StatesAre
<1>16. Numbered(f, w)
  <2>1. Len(f.sendBuffer) <= w
    BY <1>5, <1>7, <1>9
  <2> QED
    BY <1>9, <1>11, <1>12, <1>13, <1>15, <2>1 DEF Numbered
<1>17. Stored(f, w)
  <2> DEFINE l == Len(old)
  <2>1. /\ \A i \in 1 .. l : old[i] = written - l + i
    BY <1>13 DEF Stored
  <2>2. ASSUME NEW i \in 1 .. Len(buffer) PROVE buffer[i] = w - Len(buffer) + i
    <3>1. l \in Nat /\ Len(buffer) = l + n
      BY <1>5, <1>7
    <3> HIDE DEF old, l
    <3>2. w - Len(buffer) + i = written - l + i
      BY <1>5, <3>1
    <3>3. CASE i \in 1 .. l
      BY <1>7, <2>1, <3>2, <3>3 DEF l
    <3>4. CASE i \in l + 1 .. l + n
      <4>1. PICK j \in 1 .. n : i = l + j
        <5>1. i - l \in 1 .. n /\ i = l + (i - l)
          BY <3>1, <3>4
        <5> QED
          BY <5>1
      <4>2. buffer[i] = written + j
        BY <1>6, <1>7, <4>1 DEF l
      <4>3. written - l + i = written + j
        BY <1>5, <3>1, <4>1
      <4> QED
        BY <3>2, <4>2, <4>3
    <3>5. i \in 1 .. l \/ i \in l + 1 .. l + n
      BY <3>1
    <3> QED
      BY <3>3, <3>4, <3>5
  <2> QED
    BY <1>9, <1>12, <1>13, <2>2 DEF Stored
<1>18. Follows(f, w, peer)
  BY <1>11, <1>12, <1>13 DEF Follows
<1>19. Holds(f, received, peer) /\ Hearing(f, received, peer)
  BY <1>4, <1>9 DEF Holds, Hearing, Got
<1>20. Taking(peer, f, w)
  <2>1. ~peer.end
    BY <1>1, <1>4, StatesAre DEF Taking
  <2>2. Len(peer.taken) <= w
    <3>1. Len(peer.taken) <= written /\ Len(peer.taken) \in Nat
      BY <1>2, <1>4 DEF Taking, Peers
    <3> QED
      BY <1>5, <3>1
  <2> QED
    BY <1>4, <2>1, <2>2 DEF Taking
<1>21. Alive(f, w, received, peer)
  BY <1>8, <1>14, <1>15, <1>16, <1>17, <1>18, <1>19, <1>20 DEF Alive, Sends
<1>22. ASSUME NEW s \in wire PROVE Sound(s, f, w)
  <2>1. PICK k \in 0 .. written + 1 : Carries(s, k, written) /\ Reaches(s, k, tcp, written)
    BY <1>2, <1>22 DEF Sound
  <2>2. s.kind # "fin" /\ Len(s.payload) \in Nat /\ k \in Nat
    BY <1>1, <1>2, <1>5, <2>1, StatesAre DEF Reaches, Segments
  <2>3. k \in 0 .. w + 1 /\ (k + Len(s.payload) <= 1 + written => k + Len(s.payload) <= 1 + w)
    BY <1>5, <2>2
  <2> HIDE DEF w
  <2>4. Carries(s, k, w)
    BY <2>1, <2>2, <2>3 DEF Carries
  <2>5. Reaches(s, k, f, w)
    BY <1>3, <1>9, <1>11, <2>1 DEF Reaches
  <2> QED
    BY <2>3, <2>4, <2>5 DEF Sound
<1> DEFINE h == Flush(f).tcp
           out == Flush(f).out
<1> HIDE DEF w
<1>23. /\ Alive(h, w, received, peer) /\ Onward(f, h, w)
       /\ \A s \in out : s \in Segments /\ Sound(s, h, w)
  BY <1>2, <1>5, <1>21, FlushesKeep
<1>24. Becomes(h, out)
  BY <1>10 DEF Flushes
<1> HIDE DEF h, out
<1>25. \A s \in wire : Sound(s, h, w)
  <2>1. ASSUME NEW s \in wire PROVE Sound(s, h, w)
    <3>1. s \in Segments /\ Sound(s, f, w)
      BY <1>2, <1>22
    <3> QED
      BY <1>5, <1>23, <3>1, SoundStays
  <2> QED
    BY <2>1
<1>26. Connected(h, w, received, peer) /\ h.state # "closed" /\ h \in Connections
  BY <1>23, AliveIsConnected DEF Alive
<1> QED
  BY <1>1, <1>2, <1>5, <1>23, <1>24, <1>25, <1>26, StepKeeps
-----------------------------------------------------------------------------
(* The peer's steps.                                                       *)

\* What the peer's next step may not touch.
PeerOnly == UNCHANGED <<tcp, written, received, aborted, wire>>

LEMMA PeerKeeps ==
    ASSUME TCPInv, PeerOnly, NEW p \in Peers, peer' = p,
           Holds(tcp, received, p), Taking(p, tcp, written),
           tcp.state \in Lives => Follows(tcp, written, p) /\ Hearing(tcp, received, p),
           tcp.state \in {"idle", "synSent"} => p.taken = <<>> /\ ~p.end,
           tcp.state = "closed" /\ ~aborted => p.end /\ Len(p.taken) = written
    PROVE  TCPInv'
<1>1. /\ tcp \in Connections /\ written \in 0 .. MaxWritten /\ received \in Seq(Nat) /\ aborted \in BOOLEAN
      /\ wire \subseteq Segments
      /\ tcp.state \in Lives => Alive(tcp, written, received, peer)
      /\ tcp.state \in {"idle", "synSent"} => Silent(tcp, written, received, peer)
      /\ \A s \in wire : Sound(s, tcp, written)
  BY InvariantParts
<1>2. tcp' = tcp /\ written' = written /\ received' = received /\ aborted' = aborted /\ wire' = wire
  BY DEF PeerOnly
<1>3. tcp.state \in Lives => Sends(tcp, written, p)
  BY <1>1 DEF Alive, Sends
<1>4. tcp.state \in {"idle", "synSent"} => Silent(tcp, written, received, p)
  BY <1>1 DEF Silent
<1>5. Connected(tcp, written, received, p)
  BY <1>3, <1>4 DEF Connected
<1>6. Types'
  BY <1>1, <1>2 DEF Types
<1>7. Connected(tcp, written, received, peer)'
  BY <1>2, <1>5
<1>8. (\A s \in wire : Sound(s, tcp, written))'
  BY <1>1, <1>2
<1>9. Closed'
  BY <1>2 DEF Closed
<1> QED
  BY <1>6, <1>7, <1>8, <1>9 DEF TCPInv

LEMMA PeerSendsKeeps == ASSUME TCPInv, PeerSends PROVE TCPInv'
<1> DEFINE p == [peer EXCEPT !.sent = @ + 1]
<1>1. ~peer.fin /\ peer.sent < MaxPeerBytes /\ peer' = p /\ PeerOnly
  BY DEF PeerSends, PeerOnly
<1>2. /\ tcp \in Connections /\ received \in Seq(Nat) /\ peer \in Peers
      /\ tcp.state \in Lives => Alive(tcp, written, received, peer)
      /\ tcp.state \in {"idle", "synSent"} => Silent(tcp, written, received, peer)
      /\ Holds(tcp, received, peer) /\ Taking(peer, tcp, written) /\ Closed
  BY InvariantParts
<1>3. peer.sent \in Nat /\ peer.sent + 1 \in 0 .. MaxPeerBytes
  <2>1. peer.sent \in 0 .. MaxPeerBytes /\ MaxPeerBytes \in Nat
    BY <1>2, Facts DEF Peers
  <2> DEFINE x == peer.sent
  <2>2. x \in 0 .. MaxPeerBytes /\ x < MaxPeerBytes
    BY <1>1, <2>1
  <2> HIDE DEF x
  <2>3. x \in Nat /\ x + 1 \in 0 .. MaxPeerBytes
    BY <2>1, <2>2
  <2> QED
    BY <2>3 DEF x
<1>4. /\ p \in Peers /\ p.sent = peer.sent + 1 /\ p.fin = peer.fin /\ p.taken = peer.taken /\ p.end = peer.end
  BY <1>2, <1>3 DEF Peers
<1>5. peer' = p
  BY <1>1
<1> HIDE DEF p
<1>6. Holds(tcp, received, p)
  <2>1. Len(Got(tcp, received)) \in Nat
    BY <1>2, ConnectionFields, JoinShape DEF Got
  <2> DEFINE g == Len(Got(tcp, received))
  <2>2. g \in Nat /\ g <= peer.sent
    BY <1>2, <2>1 DEF Holds
  <2> HIDE DEF g
  <2>3. g <= p.sent
    BY <1>3, <1>4, <2>2
  <2> QED
    BY <1>2, <2>3 DEF Holds, g
<1>7. Taking(p, tcp, written)
  BY <1>2, <1>4 DEF Taking
<1>8. tcp.state \in Lives => Follows(tcp, written, p) /\ Hearing(tcp, received, p)
  BY <1>1, <1>2, <1>4 DEF Alive, Sends, Follows, TakenTo, Hearing
<1>9. tcp.state \in {"idle", "synSent"} => p.taken = <<>> /\ ~p.end
  BY <1>2, <1>4 DEF Silent
<1>10. tcp.state = "closed" /\ ~aborted => p.end /\ Len(p.taken) = written
  BY <1>2, <1>4 DEF Closed
<1> QED
  BY <1>1, <1>4, <1>5, <1>6, <1>7, <1>8, <1>9, <1>10, PeerKeeps

LEMMA PeerFinishesKeeps == ASSUME TCPInv, PeerFinishes PROVE TCPInv'
<1> DEFINE p == [peer EXCEPT !.fin = TRUE]
<1>1. ~peer.fin /\ peer' = p /\ PeerOnly
  BY DEF PeerFinishes, PeerOnly
<1>2. /\ tcp \in Connections /\ received \in Seq(Nat) /\ peer \in Peers
      /\ tcp.state \in Lives => Alive(tcp, written, received, peer)
      /\ tcp.state \in {"idle", "synSent"} => Silent(tcp, written, received, peer)
      /\ Holds(tcp, received, peer) /\ Taking(peer, tcp, written) /\ Closed
  BY InvariantParts
<1>3. /\ p \in Peers /\ p.sent = peer.sent /\ p.taken = peer.taken /\ p.end = peer.end
  BY <1>2 DEF Peers
<1>4. peer' = p
  BY <1>1
<1> HIDE DEF p
<1>5. Holds(tcp, received, p) /\ Taking(p, tcp, written)
  BY <1>2, <1>3 DEF Holds, Taking
<1>6. tcp.state \in Lives => Follows(tcp, written, p) /\ Hearing(tcp, received, p)
  BY <1>1, <1>2, <1>3 DEF Alive, Sends, Follows, TakenTo, Hearing
<1>7. tcp.state \in {"idle", "synSent"} => p.taken = <<>> /\ ~p.end
  BY <1>2, <1>3 DEF Silent
<1>8. tcp.state = "closed" /\ ~aborted => p.end /\ Len(p.taken) = written
  BY <1>2, <1>3 DEF Closed
<1> QED
  BY <1>1, <1>3, <1>4, <1>5, <1>6, <1>7, <1>8, PeerKeeps

\* What is new to the peer in a segment follows what it took.
LEMMA PeerTakesKeeps == ASSUME TCPInv, NEW s \in wire, PeerTakes(s) PROVE TCPInv'
<1> DEFINE l == Len(peer.taken)
           m == Len(s.payload)
           old == Signed(Plus(ISN, 1 + l), s.sequence)
<1>1. /\ ~peer.end /\ s.kind # "syn" /\ old >= 0
      /\ \/ \E n \in 1 .. m - old : peer' = [peer EXCEPT !.taken = @ \o Taken(Dropped(s.payload, old), n)]
         \/ s.kind = "fin" /\ old = 0 /\ peer' = [peer EXCEPT !.end = TRUE]
      /\ PeerOnly
  BY DEF PeerTakes, PeerOnly
<1>2. /\ tcp \in Connections /\ received \in Seq(Nat) /\ peer \in Peers /\ written \in 0 .. MaxWritten
      /\ tcp.state \in Lives => Alive(tcp, written, received, peer)
      /\ tcp.state \in {"idle", "synSent"} => Silent(tcp, written, received, peer)
      /\ Holds(tcp, received, peer) /\ Taking(peer, tcp, written) /\ Closed
      /\ s \in Segments /\ Sound(s, tcp, written)
  BY InvariantParts
<1>3. PICK k \in 0 .. written + 1 : Carries(s, k, written) /\ Reaches(s, k, tcp, written)
  BY <1>2 DEF Sound
<1>4. /\ peer.taken \in Seq(Nat) /\ l \in Nat /\ l <= written /\ Counting(peer.taken)
      /\ s.payload \in Seq(Nat) /\ m \in Nat /\ written \in Nat /\ k \in Nat /\ k <= written + 1
      /\ written <= MaxWritten /\ MaxWritten \in Nat
  BY <1>2, <1>3, Facts DEF Peers, Segments, Taking
<1>5. \A i \in 1 .. l : peer.taken[i] = i
  BY <1>4, CountingIs
<1> HIDE DEF l, m
<1>6. old = 1 + l - k /\ old \in Nat
  <2>1. 1 + l \in 0 .. MaxWritten + 2 /\ k \in 0 .. MaxWritten + 2
    BY <1>4
  <2>2. /\ 1 + l \in Int /\ k \in Int /\ 2 * ((1 + l) - k) < Modulus /\ 2 * (k - (1 + l)) < Modulus
    BY <2>1, Near
  <2>3. ISN \in Numbers
    BY Facts
  <2>4. Signed(Plus(ISN, 1 + l), Plus(ISN, k)) = (1 + l) - k
    BY <2>2, <2>3, SignedIs
  <2>5. old = (1 + l) - k
    BY <1>3, <2>4 DEF Carries
  <2> HIDE DEF old
  <2> QED
    BY <1>1, <1>4, <2>5 DEF old
<1> HIDE DEF old
<1>7. tcp.state \notin {"idle", "synSent"}
  BY <1>1, <1>3 DEF Reaches
<1>8. tcp.state = "closed" => aborted
  BY <1>1, <1>2 DEF Closed
<1>9. tcp.state \in Lives => /\ Sends(tcp, written, peer) /\ Hearing(tcp, received, peer)
                             /\ SentTo(tcp, written) \in Nat /\ AckedTo(tcp, written) \in Nat
                             /\ 1 <= AckedTo(tcp, written) /\ AckedTo(tcp, written) <= TakenTo(peer)
  BY <1>2, PositionFacts DEF Alive, StreamPositions
<1>10. TakenTo(peer) = 1 + l
  <2>1. One(peer.end) = 0
    BY <1>1 DEF One
  <2>2. TakenTo(peer) = 1 + l + 0
    BY <2>1 DEF TakenTo, l
  <2> QED
    BY <1>4, <2>2
<1>11. ASSUME NEW n \in 1 .. m - old, peer' = [peer EXCEPT !.taken = @ \o Taken(Dropped(s.payload, old), n)]
       PROVE  TCPInv'
  <2> DEFINE new == Taken(Dropped(s.payload, old), n)
             taken == peer.taken \o new
             p == [peer EXCEPT !.taken = taken]
  <2>1. n \in Nat /\ 1 <= n /\ n <= m - old /\ old <= m /\ m # 0
    BY <1>4, <1>6, <1>11
  <2>2. s.kind = "data"
    <3>1. s.payload # <<>>
      BY <2>1, EmptySeq DEF m
    <3> QED
      BY <1>3, <3>1 DEF Carries
  <2>3. /\ k + m <= 1 + written
        /\ \A i \in 1 .. m : k + i - 1 > 0 => s.payload[i] = k + i - 1
    BY <1>3, <2>2 DEF Carries, m
  <2>4. /\ new \in Seq(Nat) /\ Len(new) = n /\ \A i \in 1 .. n : new[i] = l + i
    <3> DEFINE d == Dropped(s.payload, old)
    <3>1. d \in Seq(Nat) /\ Len(d) = m - old /\ \A i \in 1 .. m - old : d[i] = s.payload[old + i]
      <4>1. old \in 0 .. Len(s.payload)
        BY <1>4, <1>6, <2>1 DEF m
      <4> QED
        BY <1>4, <4>1, DroppedShape DEF m
    <3> HIDE DEF d
    <3>2. Taken(d, n) \in Seq(Nat) /\ Len(Taken(d, n)) = n /\ \A i \in 1 .. n : Taken(d, n)[i] = d[i]
      <4>1. n \in 0 .. Len(d)
        BY <1>4, <1>6, <2>1, <3>1
      <4> QED
        BY <3>1, <4>1, TakenShape
    <3>3. ASSUME NEW i \in 1 .. n PROVE Taken(d, n)[i] = l + i
      <4>1. /\ i \in 1 .. m - old /\ old + i \in 1 .. m /\ k + (old + i) - 1 = l + i /\ l + i > 0
        BY <1>4, <1>6, <2>1
      <4>2. s.payload[old + i] = l + i
        BY <2>3, <4>1
      <4> QED
        BY <3>1, <3>2, <4>1, <4>2
    <3> QED
      BY <3>2, <3>3 DEF d
  <2>5. peer' = p
    BY <1>11
  <2> HIDE DEF new
  <2>6. /\ taken \in Seq(Nat) /\ Len(taken) = l + n /\ \A i \in 1 .. l : taken[i] = peer.taken[i]
        /\ \A i \in 1 .. n : taken[l + i] = new[i]
    <3> DEFINE q == peer.taken
    <3>1. q \in Seq(Nat) /\ new \in Seq(Nat)
      BY <1>4, <2>4
    <3> HIDE DEF q
    <3>2. /\ q \o new \in Seq(Nat) /\ Len(q \o new) = Len(q) + Len(new)
          /\ \A i \in 1 .. Len(q) : (q \o new)[i] = q[i]
          /\ \A i \in 1 .. Len(new) : (q \o new)[Len(q) + i] = new[i]
      BY <3>1, JoinShape
    <3>3. Len(q) = l /\ taken = q \o new
      BY DEF q, l
    <3> HIDE DEF taken
    <3> QED
      BY <2>4, <3>2, <3>3 DEF q
  <2> HIDE DEF taken
  <2>7. p \in Peers /\ p.taken = taken /\ p.end = peer.end /\ p.sent = peer.sent /\ p.fin = peer.fin
    BY <1>2, <2>6 DEF Peers
  <2> HIDE DEF p
  <2>8. Counting(taken)
    <3>1. ASSUME NEW i \in 1 .. l + n PROVE taken[i] = i
      <4>1. CASE i \in 1 .. l
        BY <1>5, <2>6, <4>1
      <4>2. CASE i \in l + 1 .. l + n
        <5>1. PICK j \in 1 .. n : i = l + j
          <6>1. i - l \in 1 .. n /\ i = l + (i - l)
            BY <1>4, <2>1, <4>2
          <6> QED
            BY <6>1
        <5> QED
          BY <2>4, <2>6, <5>1
      <4>3. i \in 1 .. l \/ i \in l + 1 .. l + n
        BY <1>4, <2>1
      <4> QED
        BY <4>1, <4>2, <4>3
    <3> QED
      BY <2>6, <3>1, CountingIs
  <2>9. l + n <= written /\ 1 + (l + n) <= k + m
    BY <1>4, <1>6, <2>1, <2>3
  <2>10. Taking(p, tcp, written)
    BY <1>1, <2>6, <2>7, <2>8, <2>9 DEF Taking
  <2>11. Holds(tcp, received, p)
    BY <1>2, <2>7 DEF Holds
  <2>12. tcp.state \in Lives => Follows(tcp, written, p) /\ Hearing(tcp, received, p)
    <3>1. SUFFICES ASSUME tcp.state \in Lives PROVE Follows(tcp, written, p) /\ Hearing(tcp, received, p)
      OBVIOUS
    <3>2. TakenTo(p) = 1 + (l + n)
      <4>1. One(p.end) = 0
        BY <1>1, <2>7 DEF One
      <4>2. TakenTo(p) = 1 + (l + n) + 0
        BY <2>6, <2>7, <4>1 DEF TakenTo
      <4> QED
        BY <1>4, <2>1, <4>2
    <3>3. k + m <= SentTo(tcp, written)
      <4>1. One(s.kind = "fin") = 0
        BY <2>2 DEF One
      <4>2. k + m + 0 <= SentTo(tcp, written)
        BY <1>3, <3>1, <4>1 DEF Reaches, m
      <4> QED
        BY <1>4, <4>2
    <3>4. Follows(tcp, written, p)
      <4> DEFINE x == AckedTo(tcp, written)
                 y == SentTo(tcp, written)
                 z == TakenTo(p)
      <4>1. /\ x \in Nat /\ y \in Nat /\ 1 <= x /\ x <= 1 + l /\ z = 1 + (l + n) /\ k + m <= y
        BY <1>9, <1>10, <3>1, <3>2, <3>3
      <4> HIDE DEF x, y, z
      <4>2. x <= z /\ z <= y
        BY <1>4, <2>1, <2>9, <4>1
      <4> QED
        BY <4>1, <4>2 DEF Follows, x, y, z
    <3>5. Hearing(tcp, received, p)
      BY <1>9, <2>7, <3>1 DEF Hearing
    <3> QED
      BY <3>4, <3>5
  <2> QED
    BY <1>1, <1>7, <1>8, <2>5, <2>7, <2>10, <2>11, <2>12, PeerKeeps
<1>12. ASSUME s.kind = "fin", old = 0, peer' = [peer EXCEPT !.end = TRUE]
       PROVE  TCPInv'
  <2> DEFINE p == [peer EXCEPT !.end = TRUE]
  <2>1. p \in Peers /\ p.taken = peer.taken /\ p.end = TRUE /\ p.sent = peer.sent /\ p.fin = peer.fin
    BY <1>2 DEF Peers
  <2>2. peer' = p
    BY <1>12
  <2> HIDE DEF p
  <2>3. k = 1 + written /\ s.payload = <<>> /\ m = 0
    BY <1>3, <1>12, EmptySeq DEF Carries, m
  <2>4. l = written
    BY <1>4, <1>6, <1>12, <2>3
  <2>5. tcp.state \in Fins \cup Ends
    BY <1>3, <1>12 DEF Reaches
  <2>6. Taking(p, tcp, written)
    BY <1>2, <2>1, <2>4, <2>5 DEF Taking, l
  <2>7. Holds(tcp, received, p)
    BY <1>2, <2>1 DEF Holds
  <2>8. tcp.state \in Lives => Follows(tcp, written, p) /\ Hearing(tcp, received, p)
    <3>1. SUFFICES ASSUME tcp.state \in Lives PROVE Follows(tcp, written, p) /\ Hearing(tcp, received, p)
      OBVIOUS
    <3>2. TakenTo(p) = 1 + l + 1
      <4>1. One(p.end) = 1
        BY <2>1 DEF One
      <4> QED
        BY <2>1, <4>1 DEF TakenTo, l
    <3>3. k + 0 + 1 <= SentTo(tcp, written)
      <4>1. One(s.kind = "fin") = 1
        BY <1>12 DEF One
      <4> QED
        BY <1>3, <2>3, <3>1, <4>1 DEF Reaches, m
    <3>4. Follows(tcp, written, p)
      <4> DEFINE x == AckedTo(tcp, written)
                 y == SentTo(tcp, written)
                 z == TakenTo(p)
      <4>1. /\ x \in Nat /\ y \in Nat /\ 1 <= x /\ x <= 1 + l /\ z = 1 + l + 1 /\ k + 0 + 1 <= y
        BY <1>9, <1>10, <3>1, <3>2, <3>3
      <4> HIDE DEF x, y, z
      <4>2. x <= z /\ z <= y
        BY <1>4, <2>3, <2>4, <4>1
      <4> QED
        BY <4>1, <4>2 DEF Follows, x, y, z
    <3>5. Hearing(tcp, received, p)
      BY <1>9, <2>1, <3>1 DEF Hearing
    <3> QED
      BY <3>4, <3>5
  <2> QED
    BY <1>1, <1>7, <1>8, <2>1, <2>2, <2>6, <2>7, <2>8, PeerKeeps
<1> QED
  BY <1>1, <1>11, <1>12
-----------------------------------------------------------------------------
(* The theorems.                                                           *)

LEMMA InitHolds == Init => TCPInv
<1> SUFFICES ASSUME Init PROVE TCPInv
  OBVIOUS
<1>1. /\ tcp = [state |-> "idle", una |-> ISN, next |-> ISN, receiveNext |-> 0,
                peerWindow |-> 0, windowSequence |-> 0, windowACK |-> 0,
                receiveBuffer |-> <<>>, sendBuffer |-> <<>>, pending |-> NoPending,
                closeRequested |-> FALSE, closeDeadline |-> FALSE, zeroWindow |-> FALSE,
                lastAcknowledgedByte |-> 0]
      /\ written = 0 /\ received = <<>> /\ aborted = FALSE /\ wire = {}
      /\ peer = [sent |-> 0, fin |-> FALSE, taken |-> <<>>, end |-> FALSE]
  BY DEF Init
<1>2. <<>> \in Seq(Nat) /\ Len(<<>>) = 0 /\ <<>> \o <<>> = <<>> /\ 1 .. 0 = {} /\ 0 \in Numbers /\ ISN \in Numbers
  BY Facts, EmptySeq DEF Numbers
<1>3. "idle" \in States /\ "idle" \notin Lives /\ "idle" \notin Ends
  BY DEF States, Lives, Opens, Fins, Awaits, Rests, Ends
<1>4. tcp \in Connections
  BY <1>1, <1>2, <1>3, NoPendingIs DEF Connections
<1>5. peer \in Peers
  BY <1>1, <1>2, Facts DEF Peers
<1>6. Types
  <2>1. 0 \in 0 .. MaxWritten
    BY Facts
  <2>2. received \in Seq(Nat) /\ aborted \in BOOLEAN /\ wire \subseteq Segments /\ written \in 0 .. MaxWritten
    BY <1>1, <1>2, <2>1
  <2> QED
    BY <1>4, <1>5, <2>2 DEF Types
<1>7. /\ tcp.state = "idle" /\ tcp.receiveBuffer = <<>> /\ tcp.sendBuffer = <<>> /\ tcp.next = ISN /\ tcp.pending = NoPending
      /\ tcp.lastAcknowledgedByte = 0 /\ tcp.zeroWindow = FALSE /\ peer.taken = <<>> /\ peer.end = FALSE /\ peer.sent = 0
  BY <1>1
<1>8. Silent(tcp, written, received, peer)
  BY <1>1, <1>7 DEF Silent
<1>9. Counting(<<>>)
  BY <1>2, CountingIs
<1>10. Holds(tcp, received, peer)
  <2>1. Got(tcp, received) = <<>>
    BY <1>1, <1>2, <1>7 DEF Got
  <2> QED
    BY <1>2, <1>7, <1>9, <2>1, Facts DEF Holds
<1>11. Taking(peer, tcp, written)
  BY <1>1, <1>2, <1>7, <1>9 DEF Taking
<1>12. Connected(tcp, written, received, peer)
  BY <1>3, <1>7, <1>8, <1>10, <1>11 DEF Connected
<1>13. Closed
  BY <1>7 DEF Closed
<1> QED
  BY <1>1, <1>6, <1>12, <1>13 DEF TCPInv

LEMMA StutterKeeps == ASSUME TCPInv, UNCHANGED vars PROVE TCPInv'
<1>1. tcp' = tcp /\ written' = written /\ received' = received /\ aborted' = aborted /\ wire' = wire /\ peer' = peer
  BY DEF vars
<1>2. Types'
  BY <1>1 DEF TCPInv, Types
<1>3. Connected(tcp, written, received, peer)'
  BY <1>1 DEF TCPInv
<1>4. (\A s \in wire : Sound(s, tcp, written))'
  BY <1>1 DEF TCPInv
<1>5. Closed'
  BY <1>1 DEF TCPInv, Closed
<1> QED
  BY <1>2, <1>3, <1>4, <1>5 DEF TCPInv

LEMMA NextKeeps == ASSUME TCPInv, [Next]_vars PROVE TCPInv'
<1>1. CASE Connect
  BY <1>1, ConnectKeeps
<1>2. CASE ShutdownWrite
  BY <1>2, ShutdownWriteKeeps
<1>3. CASE Abort
  BY <1>3, AbortKeeps
<1>4. CASE \E n \in 1 .. MaxWritten : Write(n)
  <2>1. PICK n \in 1 .. MaxWritten : Write(n)
    BY <1>4
  <2>2. n \in Nat
    OBVIOUS
  <2> QED
    BY <2>1, <2>2, WriteKeeps
<1>5. CASE \E n \in 1 .. ReceiveCapacity : Read(n)
  <2>1. PICK n \in 1 .. ReceiveCapacity : Read(n)
    BY <1>5
  <2>2. n \in Nat
    OBVIOUS
  <2> QED
    BY <2>1, <2>2, ReadKeeps
<1>6. CASE Tick
  BY <1>6, TickClosesKeeps, TickRetransmitsKeeps, TickGivesUpOnWindowKeeps, TickProbesKeeps DEF Tick
<1>7. CASE PeerSends
  BY <1>7, PeerSendsKeeps
<1>8. CASE PeerFinishes
  BY <1>8, PeerFinishesKeeps
<1>9. CASE \E s \in wire : PeerTakes(s)
  BY <1>9, PeerTakesKeeps
<1>10. CASE Deliver
  BY <1>10, DeliverKeeps
<1>11. CASE DeliverSynAck
  <2>1. PICK window \in PeerWindows : ReceiveSynAck(window)
    BY <1>11 DEF DeliverSynAck
  <2> QED
    BY <2>1, ReceiveSynAckKeeps
<1>12. CASE DeliverReset
  BY <1>12, DeliverResetKeeps
<1>13. CASE UNCHANGED vars
  BY <1>13, StutterKeeps
<1>14. App => Connect \/ ShutdownWrite \/ Abort \/ (\E n \in 1 .. MaxWritten : Write(n))
              \/ (\E n \in 1 .. ReceiveCapacity : Read(n))
  BY DEF App
<1>15. Peer => PeerSends \/ PeerFinishes \/ \E s \in wire : PeerTakes(s)
  BY DEF Peer
<1>16. Network => Deliver \/ DeliverSynAck \/ DeliverReset
  BY DEF Network
<1> QED
  BY <1>1, <1>2, <1>3, <1>4, <1>5, <1>6, <1>7, <1>8, <1>9, <1>10, <1>11, <1>12, <1>13, <1>14, <1>15, <1>16 DEF Next

\* Whatever is lost, repeated, delayed or reordered, and wherever the sequence
\* numbers wrap: each number the connection keeps stands for the position its
\* buffers give it, and each segment it ever sent holds the bytes of its place.
THEOREM ConnectionIsSound == Spec => []TCPInv
<1>1. Init => TCPInv
  BY InitHolds
<1>2. TCPInv /\ [Next]_vars => TCPInv'
  BY NextKeeps
<1> QED
  BY <1>1, <1>2, PTL DEF Spec

LEMMA StreamsFollow == ASSUME TCPInv PROVE StreamsArriveInOrder
<1> DEFINE g == Len(received \o tcp.receiveBuffer)
           late == One(tcp.state \notin Hears)
<1>1. /\ tcp \in Connections /\ received \in Seq(Nat) /\ peer \in Peers
      /\ Holds(tcp, received, peer) /\ Taking(peer, tcp, written)
      /\ tcp.state \in Lives => Alive(tcp, written, received, peer)
  BY InvariantParts
<1>2. Counting(peer.taken) /\ Len(peer.taken) <= written
  BY <1>1 DEF Taking
<1>3. Counting(received \o tcp.receiveBuffer) /\ g <= peer.sent
  BY <1>1 DEF Holds, Got
<1>4. g \in Nat
  BY <1>1, ConnectionFields, JoinShape
<1> HIDE DEF g
<1>5. ASSUME ~Over
      PROVE  Signed(tcp.receiveNext, Plus(PeerISN, 1)) - g = late
  <2>1. tcp.state \in Lives
    <3>1. tcp.state \in States /\ tcp.state \notin Ends /\ tcp.state \notin {"idle", "synSent"}
      BY <1>1, <1>5, ConnectionFields DEF Over, Ends
    <3> QED
      BY <3>1, LivesAre
  <2>2. tcp.receiveNext = Plus(PeerISN, 1 + g + late)
    BY <1>1, <2>1 DEF Alive, Hearing, Got, g
  <2>3. late \in {0, 1}
    BY OneIs
  <2> HIDE DEF late
  <2>4. peer.sent \in 0 .. MaxPeerBytes /\ MaxPeerBytes \in Nat /\ PeerISN \in Numbers
    BY <1>1, Facts DEF Peers
  <2>5. 1 + g + late \in 0 .. MaxPeerBytes + 2 /\ 1 \in 0 .. MaxPeerBytes + 2
    BY <1>3, <1>4, <2>3, <2>4
  <2> DEFINE k == 1 + g + late
  <2>6. k \in Int /\ 1 \in Int /\ 2 * (k - 1) < Modulus /\ 2 * (1 - k) < Modulus
    BY <2>5, PeerNear
  <2> HIDE DEF k
  <2>7. Signed(Plus(PeerISN, k), Plus(PeerISN, 1)) = k - 1
    BY <2>4, <2>6, SignedIs
  <2>8. (k - 1) - g = late
    BY <1>4, <2>3 DEF k
  <2> QED
    BY <2>2, <2>7, <2>8 DEF k
<1>6. late = IF tcp.state \in {"established", "finWait1", "finWait2"} THEN 0 ELSE 1
  BY DEF One, Hears
<1> HIDE DEF late
<1>7. ~Over => Signed(tcp.receiveNext, Plus(PeerISN, 1)) - g
                 = IF tcp.state \in {"established", "finWait1", "finWait2"} THEN 0 ELSE 1
  BY <1>5, <1>6
<1> QED
  BY <1>2, <1>3, <1>7 DEF StreamsArriveInOrder, g

\* receive and read: the peer holds a prefix of what was written, and what the
\* app has read and may read is exactly what receiveNext acknowledges.
THEOREM StreamsAreInOrder == Spec => []StreamsArriveInOrder
<1>1. TCPInv => StreamsArriveInOrder
  BY StreamsFollow
<1> QED
  BY <1>1, ConnectionIsSound, PTL

LEMMA FlightFollows == ASSUME TCPInv PROVE FlightIsKept
<1> DEFINE a == AckedTo(tcp, written)
           n == SentTo(tcp, written)
           l == Len(tcp.pending.payload)
           c == One(tcp.pending.kind = "fin")
           q == Len(tcp.sendBuffer)
           fin == One(tcp.state \in Fins)
<1>1. /\ tcp \in Connections /\ peer \in Peers /\ written \in 0 .. MaxWritten
      /\ tcp.state \in Lives => Alive(tcp, written, received, peer)
  BY InvariantParts
<1>2. SUFFICES ASSUME ~Over
      PROVE  /\ (tcp.una # tcp.next) = InFlight(tcp)
             /\ InFlight(tcp) => tcp.pending.sequence = tcp.una
             /\ Signed(tcp.next, tcp.una) = l + (IF tcp.pending.kind = "fin" THEN 1 ELSE 0)
             /\ Signed(tcp.next, ISN) + q
                  = 1 + written + (IF tcp.state \in {"finWait1", "finWait2", "closing", "lastAck", "timeWait"} THEN 1 ELSE 0)
  BY DEF FlightIsKept
<1>3. tcp.state \in Lives
  <2>1. tcp.state \in States /\ tcp.state \notin Ends /\ tcp.state \notin {"idle", "synSent"}
    BY <1>1, <1>2, ConnectionFields DEF Over, Ends
  <2> QED
    BY <2>1, LivesAre
<1>4. Sends(tcp, written, peer)
  BY <1>1, <1>3 DEF Alive
<1>5. FlightOf(tcp) /\ tcp.next = Plus(ISN, n) /\ tcp.una = Plus(ISN, a)
  BY <1>4 DEF Sends, Numbered
<1>6. /\ a \in Nat /\ n \in Nat /\ n <= written + 2 /\ a <= n /\ 1 <= a /\ written \in Nat /\ written <= MaxWritten
      /\ MaxWritten \in Nat
  <2>1. /\ a \in Nat /\ n \in Nat /\ TakenTo(peer) \in Nat /\ n <= written + 2 /\ a <= TakenTo(peer)
        /\ TakenTo(peer) <= n /\ 1 <= a
    BY <1>1, <1>4, PositionFacts DEF StreamPositions
  <2>2. written \in Nat /\ written <= MaxWritten /\ MaxWritten \in Nat
    BY <1>1, Facts
  <2> HIDE DEF a, n
  <2> QED
    BY <2>1, <2>2
<1>7. l \in Nat /\ c \in {0, 1} /\ q \in Nat /\ fin \in {0, 1}
  BY <1>1, ConnectionFields, OneIs
<1>8. a = n - l - c /\ n = 1 + written + fin - q
  BY DEF AckedTo, SentTo
<1>9. (tcp.pending # NoPending) <=> ~(a = n)
  <2>1. ASSUME tcp.pending = NoPending PROVE a = n
    BY <1>1, <1>4, <2>1, NothingInFlight
  <2>2. ASSUME tcp.pending # NoPending PROVE ~(a = n)
    <3>1. l # 0 \/ c = 1
      <4>1. CASE tcp.pending.payload # <<>>
        BY <1>1, <4>1, ConnectionFields, EmptySeq
      <4>2. CASE tcp.pending.payload = <<>>
        <5>1. tcp.pending.kind = "fin"
          BY <1>3, <1>5, <2>2, <4>2 DEF FlightOf, Lives, Fins
        <5> QED
          BY <5>1 DEF One
      <4> QED
        BY <4>1, <4>2
    <3> HIDE DEF a, n, l, c, q, fin
    <3> QED
      BY <1>6, <1>7, <1>8, <3>1
  <2> QED
    BY <2>1, <2>2
<1> HIDE DEF a, n, l, c, q, fin
<1>10. a \in 0 .. MaxWritten + 2 /\ n \in 0 .. MaxWritten + 2 /\ 0 \in 0 .. MaxWritten + 2
  BY <1>6
<1>11. ISN \in Numbers /\ Plus(ISN, 0) = ISN
  BY Facts, PlusZero
<1>12. (tcp.una = tcp.next) <=> (a = n)
  <2>1. a \in Int /\ n \in Int /\ 2 * (a - n) < Modulus /\ 2 * (n - a) < Modulus
    BY <1>10, Near
  <2> QED
    BY <1>5, <1>11, <2>1, PlusIsOne
<1>13. Signed(tcp.next, tcp.una) = l + c
  <2>1. a \in Int /\ n \in Int /\ 2 * (a - n) < Modulus /\ 2 * (n - a) < Modulus
    BY <1>10, Near
  <2>2. Signed(Plus(ISN, n), Plus(ISN, a)) = n - a
    BY <1>11, <2>1, SignedIs
  <2> QED
    BY <1>5, <1>6, <1>7, <1>8, <2>2
<1>14. Signed(tcp.next, ISN) + q = 1 + written + fin
  <2>1. 0 \in Int /\ n \in Int /\ 2 * (0 - n) < Modulus /\ 2 * (n - 0) < Modulus
    BY <1>10, Near
  <2>2. Signed(Plus(ISN, n), Plus(ISN, 0)) = n - 0
    BY <1>11, <2>1, SignedIs
  <2> QED
    BY <1>5, <1>6, <1>7, <1>8, <1>11, <2>2
<1>15. (tcp.una # tcp.next) = InFlight(tcp)
  BY <1>9, <1>12 DEF InFlight
<1>16. InFlight(tcp) => tcp.pending.sequence = tcp.una
  BY <1>5 DEF FlightOf, InFlight
<1>17. /\ c = (IF tcp.pending.kind = "fin" THEN 1 ELSE 0)
       /\ fin = (IF tcp.state \in {"finWait1", "finWait2", "closing", "lastAck", "timeWait"} THEN 1 ELSE 0)
  BY DEF c, fin, One, Fins, Awaits, Rests
<1> QED
  BY <1>13, <1>14, <1>15, <1>16, <1>17 DEF l, q

LEMMA SegmentsFollow == ASSUME TCPInv PROVE SegmentsAreTrue
<1>1. SUFFICES ASSUME NEW s \in wire, NEW i \in DOMAIN s.payload,
                      Signed(Plus(s.sequence, i - 1), ISN) > 0
               PROVE  s.payload[i] = Signed(Plus(s.sequence, i - 1), ISN)
  BY DEF SegmentsAreTrue
<1>2. s \in Segments /\ Sound(s, tcp, written) /\ written \in 0 .. MaxWritten
  BY InvariantParts
<1>3. PICK k \in 0 .. written + 1 : Carries(s, k, written)
  BY <1>2 DEF Sound
<1> DEFINE m == Len(s.payload)
           j == k + i - 1
<1>4. m \in Nat /\ i \in 1 .. m /\ s.payload # <<>>
  <2>1. s.payload \in Seq(Nat)
    BY <1>2 DEF Segments
  <2>2. m \in Nat /\ DOMAIN s.payload = 1 .. m
    BY <2>1, LenProperties
  <2>3. s.payload # <<>>
    BY <2>1, <2>2, EmptySeq
  <2> QED
    BY <2>2, <2>3
<1>5. s.kind = "data"
  BY <1>3, <1>4 DEF Carries
<1>6. k + m <= 1 + written /\ s.sequence = Plus(ISN, k) /\ (j > 0 => s.payload[i] = j)
  BY <1>3, <1>4, <1>5 DEF Carries
<1> HIDE DEF m
<1>7. /\ written \in Nat /\ written <= MaxWritten /\ MaxWritten \in Nat /\ ISN \in Numbers /\ k \in Int /\ i - 1 \in Int
      /\ k + (i - 1) = j /\ 0 <= k /\ 0 <= i - 1 /\ i - 1 < m
  BY <1>2, <1>3, <1>4, Facts
<1> HIDE DEF j
<1>8. j \in 0 .. MaxWritten + 2 /\ 0 \in 0 .. MaxWritten + 2
  <2> DEFINE h == i - 1
  <2>1. j = k + h /\ 0 <= k /\ 0 <= h /\ h < m /\ k \in Int /\ h \in Int
    BY <1>7
  <2> HIDE DEF h
  <2> QED
    BY <1>4, <1>6, <1>7, <2>1
<1>9. Plus(s.sequence, i - 1) = Plus(ISN, j)
  BY <1>6, <1>7, PlusPlus
<1>10. Signed(Plus(ISN, j), ISN) = j
  <2>1. j \in Int /\ 0 \in Int /\ 2 * (j - 0) < Modulus /\ 2 * (0 - j) < Modulus
    BY <1>8, Near
  <2>2. Signed(Plus(ISN, j), Plus(ISN, 0)) = j - 0
    BY <1>7, <2>1, SignedIs
  <2>3. Plus(ISN, 0) = ISN
    BY <1>7, PlusZero
  <2> QED
    BY <2>1, <2>2, <2>3
<1> QED
  BY <1>1, <1>6, <1>9, <1>10

\* flush, acknowledge, retransmission and the window probe: what is not
\* acknowledged is kept, and whatever is sent, or sent again, holds the bytes
\* that were written at its place.
THEOREM SentStaysTrue == Spec => []SentIsTrue
<1>1. TCPInv => SentIsTrue
  BY FlightFollows, SegmentsFollow DEF SentIsTrue
<1> QED
  BY <1>1, ConnectionIsSound, PTL

LEMMA EndsFollow == ASSUME TCPInv PROVE EndsAreTrue
<1>1. /\ tcp \in Connections /\ peer \in Peers /\ written \in 0 .. MaxWritten
      /\ tcp.state \in Lives => Alive(tcp, written, received, peer)
      /\ Closed
  BY InvariantParts
<1>2. PeerClosedMeansAll
  <2>1. SUFFICES ASSUME tcp.state \in {"closeWait", "closing", "lastAck", "timeWait"}
                 PROVE  peer.fin /\ Len(received \o tcp.receiveBuffer) = peer.sent
    BY DEF PeerClosedMeansAll
  <2>2. tcp.state \in Lives /\ tcp.state \notin Hears
    BY <2>1 DEF Lives, Opens, Fins, Awaits, Rests, Hears
  <2> QED
    BY <1>1, <2>2 DEF Alive, Hearing, Got
<1>3. CleanCloseMeansDelivered
  <2>1. ASSUME tcp.state \in {"finWait2", "timeWait"} PROVE peer.end /\ Len(peer.taken) = written
    <3>1. tcp.state \in Rests /\ tcp.state \in Lives
      BY <2>1 DEF Rests, Lives, Fins
    <3> QED
      BY <1>1, <3>1, RestIsTaken
  <2> QED
    BY <1>1, <2>1 DEF CleanCloseMeansDelivered, Closed
<1> QED
  BY <1>2, <1>3 DEF EndsAreTrue

\* finish and the closing states: the end of the peer's stream is reported only
\* behind its last byte, and a connection that closes by itself has delivered
\* every byte and its own end.
THEOREM EndsStayTrue == Spec => []EndsAreTrue
<1>1. TCPInv => EndsAreTrue
  BY EndsFollow
<1> QED
  BY <1>1, ConnectionIsSound, PTL
=============================================================================
