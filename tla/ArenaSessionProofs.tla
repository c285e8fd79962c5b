------------------------- MODULE ArenaSessionProofs -------------------------
(***************************************************************************)
(* Proofs about one arena transaction, for arenas of every size, every     *)
(* batch size and every target: nothing is written before everything was   *)
(* checked, each reply is taken for the answer to its own command, and the *)
(* session implements ArenaTransaction.                                    *)
(*                                                                         *)
(* The stream between client and server carries one token for each command *)
(* the session waits for: the command on its way to the server, or what    *)
(* came of it on its way back.  The invariant lines the tokens up with the *)
(* end of the last batch, and says of each reply what it vouches for.      *)
(***************************************************************************)
EXTENDS ArenaSession, SequenceTheorems, DataLemmas

-----------------------------------------------------------------------------
(* The invariant.                                                          *)

Requests == {c \in Commands : c.op # "+"}
Returns == {p \in Packets : p.kind \in {"nack", "bad", "reply"}}
Attaches == {c \in Commands : c.op = "vAttach"}

Coming == Kept(call.rx, Returns) \o Kept(toClient, Returns)
Going == Kept(toServer, Requests) \o Kept(call.out, Requests)
Attaching == Kept(toServer, Attaches) \o Kept(call.out, Attaches)

Live == link = "open" /\ ~Terminal

\* The i-th command not answered yet.
Asked(i) == session.lastPacket[Len(session.lastPacket) - session.outstanding + i]

\* What is known once the server has given reply p to command c.
Vouched(c, p) ==
    /\ c.op = "qSupported" /\ p.text = "features" => p.value \in Chunks
    /\ c.op = "QStartNoAckMode" /\ p.text = "OK" => serverNoAck = TRUE
    /\ c.op = "qProcessInfo" /\ p.text = "process" => target.process = TRUE
    /\ c.op = "challenge" /\ p.text = "challenge" => target.challenge = TRUE
    /\ c.op = "qMemoryRegionInfo" /\ p.text = "region"
          => p.value > c.at /\ \A u \in c.at .. p.value - 1 : <<c.r, u>> \notin target.unsafe
    /\ c.op = "m" /\ p.text = "zeros"
          => \A u \in c.at .. c.at + c.n - 1 : <<c.r, u>> \notin target.dirty
    /\ c.op = "M" /\ p.text = "OK" => <<c.r, c.at>> \in touched
    /\ c.op = "D" /\ p.text = "OK" => debugger = "gone"

\* A command, or what came of it, while it is awaited.
Returned(c, p) ==
    \/ p.kind = "reply" /\ Vouched(c, p)
    \/ p.kind = "nack" /\ session.noAck = FALSE
    \/ p.kind = "bad" /\ session.noAck = FALSE /\ lastReply.kind = "reply" /\ Vouched(c, lastReply)
Requested(c, d) ==
    \/ d = c
    \/ d = Plain("-") /\ session.noAck = FALSE /\ lastReply.kind = "reply" /\ Vouched(c, lastReply)

TokensMatch ==
    Live => /\ session.outstanding \in 1 .. Len(session.lastPacket)
            /\ Len(Coming) + Len(Going) = session.outstanding
            /\ \A i \in 1 .. Len(Coming) : Returned(Asked(i), Coming[i])
            /\ \A i \in 1 .. Len(Going) : Requested(Asked(Len(Coming) + i), Going[i])
            /\ session.noAck = TRUE => serverNoAck = TRUE

\* The target may be written to.
Clean == /\ target.process = TRUE /\ target.challenge = TRUE
         /\ target.dirty = {} /\ target.unsafe = {}
Harmless == {c \in Commands : c.op = "M" => Clean /\ <<c.r, c.at>> \in Pages}
WritesAreHarmless ==
    /\ touched # {} => Clean
    /\ touched \subseteq Pages
    /\ toServer \in Seq(Harmless) /\ call.out \in Seq(Harmless)
    /\ session.lastPacket \in Seq(Harmless)

\* One attach at most is on its way, and only to a debugger that never attached.
AttachesOnce == Len(Attaching) <= 1 /\ (Attaching # <<>> => debugger = "none")

VerdictIsTrue ==
    /\ session.verdict = "prepared" => debugger = "gone" /\ touched = Pages
    /\ session.verdict = "failedDetached" => debugger = "gone"
    /\ session.verdict = "none" <=> ~Terminal

CallIsPlaced ==
    /\ call.active = FALSE => call = Quiet
    /\ call.active = TRUE => result = "none" /\ link = "open"
    /\ result # "none" => link = "cut"
    /\ link = "opening" => /\ session = Fresh /\ toServer = <<>> /\ toClient = <<>>
                           /\ debugger = "none" /\ touched = {}
    /\ session.phase = "idle" => link # "open"
    \* A call takes no more replies than the session waits for.
    /\ call.active = TRUE => \/ ~Terminal /\ call.answerable <= session.outstanding
                             \/ Terminal /\ (call.answerable = 0 \/ call.rx = <<>>)

-----------------------------------------------------------------------------
(* How far the session has come, by its phase.                             *)

\* The command of a phase that sends one.
OpOf == [supported |-> "qSupported", noAck |-> "QStartNoAckMode",
         detachPolicy |-> "QSetDetachOnError", attach |-> "vAttach",
         process |-> "qProcessInfo", challenge |-> "challenge",
         finalProcess |-> "qProcessInfo", finalChallenge |-> "challenge",
         detach |-> "D", cleanup |-> "D"]

Batches == {"preflight", "prepare", "draining"}

\* Arena r was found anonymous, readable and executable, and all zero.
Passed(r) == \A u \in 0 .. Size[r] - 1 : <<r, u>> \notin target.unsafe /\ <<r, u>> \notin target.dirty

\* The pages before position p in the order of preparation.
Before(p) == {u \in Pages : u[1] < p[1] \/ (u[1] = p[1] /\ u[2] < p[2])}
Positions == Pages \cup {<<Len(Size) + 1, 0>>}

CommandsAreOfPhase ==
    LET s == session
    IN  /\ s.phase \in DOMAIN OpOf => s.lastPacket = <<Plain(OpOf[s.phase])>>
        /\ s.phase = "region" => s.lastPacket = <<Command("qMemoryRegionInfo", s.index, s.regionCursor, 0)>>
        /\ s.phase \in {"preflight", "prepare"} =>
              /\ Len(s.replies) = s.outstanding
              /\ \A i \in 1 .. s.outstanding :
                    /\ Asked(i).op \in {"m", "M"}
                    /\ s.replies[i] = IF Asked(i).op = "M" THEN "OK" ELSE "zeros"
        /\ s.phase = "preflight" => \A i \in 1 .. s.outstanding : Asked(i).op = "m" /\ Asked(i).r = s.index
        /\ s.phase = "prepare" => Asked(s.outstanding).op = "m"
        /\ s.phase = "draining" => \A i \in 1 .. s.outstanding : Asked(i).op \in {"m", "M"}

PhaseIsEarned ==
    LET s == session
    IN  /\ s.noAck = TRUE <=> s.phase \notin {"supported", "noAck"}
        /\ s.attached = TRUE <=> s.phase \notin {"supported", "noAck", "detachPolicy", "attach"}
        /\ s.pendingFailure = TRUE <=> s.phase \in {"draining", "cleanup"}
        /\ s.phase # "supported" => s.chunk \in Chunks
        /\ s.phase \in {"supported", "noAck", "detachPolicy"} => debugger = "none"
        /\ s.phase \in {"challenge", "region", "preflight"} => target.process = TRUE
        /\ s.phase \in {"region", "preflight"} =>
              /\ target.challenge = TRUE /\ s.index \in 1 .. Len(Size)
              /\ \A r \in 1 .. s.index - 1 : Passed(r)
        /\ s.phase = "region" =>
              /\ s.regionCursor < Size[s.index]
              /\ \A u \in 0 .. s.regionCursor - 1 : <<s.index, u>> \notin target.unsafe
        /\ s.phase = "preflight" =>
              /\ \A u \in 0 .. Size[s.index] - 1 : <<s.index, u>> \notin target.unsafe
              /\ \A u \in 0 .. s.offset - 1 :
                    \/ <<s.index, u>> \notin target.dirty
                    \/ \E i \in 1 .. s.outstanding : u \in Asked(i).at .. Asked(i).at + Asked(i).n - 1
        /\ s.phase = "prepare" =>
              /\ Clean /\ <<s.index, s.offset>> \in Positions
              /\ \A p \in Before(<<s.index, s.offset>>) :
                    \/ p \in touched
                    \/ \E i \in 1 .. s.outstanding :
                          Asked(i).op = "M" /\ <<Asked(i).r, Asked(i).at>> = p
        /\ s.phase \in {"finalProcess", "finalChallenge", "detach"} => touched = Pages

ProgressIsEarned == Live => CommandsAreOfPhase /\ PhaseIsEarned

SessionInv ==
    /\ TypeOK /\ CallIsPlaced /\ TokensMatch /\ WritesAreHarmless /\ AttachesOnce
    /\ VerdictIsTrue /\ ProgressIsEarned

-----------------------------------------------------------------------------
(* What the session's updates leave alone.                                 *)

\* The fields a batch of commands does not concern.
SameData(s, t) ==
    /\ t.noAck = s.noAck /\ t.chunk = s.chunk /\ t.index = s.index /\ t.offset = s.offset
    /\ t.regionCursor = s.regionCursor /\ t.replies = s.replies
    /\ t.attached = s.attached /\ t.pendingFailure = s.pendingFailure

LEMMA SentShape ==
    ASSUME NEW s \in Sessions, NEW cs \in Seq(Commands), NEW ph \in Phases
    PROVE  LET t == Sent(s, cs, ph)
           IN  /\ t \in Sessions
               /\ t.lastPacket = cs /\ t.outstanding = Len(cs) /\ t.phase = ph
               /\ t.verdict = s.verdict /\ SameData(s, t)
<1>1. Len(cs) \in Nat /\ 0 \in 0 .. MaxRetries /\ s.noAck \in BOOLEAN
  BY LimitsAssumption DEF Sessions
<1>2. Sent(s, cs, ph) \in Sessions
  BY <1>1, Zenon DEF Sent, Sessions
<1> QED
  BY <1>2 DEF Sent, Sessions, SameData

LEMMA FinishedShape ==
    ASSUME NEW s \in Sessions, NEW ph \in Phases, NEW v \in Outcomes
    PROVE  LET t == Finished(s, ph, v)
           IN  t \in Sessions /\ t.phase = ph /\ t.verdict = v /\ t.lastPacket = <<>>
<1>1. <<>> \in Seq(Commands) /\ 0 \in Nat
  OBVIOUS
<1>2. Finished(s, ph, v) \in Sessions
  BY <1>1, Zenon DEF Finished, Sessions
<1> QED
  BY <1>2 DEF Finished, Sessions

LEMMA SettledShape ==
    ASSUME NEW s \in Sessions, s.outstanding > 1
    PROVE  LET t == [s EXCEPT !.outstanding = @ - 1]
           IN  /\ t \in Sessions
               /\ t.outstanding = s.outstanding - 1 /\ t.lastPacket = s.lastPacket /\ t.phase = s.phase
               /\ t.verdict = s.verdict /\ SameData(s, t)
<1>1. s.outstanding - 1 \in Nat
  BY DEF Sessions
<1>2. [s EXCEPT !.outstanding = s.outstanding - 1] \in Sessions
  BY <1>1, Zenon DEF Sessions
<1> QED
  BY <1>2 DEF Sessions, SameData

-----------------------------------------------------------------------------
(* What a step of receive does to the streams.                             *)

Calls == [active : BOOLEAN, rx : Seq(Packets), answerable : Nat, out : Seq(Commands)]

LEMMA TypeFacts ==
    ASSUME TypeOK
    PROVE  /\ session \in Sessions /\ call \in Calls
           /\ call.rx \in Seq(Packets) /\ call.out \in Seq(Commands) /\ call.answerable \in Nat
           /\ toServer \in Seq(Commands) /\ toClient \in Seq(Packets)
           /\ session.outstanding \in Nat /\ session.lastPacket \in Seq(Commands)
           /\ session.noAck \in BOOLEAN /\ session.phase \in Phases
<1>1. session \in Sessions /\ call \in Calls /\ toServer \in Seq(Commands) /\ toClient \in Seq(Packets)
  BY DEF TypeOK, Calls
<1> QED
  BY <1>1 DEF Calls, Sessions

LEMMA StreamFacts ==
    ASSUME TypeOK
    PROVE  /\ Coming \in Seq(Packets) /\ Going \in Seq(Commands) /\ Attaching \in Seq(Commands)
           /\ Cat(Coming, Kept(call.rx, Returns), Kept(toClient, Returns))
           /\ Cat(Going, Kept(toServer, Requests), Kept(call.out, Requests))
           /\ Cat(Attaching, Kept(toServer, Attaches), Kept(call.out, Attaches))
<1>1. /\ Cat(Coming, Kept(call.rx, Returns), Kept(toClient, Returns))
      /\ Cat(Going, Kept(toServer, Requests), Kept(call.out, Requests))
      /\ Cat(Attaching, Kept(toServer, Attaches), Kept(call.out, Attaches))
  BY DEF Cat, Coming, Going, Attaching
<1>2. /\ call.rx \in Seq(Packets) /\ toClient \in Seq(Packets)
      /\ toServer \in Seq(Commands) /\ call.out \in Seq(Commands)
  BY TypeFacts
<1>3. Coming \in Seq(Packets)
  BY <1>1, <1>2, StreamType
<1>4. Going \in Seq(Commands)
  BY <1>1, <1>2, StreamType
<1>5. Attaching \in Seq(Commands)
  BY <1>1, <1>2, StreamType
<1> QED
  BY <1>1, <1>3, <1>4, <1>5

\* The primed streams are made of the primed sequences.
LEMMA StreamsAfter ==
    /\ Cat(Coming', Kept(call'.rx, Returns), Kept(toClient', Returns))
    /\ Cat(Going', Kept(toServer', Requests), Kept(call'.out, Requests))
    /\ Cat(Attaching', Kept(toServer', Attaches), Kept(call'.out, Attaches))
BY DEF Cat, Coming, Going, Attaching

LEMMA ProceedCall ==
    ASSUME TypeOK, call.rx # <<>>, NEW s, NEW cs \in Seq(Commands), Proceed(s, cs)
    PROVE  /\ session' = s /\ call' \in Calls
           /\ call'.active = call.active /\ call'.rx = Tail(call.rx) /\ call'.out = call.out \o cs
           /\ call'.answerable = IF Head(call.rx).kind = "reply" THEN call.answerable - 1 ELSE call.answerable
           /\ call.answerable # 0 /\ Head(call.rx) \in Packets /\ ~Unexpected(Head(call.rx))
<1>1. /\ call \in Calls /\ call.rx \in Seq(Packets) /\ call.out \in Seq(Commands) /\ call.answerable \in Nat
  BY TypeFacts
<1>2. call.answerable # 0 /\ ~Unexpected(Head(call.rx)) /\ session' = s
  BY DEF Proceed, Unexpected
<1> DEFINE k == call.answerable - (IF Head(call.rx).kind = "reply" THEN 1 ELSE 0)
<1>3. k \in Nat /\ k = IF Head(call.rx).kind = "reply" THEN call.answerable - 1 ELSE call.answerable
  BY <1>1, <1>2
<1>4. Tail(call.rx) \in Seq(Packets) /\ call.out \o cs \in Seq(Commands) /\ Head(call.rx) \in Packets
  BY <1>1
<1>5. call' = [call EXCEPT !.rx = Tail(call.rx), !.out = call.out \o cs, !.answerable = k]
  BY DEF Proceed
<1> HIDE DEF k
<1> QED
  BY <1>1, <1>2, <1>3, <1>4, <1>5 DEF Calls

LEMMA ProceedStreams ==
    ASSUME TypeOK, call.rx # <<>>, UNCHANGED <<toServer, toClient>>,
           NEW s, NEW cs \in Seq(Commands), Proceed(s, cs)
    PROVE  /\ Taken(Coming, Head(call.rx), Coming', Returns)
           /\ Cat(Going', Going, Kept(cs, Requests))
           /\ Cat(Attaching', Attaching, Kept(cs, Attaches))
<1>1. /\ call.rx \in Seq(Packets) /\ call.out \in Seq(Commands)
      /\ toServer \in Seq(Commands) /\ toClient \in Seq(Packets)
  BY TypeFacts
<1>2. call'.rx = Tail(call.rx) /\ call'.out = call.out \o cs
  BY ProceedCall
<1>3. /\ Cat(Coming, Kept(call.rx, Returns), Kept(toClient, Returns))
      /\ Cat(Going, Kept(toServer, Requests), Kept(call.out, Requests))
      /\ Cat(Attaching, Kept(toServer, Attaches), Kept(call.out, Attaches))
  BY StreamFacts
<1>4. /\ Cat(Coming', Kept(Tail(call.rx), Returns), Kept(toClient, Returns))
      /\ Cat(Going', Kept(toServer, Requests), Kept(call.out \o cs, Requests))
      /\ Cat(Attaching', Kept(toServer, Attaches), Kept(call.out \o cs, Attaches))
  BY <1>2, StreamsAfter
<1>5. Taken(Coming, Head(call.rx), Coming', Returns)
  BY <1>1, <1>3, <1>4, StreamTakes
<1>6. Cat(Going', Going, Kept(cs, Requests))
  BY <1>1, <1>3, <1>4, StreamGrows
<1>7. Cat(Attaching', Attaching, Kept(cs, Attaches))
  BY <1>1, <1>3, <1>4, StreamGrows
<1> QED
  BY <1>5, <1>6, <1>7

\* A command that writes nothing.
LEMMA ReadsAreHarmless ==
    ASSUME NEW c \in Commands, c.op # "M"
    PROVE  c \in Harmless
BY DEF Harmless

LEMMA PlainCommands ==
    ASSUME NEW op \in {"qSupported", "QStartNoAckMode", "QSetDetachOnError", "vAttach",
                       "qProcessInfo", "challenge", "D", "+", "-"}
    PROVE  /\ Plain(op) \in Commands /\ Plain(op).op = op /\ Plain(op) \in Harmless
           /\ op # "+" => Plain(op) \in Requests
           /\ op = "+" => Plain(op) \notin Requests
           /\ op # "vAttach" => Plain(op) \notin Attaches
<1>1. Plain(op) \in Commands /\ Plain(op).op = op
  <2>1. Len(Size) \in Nat
    BY SizesAssumption
  <2> QED
    BY <2>1 DEF Plain, Command, Commands
<1> QED
  BY <1>1 DEF Requests, Attaches, Harmless

\* Acknowledgements are no requests.
LEMMA AcksAreNoise ==
    /\ Acknowledgement \in Seq(Commands) /\ Acknowledgement \in Seq(Harmless)
    /\ Kept(Acknowledgement, Requests) = <<>> /\ Kept(Acknowledgement, Attaches) = <<>>
<1>1. CASE Acknowledgement = <<>>
  BY <1>1, KeptEmpty
<1>2. CASE Acknowledgement = <<Plain("+")>>
  <2>1. Plain("+") \in Commands /\ Plain("+") \notin Requests /\ Plain("+") \notin Attaches /\ Plain("+") \in Harmless
    BY PlainCommands
  <2>2. Kept(<<Plain("+")>>, Requests) = <<>> /\ Kept(<<Plain("+")>>, Attaches) = <<>>
    BY <2>1, KeptOne
  <2> QED
    BY <1>2, <2>1, <2>2
<1> QED
  BY <1>1, <1>2 DEF Acknowledgement

-----------------------------------------------------------------------------
(* Replies.                                                                *)

\* A call under way that still may take a packet is of a session at work.
LEMMA CallsAreLive ==
    ASSUME SessionInv, call.active, call.answerable # 0, call.rx # <<>>
    PROVE  Live /\ call.answerable <= session.outstanding /\ session.verdict = "none" /\ result = "none"
<1>1. call.active = TRUE
  <2>1. call.active \in BOOLEAN
    BY TypeFacts DEF SessionInv, Calls
  <2> QED
    BY <2>1
<1> QED
  BY <1>1 DEF SessionInv, CallIsPlaced, Live, VerdictIsTrue

\* A reply the session takes answers the first command it waits for.
LEMMA ReplyComes ==
    ASSUME SessionInv, InLoop("reply"), ~Unexpected(Head(call.rx)),
           Taken(Coming, Head(call.rx), Coming', Returns)
    PROVE  /\ Live /\ session.verdict = "none" /\ call.answerable <= session.outstanding
           /\ session.outstanding \in 1 .. Len(session.lastPacket)
           /\ Follows(Coming, Head(call.rx), Coming')
           /\ Vouched(Asked(1), Head(call.rx)) /\ call.active = TRUE /\ result = "none"
<1>1. call.active /\ call.rx # <<>> /\ Head(call.rx).kind = "reply" /\ call.answerable # 0
  BY DEF InLoop, Unexpected
<1>2. Live /\ session.verdict = "none" /\ call.answerable <= session.outstanding /\ result = "none"
  BY <1>1, CallsAreLive
<1>3. TypeOK /\ TokensMatch
  BY DEF SessionInv
<1>4. Head(call.rx) \in Returns
  <2>1. call.rx \in Seq(Packets)
    BY <1>3, TypeFacts
  <2>2. Head(call.rx) \in Packets
    BY <1>1, <2>1
  <2> QED
    BY <1>1, <2>2 DEF Returns
<1>5. Follows(Coming, Head(call.rx), Coming')
  BY <1>4 DEF Taken
<1>6. Coming \in Seq(Packets) /\ Len(Coming) \in Nat
  <2>1. Coming \in Seq(Packets)
    BY <1>3, StreamFacts
  <2> QED
    BY <2>1
<1>7. Coming[1] = Head(call.rx) /\ Len(Coming) = Len(Coming') + 1
  BY <1>5 DEF Follows
<1>8. Len(Coming) # 0
  BY <1>5 DEF Follows
<1>9. Returned(Asked(1), Coming[1])
  BY <1>2, <1>3, <1>6, <1>8 DEF TokensMatch
<1>10. session.outstanding \in 1 .. Len(session.lastPacket)
  BY <1>2, <1>3 DEF TokensMatch
<1>11. call.active = TRUE
  BY <1>1, <1>3, TypeFacts DEF Calls
<1> QED
  BY <1>1, <1>2, <1>5, <1>7, <1>9, <1>10, <1>11 DEF Returned

\* Without a request there is no attach.
LEMMA NothingAttaches ==
    ASSUME TypeOK, Len(Going) = 0
    PROVE  Going = <<>> /\ Attaching = <<>>
<1>1. toServer \in Seq(Commands) /\ call.out \in Seq(Commands)
  BY TypeFacts
<1>2. Kept(toServer, Requests) \in Seq(Commands) /\ Kept(call.out, Requests) \in Seq(Commands)
  BY <1>1, KeptType
<1>3. Cat(Going, Kept(toServer, Requests), Kept(call.out, Requests))
  BY StreamFacts
<1>4. Kept(toServer, Requests) = <<>> /\ Kept(call.out, Requests) = <<>> /\ Going = <<>>
  BY <1>2, <1>3, CatEmpty
<1>5. Attaches \subseteq Requests
  BY DEF Attaches, Requests
<1>6. Kept(toServer, Attaches) = <<>>
  BY <1>1, <1>4, <1>5, NoneKept
<1>7. Kept(call.out, Attaches) = <<>>
  BY <1>1, <1>4, <1>5, NoneKept
<1> QED
  BY <1>4, <1>6, <1>7 DEF Attaching

\* What the invariant says besides the session's progress.
CoreInv ==
    /\ TypeOK /\ CallIsPlaced /\ TokensMatch /\ WritesAreHarmless /\ AttachesOnce /\ VerdictIsTrue

Working == Phases \ {"idle", "complete", "failed"}

\* Commands the session may send now.
Sendable(cmds) ==
    /\ cmds \in Seq(Commands) /\ cmds \in Seq(Harmless) /\ Len(cmds) # 0
    /\ \A i \in 1 .. Len(cmds) : cmds[i] \in Requests
    /\ \/ \A i \in 1 .. Len(cmds) : cmds[i] \notin Attaches
       \/ Len(cmds) = 1 /\ debugger = "none"

LEMMA SendableIsKept ==
    ASSUME NEW cmds, Sendable(cmds)
    PROVE  LET cs == Acknowledgement \o cmds
           IN  /\ cs \in Seq(Commands) /\ Kept(cs, Requests) = cmds
               /\ cs \in Seq(Harmless)
               /\ Kept(cs, Attaches) = Kept(cmds, Attaches) /\ Len(Kept(cmds, Attaches)) <= 1
               /\ Kept(cmds, Attaches) # <<>> => debugger = "none"
<1> DEFINE cs == Acknowledgement \o cmds
<1>1. /\ Acknowledgement \in Seq(Commands) /\ cmds \in Seq(Commands)
      /\ Kept(Acknowledgement, Requests) = <<>> /\ Kept(Acknowledgement, Attaches) = <<>>
  BY AcksAreNoise DEF Sendable
<1>2. Kept(cmds, Requests) = cmds
  BY <1>1, KeptAll DEF Sendable
<1>3. /\ Kept(cs, Requests) = Kept(Acknowledgement, Requests) \o Kept(cmds, Requests)
      /\ Kept(cs, Attaches) = Kept(Acknowledgement, Attaches) \o Kept(cmds, Attaches)
  <2>1. Acknowledgement \in Seq(Commands) /\ cmds \in Seq(Commands)
    BY <1>1
  <2>2. \A S : Kept(Acknowledgement \o cmds, S) = Kept(Acknowledgement, S) \o Kept(cmds, S)
    BY <2>1, KeptConcat
  <2> QED
    BY <2>2
<1>4. Kept(cmds, Attaches) \in Seq(Commands)
  BY <1>1, KeptType
<1>5. Kept(cs, Requests) = cmds /\ Kept(cs, Attaches) = Kept(cmds, Attaches)
  BY <1>1, <1>2, <1>3, <1>4
<1>6. cs \in Seq(Commands)
  BY <1>1
<1>7. cs \in Seq(Harmless)
  <2>1. Acknowledgement \in Seq(Harmless) /\ cmds \in Seq(Harmless)
    BY AcksAreNoise DEF Sendable
  <2> QED
    BY <2>1
<1>8. Len(Kept(cmds, Attaches)) <= 1 /\ (Kept(cmds, Attaches) # <<>> => debugger = "none")
  <2>1. CASE \A i \in 1 .. Len(cmds) : cmds[i] \notin Attaches
    <3>1. Kept(cmds, Attaches) = <<>>
      BY <1>1, <2>1, KeptNone
    <3> QED
      BY <3>1
  <2>2. CASE Len(cmds) = 1 /\ debugger = "none"
    <3>1. cmds = <<cmds[1]>>
      BY <1>1, <2>2
    <3>2. Kept(<<cmds[1]>>, Attaches) = IF cmds[1] \in Attaches THEN <<cmds[1]>> ELSE <<>>
      BY KeptOne
    <3>3. Kept(cmds, Attaches) = <<cmds[1]>> \/ Kept(cmds, Attaches) = <<>>
      BY <3>1, <3>2
    <3>4. Len(<<cmds[1]>>) = 1 /\ Len(<<>>) = 0
      OBVIOUS
    <3>5. Len(Kept(cmds, Attaches)) = 1 \/ Len(Kept(cmds, Attaches)) = 0
      BY <3>3, <3>4, Zenon
    <3>6. \A n : n = 1 \/ n = 0 => n <= 1
      OBVIOUS
    <3> QED
      BY <2>2, <3>5, <3>6, Zenon
  <2> QED
    BY <2>1, <2>2 DEF Sendable
<1> QED
  BY <1>5, <1>6, <1>7, <1>8

\* A new batch is sent once the old one is answered.
LEMMA BatchStarts ==
    ASSUME SessionInv, InLoop("reply"), session.outstanding = 1,
           NEW s \in Sessions, s.verdict = session.verdict, s.noAck = TRUE => serverNoAck = TRUE,
           NEW cmds, Sendable(cmds), NEW ph \in Working, Continue(s, cmds, ph)
    PROVE  CoreInv' /\ session' = Sent(s, cmds, ph)
<1> DEFINE cs == Acknowledgement \o cmds
           t == Sent(s, cmds, ph)
<1>1. TypeOK /\ TokensMatch /\ WritesAreHarmless /\ AttachesOnce /\ CallIsPlaced
  BY DEF SessionInv
<1>2. /\ call.active /\ call.rx # <<>> /\ Head(call.rx).kind = "reply"
      /\ UNCHANGED <<result, link, toServer, toClient, target, debugger, touched, serverNoAck, lastReply, consoleSent>>
  BY DEF InLoop, linkVars, serverVars
<1>3. /\ cs \in Seq(Commands) /\ Kept(cs, Requests) = cmds
      /\ cs \in Seq(Harmless)
      /\ Kept(cs, Attaches) = Kept(cmds, Attaches) /\ Len(Kept(cmds, Attaches)) <= 1
      /\ Kept(cmds, Attaches) # <<>> => debugger = "none"
  BY SendableIsKept
<1>4. cmds \in Seq(Commands) /\ cmds \in Seq(Harmless) /\ Len(cmds) # 0 /\ Len(cmds) \in Nat
  BY DEF Sendable
<1>5. Proceed(t, cs)
  BY DEF Continue
<1>6. /\ t \in Sessions /\ t.lastPacket = cmds /\ t.outstanding = Len(cmds) /\ t.phase = ph
      /\ t.verdict = s.verdict /\ SameData(s, t)
  BY <1>4, SentShape DEF Working
<1> HIDE DEF cs, t
<1>7. /\ session' = t /\ call' \in Calls
      /\ call'.active = call.active /\ call'.rx = Tail(call.rx) /\ call'.out = call.out \o cs
      /\ call'.answerable = call.answerable - 1
      /\ call.answerable # 0 /\ ~Unexpected(Head(call.rx))
  BY <1>1, <1>2, <1>3, <1>5, ProceedCall
<1>8. /\ Taken(Coming, Head(call.rx), Coming', Returns)
      /\ Cat(Going', Going, cmds) /\ Cat(Attaching', Attaching, Kept(cmds, Attaches))
  <2>1. /\ Taken(Coming, Head(call.rx), Coming', Returns)
        /\ Cat(Going', Going, Kept(cs, Requests)) /\ Cat(Attaching', Attaching, Kept(cs, Attaches))
    BY <1>1, <1>2, <1>3, <1>5, ProceedStreams
  <2> QED
    BY <1>3, <2>1
<1>9. /\ Live /\ session.verdict = "none" /\ call.answerable <= session.outstanding
      /\ Follows(Coming, Head(call.rx), Coming') /\ call.active = TRUE /\ result = "none"
  BY <1>7, <1>8, ReplyComes
<1>10. Len(Coming') = 0 /\ Len(Going) = 0
  <2>1. Len(Coming) + Len(Going) = 1
    BY <1>1, <1>9 DEF TokensMatch
  <2>2. Len(Coming') \in Nat /\ Len(Coming) = Len(Coming') + 1
    BY <1>9 DEF Follows
  <2>3. Len(Going) \in Nat
    <3>1. Going \in Seq(Commands)
      BY <1>1, StreamFacts
    <3> QED
      BY <3>1
  <2> QED
    BY <2>1, <2>2, <2>3
<1>11. Going' = cmds /\ Attaching' = Kept(cmds, Attaches)
  <2>1. Going = <<>> /\ Attaching = <<>>
    BY <1>1, <1>10, NothingAttaches
  <2>2. Kept(cmds, Attaches) \in Seq(Commands)
    BY <1>4, KeptType
  <2>3. Going' = cmds
    BY <1>4, <1>8, <2>1, CatFirst
  <2>4. Attaching' = Kept(cmds, Attaches)
    BY <1>8, <2>1, <2>2, CatFirst
  <2> QED
    BY <2>3, <2>4
<1>12. TypeOK'
  <2>1. session' \in Sessions /\ call' \in Calls
    BY <1>6, <1>7
  <2> QED
    BY <1>1, <1>2, <2>1 DEF TypeOK, Calls
<1>13. link = "open" /\ ph \in Working
  BY <1>9 DEF Live
<1>14. CallIsPlaced'
  <2>1. call'.answerable = 0
    <3>1. call.answerable \in Nat
      BY <1>1, TypeFacts
    <3> QED
      BY <1>7, <1>9, <3>1
  <2>2. session'.phase = ph /\ session'.outstanding = Len(cmds) /\ call'.active = TRUE
    BY <1>6, <1>7, <1>9
  <2> QED
    BY <1>2, <1>4, <1>9, <1>13, <2>1, <2>2 DEF CallIsPlaced, Terminal, Working
<1>15. TokensMatch'
  <2>1. session'.outstanding = Len(cmds) /\ session'.lastPacket = cmds
    BY <1>6, <1>7
  <2>2. session'.noAck = TRUE => serverNoAck' = TRUE
    BY <1>2, <1>6, <1>7 DEF SameData
  <2>3. ASSUME NEW i \in 1 .. Len(Going') PROVE Requested(Asked(Len(Coming) + i), Going[i])'
    <3>1. Asked(Len(Coming) + i)' = cmds[i]
      <4>1. Len(cmds) - Len(cmds) + (0 + i) = i
        BY <1>4, <1>11, <2>3
      <4> QED
        BY <1>10, <2>1, <4>1 DEF Asked
    <3>2. Going[i]' = cmds[i]
      BY <1>11
    <3> QED
      BY <3>1, <3>2 DEF Requested
  <2>4. \A i \in 1 .. Len(Coming') : Returned(Asked(i), Coming[i])'
    BY <1>10
  <2>5. session'.outstanding \in 1 .. Len(session'.lastPacket)
    BY <1>4, <2>1
  <2>6. Len(Coming') + Len(Going') = session'.outstanding
    BY <1>4, <1>10, <1>11, <2>1
  <2> QED
    BY <2>2, <2>3, <2>4, <2>5, <2>6 DEF TokensMatch
<1>16. WritesAreHarmless'
  <2>1. Harmless' = Harmless /\ (Clean' <=> Clean)
    BY <1>2 DEF Harmless, Clean
  <2>2. call'.out \in Seq(Harmless)
    <3>1. call.out \in Seq(Harmless)
      BY <1>1 DEF WritesAreHarmless
    <3> QED
      BY <1>3, <1>7, <3>1
  <2>3. session'.lastPacket = cmds
    BY <1>6, <1>7
  <2> QED
    BY <1>1, <1>2, <1>4, <2>1, <2>2, <2>3 DEF WritesAreHarmless
<1>17. AttachesOnce'
  BY <1>2, <1>3, <1>11 DEF AttachesOnce
<1>18. VerdictIsTrue'
  <2>1. session'.verdict = "none" /\ session'.phase = ph
    BY <1>6, <1>7, <1>9
  <2> QED
    BY <1>13, <2>1 DEF VerdictIsTrue, Terminal, Working
<1> QED
  BY <1>7, <1>12, <1>14, <1>15, <1>16, <1>17, <1>18 DEF CoreInv, t

\* A step of the loop that sends no attach and leaves the session at work.
LEMMA LoopKeeps ==
    ASSUME SessionInv, NEW k, InLoop(k), NEW s \in Sessions, NEW cs \in Seq(Commands),
           cs \in Seq(Harmless), Kept(cs, Attaches) = <<>>, Proceed(s, cs),
           s.verdict = "none", s.phase \in Working, s.lastPacket \in Seq(Harmless),
           call'.answerable <= s.outstanding
    PROVE  /\ TypeOK' /\ CallIsPlaced' /\ WritesAreHarmless' /\ AttachesOnce' /\ VerdictIsTrue'
           /\ session' = s /\ Live /\ Live' /\ session.verdict = "none"
           /\ Taken(Coming, Head(call.rx), Coming', Returns) /\ Cat(Going', Going, Kept(cs, Requests))
<1>1. TypeOK /\ WritesAreHarmless /\ AttachesOnce /\ CallIsPlaced
  BY DEF SessionInv
<1>2. /\ call.active /\ call.rx # <<>>
      /\ UNCHANGED <<result, link, toServer, toClient, target, debugger, touched, serverNoAck, lastReply, consoleSent>>
  BY DEF InLoop, linkVars, serverVars
<1>3. /\ session' = s /\ call' \in Calls
      /\ call'.active = call.active /\ call'.rx = Tail(call.rx) /\ call'.out = call.out \o cs
      /\ call.answerable # 0
  BY <1>1, <1>2, ProceedCall
<1>4. /\ Taken(Coming, Head(call.rx), Coming', Returns)
      /\ Cat(Going', Going, Kept(cs, Requests)) /\ Cat(Attaching', Attaching, <<>>)
  BY <1>1, <1>2, ProceedStreams
<1>5. Attaching' = Attaching
  <2>1. Attaching \in Seq(Commands)
    BY <1>1, StreamFacts
  <2> QED
    BY <1>4, <2>1, CatNone
<1>6. Live /\ session.verdict = "none" /\ result = "none"
  BY <1>2, <1>3, CallsAreLive
<1>7. link = "open" /\ call.active = TRUE
  <2>1. call.active \in BOOLEAN
    BY <1>1, TypeFacts DEF Calls
  <2> QED
    BY <1>2, <1>6, <2>1 DEF Live
<1>8. TypeOK'
  BY <1>1, <1>2, <1>3 DEF TypeOK, Calls
<1>9. ~Terminal' /\ Live'
  BY <1>2, <1>3, <1>7 DEF Live, Terminal, Working
<1>10. CallIsPlaced'
  <2>1. session'.phase # "idle" /\ call'.active = TRUE
    BY <1>3, <1>7 DEF Working
  <2>2. call'.answerable <= session'.outstanding
    BY <1>3
  <2> QED
    BY <1>2, <1>6, <1>7, <1>9, <2>1, <2>2 DEF CallIsPlaced
<1>11. WritesAreHarmless'
  <2>1. Harmless' = Harmless /\ (Clean' <=> Clean)
    BY <1>2 DEF Harmless, Clean
  <2>2. call'.out \in Seq(Harmless)
    <3>1. call.out \in Seq(Harmless)
      BY <1>1 DEF WritesAreHarmless
    <3> QED
      BY <1>3, <3>1
  <2>3. session'.lastPacket \in Seq(Harmless)
    BY <1>3
  <2> QED
    BY <1>1, <1>2, <2>1, <2>2, <2>3 DEF WritesAreHarmless
<1>12. AttachesOnce'
  BY <1>1, <1>2, <1>5 DEF AttachesOnce
<1>13. VerdictIsTrue'
  <2>1. session'.verdict = "none"
    BY <1>3
  <2> QED
    BY <1>9, <2>1 DEF VerdictIsTrue
<1> QED
  BY <1>3, <1>4, <1>6, <1>8, <1>9, <1>10, <1>11, <1>12, <1>13

\* The same tokens are awaited.
LEMMA TokensStay ==
    ASSUME TokensMatch, Live, Coming' = Coming, Going' = Going,
           session'.outstanding = session.outstanding, session'.lastPacket = session.lastPacket,
           session'.noAck = session.noAck,
           UNCHANGED serverVars \/ UNCHANGED <<target, debugger, touched, serverNoAck, lastReply>>
    PROVE  TokensMatch'
<1>1. UNCHANGED <<target, debugger, touched, serverNoAck, lastReply>>
  BY DEF serverVars
<1>2. \A i : Asked(i)' = Asked(i)
  BY DEF Asked
<1>3. \A c, p : Vouched(c, p)' <=> Vouched(c, p)
  BY <1>1 DEF Vouched
<1>4. \A c, p : (Returned(c, p)' <=> Returned(c, p)) /\ (Requested(c, p)' <=> Requested(c, p))
  BY <1>1, <1>3 DEF Returned, Requested
<1> QED
  BY <1>1, <1>2, <1>4 DEF TokensMatch

\* A reply was dealt with, more are awaited.
LEMMA BatchGoesOn ==
    ASSUME SessionInv, InLoop("reply"), session.outstanding > 1,
           NEW s \in Sessions, s.verdict = session.verdict, s.noAck = session.noAck, s.phase \in Working,
           s.lastPacket = session.lastPacket, s.outstanding = session.outstanding, Settle(s)
    PROVE  /\ CoreInv' /\ session' = [s EXCEPT !.outstanding = session.outstanding - 1]
           /\ \A i \in 1 .. session.outstanding - 1 : Asked(i)' = Asked(i + 1)
<1> DEFINE t == [s EXCEPT !.outstanding = @ - 1]
<1>1. TypeOK /\ TokensMatch /\ WritesAreHarmless
  BY DEF SessionInv
<1>2. /\ call.active /\ call.rx # <<>> /\ Head(call.rx).kind = "reply" /\ UNCHANGED <<serverVars, toServer, toClient>>
  BY DEF InLoop, linkVars
<1>3. Proceed(t, Acknowledgement)
  BY DEF Settle
<1>4. /\ t \in Sessions /\ t.outstanding = session.outstanding - 1 /\ t.lastPacket = session.lastPacket
      /\ t.phase = s.phase /\ t.verdict = s.verdict /\ t.noAck = session.noAck
  BY SettledShape DEF SameData
<1>t. t = [s EXCEPT !.outstanding = session.outstanding - 1]
  OBVIOUS
<1> HIDE DEF t
<1>5. /\ Acknowledgement \in Seq(Commands) /\ Acknowledgement \in Seq(Harmless)
      /\ Kept(Acknowledgement, Requests) = <<>> /\ Kept(Acknowledgement, Attaches) = <<>>
  BY AcksAreNoise
<1>6. /\ session' = t /\ call'.answerable = call.answerable - 1 /\ ~Unexpected(Head(call.rx))
  BY <1>1, <1>2, <1>3, <1>5, ProceedCall
<1>7. Taken(Coming, Head(call.rx), Coming', Returns)
  <2>1. UNCHANGED <<toServer, toClient>>
    BY <1>2
  <2> QED
    BY <1>1, <1>2, <1>3, <1>5, <2>1, ProceedStreams
<1>8. /\ Live /\ session.verdict = "none" /\ call.answerable <= session.outstanding
      /\ Follows(Coming, Head(call.rx), Coming')
  BY <1>6, <1>7, ReplyComes
<1>9. call'.answerable <= t.outstanding
  <2>1. call.answerable \in Nat /\ session.outstanding \in Nat
    BY <1>1, TypeFacts
  <2> QED
    BY <1>4, <1>6, <1>8, <2>1
<1>10. t.verdict = "none" /\ t.phase \in Working /\ t.lastPacket \in Seq(Harmless)
  BY <1>1, <1>4, <1>8 DEF WritesAreHarmless
<1>11. /\ TypeOK' /\ CallIsPlaced' /\ WritesAreHarmless' /\ AttachesOnce' /\ VerdictIsTrue'
       /\ Cat(Going', Going, <<>>)
  BY <1>3, <1>4, <1>5, <1>9, <1>10, LoopKeeps
<1>12. Going' = Going /\ Len(Going) \in Nat
  <2>1. Going \in Seq(Commands)
    BY <1>1, StreamFacts
  <2>2. Len(Going) \in Nat
    BY <2>1
  <2> QED
    BY <1>11, <2>1, <2>2, CatNone
<1> DEFINE n == session.outstanding
           l == Len(session.lastPacket)
<1>13. l \in Nat /\ n \in Nat
  BY <1>1, TypeFacts
<1>14. ASSUME NEW i \in 1 .. n PROVE Asked(i)' = Asked(i + 1)
  <2>2. session'.lastPacket = session.lastPacket /\ session'.outstanding = n - 1
    BY <1>4, <1>6
  <2>3. Asked(i)' = session.lastPacket[l - (n - 1) + i]
    BY <2>2 DEF Asked
  <2>4. Asked(i + 1) = session.lastPacket[l - n + (i + 1)]
    BY DEF Asked
  <2>5. i \in Int
    BY <1>13, <1>14
  <2> HIDE DEF n, l
  <2>1. l - (n - 1) + i = l - n + (i + 1)
    BY <1>13, <2>5
  <2> QED
    BY <2>1, <2>3, <2>4
<1>15. TokensMatch'
  <2>1. UNCHANGED <<target, debugger, touched, serverNoAck, lastReply, consoleSent>>
    BY <1>2 DEF serverVars
  <2>9. session'.noAck = session.noAck
    BY <1>4, <1>6
  <2>4. /\ n \in 1 .. l /\ Len(Coming) + Len(Going) = n
        /\ \A i \in 1 .. Len(Coming) : Returned(Asked(i), Coming[i])
        /\ \A i \in 1 .. Len(Going) : Requested(Asked(Len(Coming) + i), Going[i])
        /\ session.noAck = TRUE => serverNoAck = TRUE
    BY <1>1, <1>8 DEF TokensMatch
  <2>5. Len(Coming') \in Nat /\ Len(Coming) = Len(Coming') + 1 /\ \A i \in 1 .. Len(Coming') : Coming'[i] = Coming[i + 1]
    BY <1>8 DEF Follows
  <2>6. ASSUME NEW i \in 1 .. Len(Coming') PROVE Returned(Asked(i), Coming[i])'
    <3>1. i + 1 \in 1 .. Len(Coming) /\ i \in 1 .. n
      BY <1>12, <1>13, <2>4, <2>5
    <3>2. Returned(Asked(i + 1), Coming[i + 1])
      BY <2>4, <3>1
    <3>3. Asked(i)' = Asked(i + 1) /\ Coming'[i] = Coming[i + 1]
      BY <1>14, <2>5, <3>1
    <3> QED
      BY <2>1, <2>9, <3>2, <3>3 DEF Returned, Vouched
  <2>7. ASSUME NEW i \in 1 .. Len(Going') PROVE Requested(Asked(Len(Coming) + i), Going[i])'
    <3>1. Len(Coming') + i \in 1 .. n /\ (Len(Coming') + i) + 1 = Len(Coming) + i /\ i \in 1 .. Len(Going)
      BY <1>12, <1>13, <2>4, <2>5
    <3>2. Requested(Asked(Len(Coming) + i), Going[i])
      BY <2>4, <3>1
    <3>3. Asked(Len(Coming) + i)' = Asked((Len(Coming') + i) + 1)
      BY <1>14, <3>1
    <3>4. Asked(Len(Coming) + i)' = Asked(Len(Coming) + i) /\ Going'[i] = Going[i]
      BY <1>12, <3>1, <3>3
    <3> QED
      BY <2>1, <2>9, <3>2, <3>4 DEF Requested, Vouched
  <2>8. session'.outstanding \in 1 .. Len(session'.lastPacket) /\ Len(Coming') + Len(Going') = session'.outstanding
    BY <1>4, <1>6, <1>12, <1>13, <2>4, <2>5
  <2> QED
    BY <2>1, <2>4, <2>6, <2>7, <2>8, <2>9 DEF TokensMatch
<1>16. CoreInv'
  BY <1>11, <1>15 DEF CoreInv
<1>17. session' = [s EXCEPT !.outstanding = session.outstanding - 1]
  BY <1>6, <1>t
<1>18. \A i \in 1 .. session.outstanding - 1 : Asked(i)' = Asked(i + 1)
  BY <1>13, <1>14
<1> QED
  BY <1>16, <1>17, <1>18

\* A session that ends keeps the invariant: only its verdict is claimed.
LEMMA SessionEnds ==
    ASSUME SessionInv, UNCHANGED <<result, linkVars, serverVars>>, call.active = TRUE,
           session' \in Sessions, session'.phase \in {"complete", "failed"}, session'.verdict # "none",
           session'.verdict = "prepared" => debugger = "gone" /\ touched = Pages,
           session'.verdict = "failedDetached" => debugger = "gone",
           session'.lastPacket = <<>>,
           call' \in Calls, call'.active = TRUE, call'.answerable = 0 \/ call'.rx = <<>>,
           call'.out = <<>> \/ call'.out = call.out \o Acknowledgement
    PROVE  SessionInv'
<1>1. TypeOK /\ WritesAreHarmless /\ AttachesOnce /\ CallIsPlaced
  BY DEF SessionInv
<1>2. UNCHANGED <<result, link, toServer, toClient, target, debugger, touched, serverNoAck, lastReply, consoleSent>>
  BY DEF linkVars, serverVars
<1>3. result = "none" /\ link = "open"
  BY <1>1 DEF CallIsPlaced
<1>4. Terminal' /\ ~Live'
  BY DEF Terminal, Live
<1>5. TypeOK'
  BY <1>1, <1>2 DEF TypeOK, Calls
<1>6. CallIsPlaced'
  BY <1>2, <1>3, <1>4 DEF CallIsPlaced, Terminal
<1>7. TokensMatch' /\ ProgressIsEarned'
  BY <1>4 DEF TokensMatch, ProgressIsEarned
<1>8. VerdictIsTrue'
  BY <1>2, <1>4 DEF VerdictIsTrue
<1>9. WritesAreHarmless'
  <2>1. Harmless' = Harmless /\ (Clean' <=> Clean)
    BY <1>2 DEF Harmless, Clean
  <2>2. call'.out \in Seq(Harmless)
    <3>1. call.out \in Seq(Harmless) /\ Acknowledgement \in Seq(Harmless) /\ <<>> \in Seq(Harmless)
      BY <1>1, AcksAreNoise DEF WritesAreHarmless
    <3>2. call.out \o Acknowledgement \in Seq(Harmless)
      BY <3>1
    <3> QED
      BY <3>1, <3>2
  <2>3. session'.lastPacket \in Seq(Harmless)
    OBVIOUS
  <2> QED
    BY <1>1, <1>2, <2>1, <2>2, <2>3 DEF WritesAreHarmless
<1>10. AttachesOnce'
  <2> DEFINE a == Kept(toServer, Attaches)
             b == Kept(call.out, Attaches)
             c == Kept(call'.out, Attaches)
  <2>1. a \in Seq(Commands) /\ b \in Seq(Commands) /\ Cat(Attaching, a, b) /\ Cat(Attaching', a, c)
    <3>1. toServer \in Seq(Commands) /\ call.out \in Seq(Commands)
      BY <1>1, TypeFacts
    <3>2. a \in Seq(Commands) /\ b \in Seq(Commands)
      BY <3>1, KeptType
    <3>3. Cat(Attaching, a, b)
      BY <1>1, StreamFacts
    <3>4. Cat(Attaching', a, c)
      BY <1>2, StreamsAfter
    <3> QED
      BY <3>2, <3>3, <3>4
  <2>2. c = <<>> \/ c = b
    <3>1. CASE call'.out = <<>>
      BY <3>1, KeptEmpty
    <3>2. CASE call'.out = call.out \o Acknowledgement
      <4>1. call.out \in Seq(Commands) /\ Acknowledgement \in Seq(Commands) /\ Kept(Acknowledgement, Attaches) = <<>>
        BY <1>1, TypeFacts, AcksAreNoise
      <4> DEFINE o == call.out
                 k == Acknowledgement
      <4> HIDE DEF o, k
      <4>2. Kept(o \o k, Attaches) = Kept(o, Attaches) \o Kept(k, Attaches)
        <5>1. o \in Seq(Commands) /\ k \in Seq(Commands)
          BY <4>1 DEF o, k
        <5> QED
          BY <5>1, KeptConcat
      <4>3. Kept(call.out \o Acknowledgement, Attaches) = b \o Kept(Acknowledgement, Attaches)
        BY <4>2 DEF o, k
      <4> QED
        BY <2>1, <3>2, <4>1, <4>3
    <3> QED
      BY <3>1, <3>2
  <2> HIDE DEF a, b, c
  <2>3. Len(Attaching) <= 1 /\ (Attaching # <<>> => debugger = "none")
    BY <1>1 DEF AttachesOnce
  <2>4. Len(Attaching') <= 1 /\ (Attaching' # <<>> => debugger = "none")
    BY <2>1, <2>2, <2>3 DEF Cat
  <2> QED
    BY <1>2, <2>4 DEF AttachesOnce
<1> QED
  BY <1>5, <1>6, <1>7, <1>8, <1>9, <1>10 DEF SessionInv

-----------------------------------------------------------------------------
(* The steps of receive that take no reply.                                *)

\* What the session may rely on does not change with the packets it counts.
LEMMA ProgressStays ==
    ASSUME ProgressIsEarned, Live, UNCHANGED serverVars,
           session'.phase = session.phase, session'.outstanding = session.outstanding,
           session'.lastPacket = session.lastPacket, SameData(session, session')
    PROVE  ProgressIsEarned'
<1>1. UNCHANGED <<target, debugger, touched, serverNoAck, lastReply, consoleSent>>
  BY DEF serverVars
<1>2. \A i : Asked(i)' = Asked(i)
  BY DEF Asked
<1>3. /\ session'.noAck = session.noAck /\ session'.chunk = session.chunk /\ session'.index = session.index
      /\ session'.offset = session.offset /\ session'.regionCursor = session.regionCursor
      /\ session'.replies = session.replies /\ session'.attached = session.attached
      /\ session'.pendingFailure = session.pendingFailure
  BY DEF SameData
<1>4. CommandsAreOfPhase'
  BY <1>2, <1>3 DEF ProgressIsEarned, CommandsAreOfPhase
<1>5. PhaseIsEarned'
  BY <1>1, <1>2, <1>3 DEF ProgressIsEarned, PhaseIsEarned, Clean, Passed
<1> QED
  BY <1>4, <1>5 DEF ProgressIsEarned

\* The session counts a packet that is no reply and sends nothing for it.
LEMMA NoiseKeeps ==
    ASSUME SessionInv, NEW k, InLoop(k), k # "reply", NEW s \in Sessions, NEW cs \in Seq(Commands),
           cs \in Seq(Harmless), Kept(cs, Attaches) = <<>>, Proceed(s, cs),
           s.phase = session.phase, s.outstanding = session.outstanding, s.verdict = session.verdict,
           s.lastPacket = session.lastPacket, SameData(session, s)
    PROVE  /\ TypeOK' /\ CallIsPlaced' /\ WritesAreHarmless' /\ AttachesOnce' /\ VerdictIsTrue'
           /\ ProgressIsEarned' /\ session' = s /\ Live
           /\ Taken(Coming, Head(call.rx), Coming', Returns) /\ Cat(Going', Going, Kept(cs, Requests))
<1>1. TypeOK /\ WritesAreHarmless /\ ProgressIsEarned /\ CallIsPlaced
  BY DEF SessionInv
<1>2. call.active /\ call.rx # <<>> /\ Head(call.rx).kind # "reply" /\ UNCHANGED serverVars
  BY DEF InLoop
<1>3. session' = s /\ call'.answerable = call.answerable /\ call.answerable # 0
  BY <1>1, <1>2, ProceedCall
<1>4. Live /\ call.answerable <= session.outstanding /\ session.verdict = "none"
  BY <1>2, <1>3, CallsAreLive
<1>5. s.phase \in Working
  <2>1. session.phase \in Phases /\ session.phase # "idle"
    BY <1>1, <1>4, TypeFacts DEF CallIsPlaced, Live
  <2> QED
    BY <1>4, <2>1 DEF Live, Terminal, Working
<1>6. s.lastPacket \in Seq(Harmless)
  BY <1>1 DEF WritesAreHarmless
<1>7. /\ TypeOK' /\ CallIsPlaced' /\ WritesAreHarmless' /\ AttachesOnce' /\ VerdictIsTrue'
      /\ Taken(Coming, Head(call.rx), Coming', Returns) /\ Cat(Going', Going, Kept(cs, Requests))
  BY <1>3, <1>4, <1>5, <1>6, LoopKeeps
<1>8. ProgressIsEarned'
  BY <1>1, <1>2, <1>3, <1>4, ProgressStays
<1> QED
  BY <1>3, <1>4, <1>7, <1>8

\* A packet that is no answer leaves the tokens alone.
LEMMA CountedKeeps ==
    ASSUME SessionInv, NEW k \in {"ack", "console"}, InLoop(k), NEW s \in Sessions,
           NEW cs \in Seq(Commands), cs \in Seq(Harmless), Kept(cs, Attaches) = <<>>, Kept(cs, Requests) = <<>>,
           Proceed(s, cs), s.phase = session.phase, s.outstanding = session.outstanding,
           s.verdict = session.verdict, s.lastPacket = session.lastPacket, SameData(session, s)
    PROVE  SessionInv'
<1>1. /\ TypeOK' /\ CallIsPlaced' /\ WritesAreHarmless' /\ AttachesOnce' /\ VerdictIsTrue'
      /\ ProgressIsEarned' /\ session' = s /\ Live
      /\ Taken(Coming, Head(call.rx), Coming', Returns) /\ Cat(Going', Going, <<>>)
  BY NoiseKeeps
<1>2. Head(call.rx) \notin Returns /\ UNCHANGED serverVars
  BY DEF InLoop, Returns
<1>3. Coming' = Coming
  BY <1>1, <1>2 DEF Taken
<1>4. Going' = Going
  <2>1. Going \in Seq(Commands)
    BY StreamFacts DEF SessionInv
  <2> QED
    BY <1>1, <2>1, CatNone
<1>5. TokensMatch'
  <2>1. session'.noAck = session.noAck
    BY <1>1 DEF SameData
  <2>2. TokensMatch
    BY DEF SessionInv
  <2> QED
    BY <1>1, <1>2, <1>3, <1>4, <2>1, <2>2, TokensStay
<1> QED
  BY <1>1, <1>5 DEF SessionInv

LEMMA ReceiveAckKeeps == ASSUME SessionInv, ReceiveAck PROVE SessionInv'
<1> DEFINE s == [session EXCEPT !.acknowledged = TRUE]
<1>1. InLoop("ack") /\ Proceed(s, <<>>)
  BY DEF ReceiveAck
<1>2. session \in Sessions
  BY TypeFacts DEF SessionInv
<1>3. s \in Sessions
  BY <1>2, Zenon DEF Sessions
<1>4. /\ s.phase = session.phase /\ s.outstanding = session.outstanding
      /\ s.verdict = session.verdict /\ s.lastPacket = session.lastPacket /\ SameData(session, s)
  BY <1>2 DEF Sessions, SameData
<1>5. <<>> \in Seq(Commands) /\ <<>> \in Seq(Harmless) /\ Kept(<<>>, Attaches) = <<>> /\ Kept(<<>>, Requests) = <<>>
  BY KeptEmpty
<1> HIDE DEF s
<1> QED
  BY <1>1, <1>3, <1>4, <1>5, CountedKeeps

LEMMA ReceiveConsoleKeeps == ASSUME SessionInv, ReceiveConsole PROVE SessionInv'
<1> DEFINE s == [session EXCEPT !.consolePackets = @ + 1]
<1>1. InLoop("console") /\ Proceed(s, Acknowledgement)
  BY DEF ReceiveConsole
<1>2. session \in Sessions /\ session.consolePackets \in 0 .. MaxConsole
  BY TypeFacts DEF SessionInv, Sessions
<1>3. s \in Sessions
  <2>1. session.consolePackets # MaxConsole
    BY <1>1 DEF Proceed, Unexpected, InLoop
  <2>2. session.consolePackets + 1 \in 0 .. MaxConsole
    BY <1>2, <2>1, LimitsAssumption
  <2>3. [session EXCEPT !.consolePackets = session.consolePackets + 1] \in Sessions
    BY <1>2, <2>2, Zenon DEF Sessions
  <2> QED
    BY <2>3
<1>4. /\ s.phase = session.phase /\ s.outstanding = session.outstanding
      /\ s.verdict = session.verdict /\ s.lastPacket = session.lastPacket /\ SameData(session, s)
  BY <1>2 DEF Sessions, SameData
<1> HIDE DEF s
<1> QED
  BY <1>1, <1>3, <1>4, AcksAreNoise, CountedKeeps

\* Acknowledgements are on only while the session turns them off.
LEMMA AcknowledgedIsEarly ==
    ASSUME SessionInv, Live, session.noAck = FALSE
    PROVE  /\ session.outstanding = 1 /\ Len(session.lastPacket) = 1 /\ Asked(1) = session.lastPacket[1]
           /\ Kept(session.lastPacket, Attaches) = <<>> /\ Kept(session.lastPacket, Requests) = session.lastPacket
<1>1. session.phase \in {"supported", "noAck"}
  BY DEF SessionInv, ProgressIsEarned, PhaseIsEarned
<1>2. session.lastPacket = <<Plain(OpOf[session.phase])>>
  BY <1>1 DEF SessionInv, ProgressIsEarned, CommandsAreOfPhase, OpOf
<1>3. OpOf[session.phase] \in {"qSupported", "QStartNoAckMode"}
  BY <1>1 DEF OpOf
<1> DEFINE c == Plain(OpOf[session.phase])
<1>4. c \in Requests /\ c \notin Attaches
  BY <1>3, PlainCommands
<1>5. Kept(<<c>>, Attaches) = <<>> /\ Kept(<<c>>, Requests) = <<c>>
  BY <1>4, KeptOne
<1> HIDE DEF c
<1>6. session.lastPacket = <<c>> /\ Len(session.lastPacket) = 1
  BY <1>2 DEF c
<1>7. session.outstanding = 1
  BY <1>6 DEF SessionInv, TokensMatch
<1>8. Asked(1) = session.lastPacket[1]
  BY <1>6, <1>7 DEF Asked
<1> QED
  BY <1>5, <1>6, <1>7, <1>8

\* A command that came back damaged, or its damaged reply, is asked for again.
LEMMA AskedAgain ==
    ASSUME SessionInv, NEW k \in {"nack", "bad"}, InLoop(k), ~Unexpected(Head(call.rx)),
           NEW s \in Sessions, NEW cs \in Seq(Commands), cs \in Seq(Harmless),
           Kept(cs, Attaches) = <<>>, Kept(cs, Requests) = cs, Len(cs) = 1,
           k = "nack" => cs = session.lastPacket, k = "bad" => cs = <<Plain("-")>>,
           Proceed(s, cs), s.phase = session.phase, s.outstanding = session.outstanding,
           s.verdict = session.verdict, s.lastPacket = session.lastPacket, SameData(session, s)
    PROVE  SessionInv'
<1>1. /\ TypeOK' /\ CallIsPlaced' /\ WritesAreHarmless' /\ AttachesOnce' /\ VerdictIsTrue'
      /\ ProgressIsEarned' /\ session' = s /\ Live
      /\ Taken(Coming, Head(call.rx), Coming', Returns) /\ Cat(Going', Going, cs)
  BY NoiseKeeps
<1>2. /\ call.rx # <<>> /\ Head(call.rx).kind = k
      /\ UNCHANGED <<target, debugger, touched, serverNoAck, lastReply, consoleSent>>
  BY DEF InLoop, serverVars
<1>3. TypeOK /\ TokensMatch
  BY DEF SessionInv
<1>4. session.noAck = FALSE
  <2>1. ~session.noAck
    BY <1>2 DEF Unexpected
  <2>2. session.noAck \in BOOLEAN
    BY <1>3, TypeFacts
  <2> QED
    BY <2>1, <2>2
<1>5. session.outstanding = 1 /\ Len(session.lastPacket) = 1 /\ Asked(1) = session.lastPacket[1]
  BY <1>1, <1>4, AcknowledgedIsEarly
<1>6. Follows(Coming, Head(call.rx), Coming')
  <2>1. Head(call.rx) \in Packets
    <3>1. call.rx \in Seq(Packets)
      BY <1>3, TypeFacts
    <3> QED
      BY <1>2, <3>1
  <2> QED
    BY <1>1, <1>2, <2>1 DEF Taken, Returns
<1>7. /\ Coming[1] = Head(call.rx) /\ Len(Coming) = 1 /\ Len(Going) = 0 /\ Len(Coming') = 0
  <2>1. Len(Coming) + Len(Going) = 1
    BY <1>1, <1>3, <1>5 DEF TokensMatch
  <2>2. Len(Coming') \in Nat /\ Len(Coming) = Len(Coming') + 1 /\ Coming[1] = Head(call.rx)
    BY <1>6 DEF Follows
  <2>3. Going \in Seq(Commands)
    BY <1>3, StreamFacts
  <2>4. Len(Going) \in Nat
    BY <2>3
  <2> QED
    BY <2>1, <2>2, <2>4
<1>8. Going' = cs
  <2>1. Going = <<>>
    BY <1>3, <1>7, NothingAttaches
  <2> QED
    BY <1>1, <2>1, CatFirst
<1>9. Returned(Asked(1), Coming[1])
  BY <1>1, <1>3, <1>7 DEF TokensMatch
<1>10. Requested(Asked(1), cs[1])
  <2>1. CASE k = "nack"
    BY <1>5, <2>1 DEF Requested
  <2>2. CASE k = "bad"
    BY <1>2, <1>4, <1>7, <1>9, <2>2 DEF Returned, Requested
  <2> QED
    BY <2>1, <2>2
<1>11. /\ session'.noAck = session.noAck /\ session'.outstanding = 1 /\ Len(session'.lastPacket) = 1
       /\ Asked(1)' = Asked(1)
  BY <1>1, <1>5 DEF SameData, Asked
<1>12. ASSUME NEW i \in 1 .. Len(Going') PROVE Requested(Asked(Len(Coming) + i), Going[i])'
  <2>0. Len(Going') = 1
    BY <1>8
  <2>1. i = 1 /\ Len(Coming') + i = 1
    BY <1>7, <1>12, <2>0
  <2>2. Going'[i] = cs[1] /\ Asked(Len(Coming) + i)' = Asked(1)
    BY <1>8, <1>11, <2>1
  <2> QED
    BY <1>2, <1>10, <1>11, <2>2 DEF Requested, Vouched
<1>13. TokensMatch'
  <2>1. \A i \in 1 .. Len(Coming') : Returned(Asked(i), Coming[i])'
    BY <1>7
  <2>2. session'.outstanding \in 1 .. Len(session'.lastPacket) /\ Len(Coming') + Len(Going') = session'.outstanding
    BY <1>7, <1>8, <1>11
  <2>3. session'.noAck # TRUE
    BY <1>4, <1>11
  <2> QED
    BY <1>12, <2>1, <2>2, <2>3 DEF TokensMatch
<1> QED
  BY <1>1, <1>13 DEF SessionInv

LEMMA ReceiveNackKeeps == ASSUME SessionInv, ReceiveNack PROVE SessionInv'
<1> DEFINE s == [session EXCEPT !.retries = @ + 1]
           cs == session.lastPacket
<1>1. InLoop("nack") /\ Proceed(s, cs) /\ ~Unexpected(Head(call.rx))
  BY DEF ReceiveNack, Proceed
<1>2. session \in Sessions /\ session.retries \in 0 .. MaxRetries /\ cs \in Seq(Commands) /\ session.noAck \in BOOLEAN
  BY TypeFacts DEF SessionInv, Sessions
<1>3. s \in Sessions
  <2>1. session.retries # MaxRetries
    BY <1>1 DEF Unexpected, InLoop
  <2>2. session.retries + 1 \in 0 .. MaxRetries
    BY <1>2, <2>1, LimitsAssumption
  <2>3. [session EXCEPT !.retries = session.retries + 1] \in Sessions
    BY <1>2, <2>2, Zenon DEF Sessions
  <2> QED
    BY <2>3
<1>4. /\ s.phase = session.phase /\ s.outstanding = session.outstanding
      /\ s.verdict = session.verdict /\ s.lastPacket = session.lastPacket /\ SameData(session, s)
  BY <1>2 DEF Sessions, SameData
<1>5. Live
  <2>1. call.active /\ call.rx # <<>> /\ call.answerable # 0
    BY <1>1 DEF InLoop, Unexpected
  <2> QED
    BY <2>1, CallsAreLive
<1>6. session.noAck = FALSE
  BY <1>1, <1>2 DEF Unexpected, InLoop
<1>7. Kept(cs, Attaches) = <<>> /\ Kept(cs, Requests) = cs /\ Len(cs) = 1
  BY <1>5, <1>6, AcknowledgedIsEarly
<1>8. cs \in Seq(Harmless)
  BY DEF SessionInv, WritesAreHarmless
<1> HIDE DEF s
<1>9. cs = session.lastPacket
  OBVIOUS
<1> HIDE DEF cs
<1> QED
  BY <1>1, <1>2, <1>3, <1>4, <1>7, <1>8, <1>9, AskedAgain

LEMMA ReceiveDamagedKeeps == ASSUME SessionInv, ReceiveDamaged PROVE SessionInv'
<1> DEFINE s == [session EXCEPT !.badPackets = @ + 1]
           cs == <<Plain("-")>>
<1>1. InLoop("bad") /\ Proceed(s, cs) /\ ~Unexpected(Head(call.rx))
  BY DEF ReceiveDamaged, Proceed
<1>2. session \in Sessions /\ session.badPackets \in 0 .. MaxRetries
  BY TypeFacts DEF SessionInv, Sessions
<1>3. s \in Sessions
  <2>1. session.badPackets # MaxRetries
    BY <1>1 DEF Unexpected, InLoop
  <2>2. session.badPackets + 1 \in 0 .. MaxRetries
    BY <1>2, <2>1, LimitsAssumption
  <2>3. [session EXCEPT !.badPackets = session.badPackets + 1] \in Sessions
    BY <1>2, <2>2, Zenon DEF Sessions
  <2> QED
    BY <2>3
<1>4. /\ s.phase = session.phase /\ s.outstanding = session.outstanding
      /\ s.verdict = session.verdict /\ s.lastPacket = session.lastPacket /\ SameData(session, s)
  BY <1>2 DEF Sessions, SameData
<1>5. Plain("-") \in Commands /\ Plain("-") \in Harmless /\ Plain("-") \in Requests /\ Plain("-") \notin Attaches
  BY PlainCommands
<1>6. Kept(cs, Attaches) = <<>> /\ Kept(cs, Requests) = cs
  BY <1>5, KeptOne
<1>7. cs \in Seq(Commands) /\ cs \in Seq(Harmless) /\ Len(cs) = 1
  BY <1>5
<1>8. cs = <<Plain("-")>>
  OBVIOUS
<1> HIDE DEF s, cs
<1> QED
  BY <1>1, <1>3, <1>4, <1>6, <1>7, <1>8, AskedAgain

\* A throw ends the session and drops what the call had collected.
LEMMA ReceiveThrowsKeeps == ASSUME SessionInv, ReceiveThrows PROVE SessionInv'
<1> DEFINE s == Failed(session)
<1>1. call.active /\ UNCHANGED <<result, linkVars, serverVars>> /\ session' = s
  BY DEF ReceiveThrows, InLoop
<1>2. session \in Sessions /\ call \in Calls
  BY TypeFacts DEF SessionInv
<1>3. s \in Sessions /\ s.phase = "failed" /\ s.verdict = "uncertain" /\ s.lastPacket = <<>>
  BY <1>2, FinishedShape DEF Failed, Phases, Outcomes
<1>4. call' = [call EXCEPT !.rx = <<>>, !.out = <<>>]
  BY DEF ReceiveThrows
<1>5. call' \in Calls /\ call'.active = call.active /\ call'.rx = <<>> /\ call'.out = <<>>
  <2>1. <<>> \in Seq(Packets) /\ <<>> \in Seq(Commands)
    OBVIOUS
  <2>2. call' \in Calls
    BY <1>2, <1>4, <2>1, Zenon DEF Calls
  <2> QED
    BY <1>2, <1>4, <2>2 DEF Calls
<1>6. call.active = TRUE
  BY <1>1, <1>2 DEF Calls
<1> HIDE DEF s
<1> QED
  BY <1>1, <1>3, <1>5, <1>6, SessionEnds

-----------------------------------------------------------------------------
(* Replies that are followed by a single command.                          *)

\* What a reply in the loop says.
LEMMA RepliesVouch ==
    ASSUME SessionInv, InLoop("reply"), NEW s, NEW cs \in Seq(Commands), Proceed(s, cs)
    PROVE  /\ Live /\ session.verdict = "none" /\ call.active = TRUE /\ result = "none"
           /\ call.answerable <= session.outstanding /\ call'.answerable = call.answerable - 1
           /\ session.outstanding \in 1 .. Len(session.lastPacket)
           /\ Vouched(Asked(1), Head(call.rx)) /\ Head(call.rx) \in Packets /\ session.phase \in Working
           /\ CommandsAreOfPhase /\ PhaseIsEarned
           /\ session.noAck = TRUE => serverNoAck = TRUE
           /\ UNCHANGED <<result, link, toServer, toClient, target, debugger, touched, serverNoAck, lastReply, consoleSent>>
<1>1. TypeOK /\ call.active /\ call.rx # <<>> /\ Head(call.rx).kind = "reply"
  BY DEF SessionInv, InLoop
<1>2. UNCHANGED <<result, link, toServer, toClient, target, debugger, touched, serverNoAck, lastReply, consoleSent>>
  BY DEF InLoop, linkVars, serverVars
<1>3. call'.answerable = call.answerable - 1 /\ ~Unexpected(Head(call.rx)) /\ Head(call.rx) \in Packets
  BY <1>1, ProceedCall
<1>4. Taken(Coming, Head(call.rx), Coming', Returns)
  BY <1>1, <1>2, ProceedStreams
<1>5. /\ Live /\ session.verdict = "none" /\ call.answerable <= session.outstanding
      /\ session.outstanding \in 1 .. Len(session.lastPacket)
      /\ Vouched(Asked(1), Head(call.rx)) /\ call.active = TRUE /\ result = "none"
  BY <1>3, <1>4, ReplyComes
<1>6. session.phase \in Working
  <2>1. session.phase \in Phases /\ session.phase # "idle"
    BY <1>1, <1>5, TypeFacts DEF SessionInv, CallIsPlaced, Live
  <2> QED
    BY <1>5, <2>1 DEF Live, Terminal, Working
<1>7. CommandsAreOfPhase /\ PhaseIsEarned /\ (session.noAck = TRUE => serverNoAck = TRUE)
  BY <1>5 DEF SessionInv, ProgressIsEarned, TokensMatch
<1> QED
  BY <1>2, <1>3, <1>5, <1>6, <1>7

\* The phases with one command wait for one reply.
LEMMA OneCommand ==
    ASSUME session.outstanding \in 1 .. Len(session.lastPacket), CommandsAreOfPhase,
           session.phase \in DOMAIN OpOf \cup {"region"}
    PROVE  /\ session.outstanding = 1
           /\ session.phase # "region" => Asked(1) = Plain(OpOf[session.phase])
           /\ session.phase = "region" =>
                 Asked(1) = Command("qMemoryRegionInfo", session.index, session.regionCursor, 0)
<1> DEFINE c == Plain(OpOf[session.phase])
           d == Command("qMemoryRegionInfo", session.index, session.regionCursor, 0)
<1>1. /\ session.phase # "region" => session.lastPacket = <<c>>
      /\ session.phase = "region" => session.lastPacket = <<d>>
  BY DEF CommandsAreOfPhase
<1> HIDE DEF c, d
<1>2. Len(session.lastPacket) = 1
  <2>1. Len(<<c>>) = 1 /\ Len(<<d>>) = 1
    OBVIOUS
  <2> QED
    BY <1>1, <2>1, Zenon
<1>3. session.outstanding = 1
  BY <1>2
<1>4. Asked(1) = session.lastPacket[1]
  BY <1>2, <1>3 DEF Asked
<1> QED
  BY <1>1, <1>3, <1>4 DEF c, d

\* The next command is sent.
LEMMA NextAsked ==
    ASSUME SessionInv, InLoop("reply"), session.outstanding = 1,
           NEW s \in Sessions, s.verdict = session.verdict, s.noAck = TRUE => serverNoAck = TRUE,
           NEW ph \in DOMAIN OpOf, ph = "attach" => debugger = "none",
           Continue(s, <<Plain(OpOf[ph])>>, ph)
    PROVE  /\ CoreInv' /\ SameData(s, session') /\ session'.phase = ph
           /\ CommandsAreOfPhase'
<1> DEFINE c == Plain(OpOf[ph])
<1>1. OpOf[ph] \in {"qSupported", "QStartNoAckMode", "QSetDetachOnError", "vAttach",
                    "qProcessInfo", "challenge", "D"} /\ (OpOf[ph] = "vAttach" => ph = "attach")
  BY DEF OpOf
<1>2. c \in Commands /\ c \in Harmless /\ c \in Requests /\ (c \in Attaches => ph = "attach")
  BY <1>1, PlainCommands
<1>3. ph \in Working /\ ph \in Phases /\ ph # "region" /\ ph \notin Batches
  BY DEF OpOf, Working, Phases, Batches
<1>c. c = Plain(OpOf[ph])
  OBVIOUS
<1> HIDE DEF c
<1>4. /\ <<c>> \in Seq(Commands) /\ <<c>> \in Seq(Harmless) /\ Len(<<c>>) = 1
      /\ \A i \in 1 .. Len(<<c>>) : <<c>>[i] = c
  BY <1>2
<1>5. Sendable(<<c>>)
  BY <1>2, <1>4 DEF Sendable
<1>6. Continue(s, <<c>>, ph)
  BY <1>c
<1>7. CoreInv' /\ session' = Sent(s, <<c>>, ph)
  <2> DEFINE cs == <<c>>
  <2>1. Sendable(cs) /\ Continue(s, cs, ph)
    BY <1>5, <1>6
  <2> HIDE DEF cs
  <2>2. CoreInv' /\ session' = Sent(s, cs, ph)
    BY <1>3, <2>1, BatchStarts
  <2> QED
    BY <2>2 DEF cs
<1>8. SameData(s, session') /\ session'.phase = ph /\ session'.lastPacket = <<c>>
  BY <1>3, <1>4, <1>7, SentShape
<1>9. CommandsAreOfPhase'
  BY <1>3, <1>8, <1>c DEF CommandsAreOfPhase, Batches
<1> QED
  BY <1>7, <1>8, <1>9

LEMMA Collected ==
    /\ Acknowledgement \in Seq(Commands)
    /\ \A cs \in Seq(Commands) : Acknowledgement \o cs \in Seq(Commands)
    /\ \A op \in {"qSupported", "QStartNoAckMode", "QSetDetachOnError", "vAttach",
                  "qProcessInfo", "challenge", "D"} : Acknowledgement \o <<Plain(op)>> \in Seq(Commands)
<1>1. Acknowledgement \in Seq(Commands)
  BY AcksAreNoise
<1>2. \A cs \in Seq(Commands) : Acknowledgement \o cs \in Seq(Commands)
  BY <1>1
<1>3. ASSUME NEW op \in {"qSupported", "QStartNoAckMode", "QSetDetachOnError", "vAttach",
                         "qProcessInfo", "challenge", "D"}
      PROVE  Acknowledgement \o <<Plain(op)>> \in Seq(Commands)
  <2>1. Plain(op) \in Commands
    BY <1>3, PlainCommands
  <2>2. <<Plain(op)>> \in Seq(Commands)
    BY <2>1
  <2> QED
    BY <1>2, <2>2
<1> QED
  BY <1>1, <1>2, <1>3

LEMMA ReplySupportedKeeps == ASSUME SessionInv, ReplySupported PROVE SessionInv'
<1> DEFINE s == [session EXCEPT !.chunk = Head(call.rx).value]
           c == Plain("QStartNoAckMode")
<1>1. /\ InLoop("reply") /\ session.phase = "supported" /\ Head(call.rx).text = "features"
      /\ Continue(s, <<c>>, "noAck")
  BY DEF ReplySupported, Accepted, Expected
<1>2. /\ Live /\ session.verdict = "none"
      /\ session.outstanding \in 1 .. Len(session.lastPacket)
      /\ Vouched(Asked(1), Head(call.rx)) /\ Head(call.rx) \in Packets
      /\ CommandsAreOfPhase /\ PhaseIsEarned
      /\ UNCHANGED <<target, debugger, touched>>
  BY <1>1, RepliesVouch, Collected DEF Continue
<1>3. session.outstanding = 1 /\ Asked(1) = Plain("qSupported")
  BY <1>1, <1>2, OneCommand DEF OpOf
<1>4. Head(call.rx).value \in Chunks /\ Head(call.rx).value \in Nat
  BY <1>1, <1>2, <1>3 DEF Vouched, Plain, Command, Packets
<1>5. session \in Sessions
  BY TypeFacts DEF SessionInv
<1>6. s \in Sessions
  BY <1>4, <1>5, Zenon DEF Sessions
<1>7. /\ s.verdict = session.verdict /\ s.noAck = session.noAck /\ s.chunk = Head(call.rx).value
      /\ s.attached = session.attached /\ s.pendingFailure = session.pendingFailure
  BY <1>5 DEF Sessions
<1>8. session.noAck # TRUE /\ session.attached # TRUE /\ session.pendingFailure # TRUE /\ debugger = "none"
  BY <1>1, <1>2 DEF PhaseIsEarned
<1> HIDE DEF s
<1>9. /\ CoreInv' /\ SameData(s, session') /\ session'.phase = "noAck"
      /\ CommandsAreOfPhase'
  BY <1>1, <1>3, <1>6, <1>7, <1>8, NextAsked DEF OpOf
<1>10. PhaseIsEarned'
  BY <1>2, <1>4, <1>7, <1>8, <1>9 DEF PhaseIsEarned, SameData
<1> QED
  BY <1>9, <1>10 DEF CoreInv, SessionInv, ProgressIsEarned

LEMMA ReplyNoAckKeeps == ASSUME SessionInv, ReplyNoAck PROVE SessionInv'
<1> DEFINE s == [session EXCEPT !.noAck = TRUE]
           c == Plain("QSetDetachOnError")
<1>1. /\ InLoop("reply") /\ session.phase = "noAck" /\ Head(call.rx).text = "OK"
      /\ Continue(s, <<c>>, "detachPolicy")
  BY DEF ReplyNoAck, Accepted, Expected
<1>2. /\ Live /\ session.verdict = "none"
      /\ session.outstanding \in 1 .. Len(session.lastPacket)
      /\ Vouched(Asked(1), Head(call.rx)) /\ Head(call.rx) \in Packets
      /\ CommandsAreOfPhase /\ PhaseIsEarned
      /\ UNCHANGED <<target, debugger, touched>>
  BY <1>1, RepliesVouch, Collected DEF Continue
<1>3. session.outstanding = 1 /\ Asked(1) = Plain("QStartNoAckMode")
  BY <1>1, <1>2, OneCommand DEF OpOf
<1>4. serverNoAck = TRUE
  BY <1>1, <1>2, <1>3 DEF Vouched, Plain, Command
<1>5. session \in Sessions
  BY TypeFacts DEF SessionInv
<1>6. s \in Sessions
  <2>1. TRUE \in BOOLEAN
    OBVIOUS
  <2> QED
    BY <1>5, <2>1, Zenon DEF Sessions
<1>7. /\ s.verdict = session.verdict /\ s.noAck = TRUE /\ s.chunk = session.chunk
      /\ s.attached = session.attached /\ s.pendingFailure = session.pendingFailure
  BY <1>5 DEF Sessions
<1>8. session.attached # TRUE /\ session.pendingFailure # TRUE /\ debugger = "none" /\ session.chunk \in Chunks
  BY <1>1, <1>2 DEF PhaseIsEarned
<1> HIDE DEF s
<1>9. /\ CoreInv' /\ SameData(s, session') /\ session'.phase = "detachPolicy"
      /\ CommandsAreOfPhase'
  BY <1>1, <1>3, <1>4, <1>6, <1>7, NextAsked DEF OpOf
<1>10. PhaseIsEarned'
  BY <1>2, <1>7, <1>8, <1>9 DEF PhaseIsEarned, SameData
<1> QED
  BY <1>9, <1>10 DEF CoreInv, SessionInv, ProgressIsEarned

LEMMA ReplyDetachPolicyKeeps == ASSUME SessionInv, ReplyDetachPolicy PROVE SessionInv'
<1> DEFINE c == Plain("vAttach")
<1>1. /\ InLoop("reply") /\ session.phase = "detachPolicy" /\ Continue(session, <<c>>, "attach")
  BY DEF ReplyDetachPolicy, Accepted, Ask
<1>2. /\ Live /\ session.outstanding \in 1 .. Len(session.lastPacket)
      /\ CommandsAreOfPhase /\ PhaseIsEarned /\ (session.noAck = TRUE => serverNoAck = TRUE)
      /\ UNCHANGED <<target, debugger, touched>>
  BY <1>1, RepliesVouch, Collected DEF Continue
<1>3. session.outstanding = 1
  BY <1>1, <1>2, OneCommand DEF OpOf
<1>4. session \in Sessions
  BY TypeFacts DEF SessionInv
<1>5. /\ session.noAck = TRUE /\ session.attached # TRUE /\ session.pendingFailure # TRUE
      /\ debugger = "none" /\ session.chunk \in Chunks
  BY <1>1, <1>2 DEF PhaseIsEarned
<1>6. /\ CoreInv' /\ SameData(session, session') /\ session'.phase = "attach"
      /\ CommandsAreOfPhase'
  BY <1>1, <1>2, <1>3, <1>4, <1>5, NextAsked DEF OpOf
<1>7. PhaseIsEarned'
  BY <1>2, <1>5, <1>6 DEF PhaseIsEarned, SameData
<1> QED
  BY <1>6, <1>7 DEF CoreInv, SessionInv, ProgressIsEarned

LEMMA ReplyAttachKeeps == ASSUME SessionInv, ReplyAttach PROVE SessionInv'
<1> DEFINE s == [session EXCEPT !.attached = TRUE]
           c == Plain("qProcessInfo")
<1>1. /\ InLoop("reply") /\ session.phase = "attach" /\ Continue(s, <<c>>, "process")
  BY DEF ReplyAttach, Accepted
<1>2. /\ Live /\ session.outstanding \in 1 .. Len(session.lastPacket)
      /\ CommandsAreOfPhase /\ PhaseIsEarned /\ (session.noAck = TRUE => serverNoAck = TRUE)
      /\ UNCHANGED <<target, debugger, touched>>
  BY <1>1, RepliesVouch, Collected DEF Continue
<1>3. session.outstanding = 1
  BY <1>1, <1>2, OneCommand DEF OpOf
<1>4. session \in Sessions
  BY TypeFacts DEF SessionInv
<1>5. s \in Sessions
  <2>1. TRUE \in BOOLEAN
    OBVIOUS
  <2> QED
    BY <1>4, <2>1, Zenon DEF Sessions
<1>6. /\ s.verdict = session.verdict /\ s.noAck = session.noAck /\ s.chunk = session.chunk
      /\ s.attached = TRUE /\ s.pendingFailure = session.pendingFailure
  BY <1>4 DEF Sessions
<1>7. session.noAck = TRUE /\ session.pendingFailure # TRUE /\ session.chunk \in Chunks
  BY <1>1, <1>2 DEF PhaseIsEarned
<1> HIDE DEF s
<1>8. /\ CoreInv' /\ SameData(s, session') /\ session'.phase = "process"
      /\ CommandsAreOfPhase'
  BY <1>1, <1>2, <1>3, <1>5, <1>6, NextAsked DEF OpOf
<1>9. PhaseIsEarned'
  BY <1>2, <1>6, <1>7, <1>8 DEF PhaseIsEarned, SameData
<1> QED
  BY <1>8, <1>9 DEF CoreInv, SessionInv, ProgressIsEarned

LEMMA ReplyProcessKeeps == ASSUME SessionInv, ReplyProcess PROVE SessionInv'
<1> DEFINE c == Plain("challenge")
<1>1. /\ InLoop("reply") /\ session.phase = "process" /\ Head(call.rx).text = "process"
      /\ Continue(session, <<c>>, "challenge")
  BY DEF ReplyProcess, Accepted, Ask, Expected
<1>2. /\ Live /\ session.outstanding \in 1 .. Len(session.lastPacket)
      /\ Vouched(Asked(1), Head(call.rx))
      /\ CommandsAreOfPhase /\ PhaseIsEarned /\ (session.noAck = TRUE => serverNoAck = TRUE)
      /\ UNCHANGED <<target, debugger, touched>>
  BY <1>1, RepliesVouch, Collected DEF Continue
<1>3. session.outstanding = 1 /\ Asked(1) = Plain("qProcessInfo")
  BY <1>1, <1>2, OneCommand DEF OpOf
<1>4. session \in Sessions
  BY TypeFacts DEF SessionInv
<1>5. /\ session.noAck = TRUE /\ session.attached = TRUE /\ session.pendingFailure # TRUE
      /\ session.chunk \in Chunks
  BY <1>1, <1>2 DEF PhaseIsEarned
<1>6. target.process = TRUE
  BY <1>1, <1>2, <1>3 DEF Vouched, Plain, Command
<1>7. /\ CoreInv' /\ SameData(session, session') /\ session'.phase = "challenge"
      /\ CommandsAreOfPhase'
  BY <1>1, <1>2, <1>3, <1>4, <1>5, NextAsked DEF OpOf
<1>8. PhaseIsEarned'
  BY <1>2, <1>5, <1>6, <1>7 DEF PhaseIsEarned, SameData
<1> QED
  BY <1>7, <1>8 DEF CoreInv, SessionInv, ProgressIsEarned

\* Once every page was touched, the last checks and the detach follow.
LEMMA LastAsked ==
    ASSUME SessionInv, InLoop("reply"), session.outstanding = 1, touched = Pages,
           session.phase \in {"prepare", "finalProcess", "finalChallenge"},
           NEW ph \in {"finalProcess", "finalChallenge", "detach"},
           Continue(session, <<Plain(OpOf[ph])>>, ph)
    PROVE  SessionInv'
<1>1. ph \in DOMAIN OpOf /\ ph # "attach" /\ OpOf[ph] \in {"qProcessInfo", "challenge", "D"}
  BY DEF OpOf
<1>2. /\ PhaseIsEarned /\ (session.noAck = TRUE => serverNoAck = TRUE)
      /\ UNCHANGED <<target, debugger, touched>>
  BY <1>1, RepliesVouch, Collected DEF Continue
<1>3. session \in Sessions
  BY TypeFacts DEF SessionInv
<1>4. /\ session.noAck = TRUE /\ session.attached = TRUE /\ session.pendingFailure # TRUE
      /\ session.chunk \in Chunks
  BY <1>2 DEF PhaseIsEarned
<1>5. CoreInv' /\ SameData(session, session') /\ session'.phase = ph /\ CommandsAreOfPhase'
  BY <1>1, <1>2, <1>3, NextAsked
<1>6. PhaseIsEarned'
  BY <1>2, <1>4, <1>5 DEF PhaseIsEarned, SameData
<1> QED
  BY <1>5, <1>6 DEF CoreInv, SessionInv, ProgressIsEarned

LEMMA ReplyFinalKeeps == ASSUME SessionInv, ReplyFinalProcess \/ ReplyFinalChallenge PROVE SessionInv'
<1>1. /\ InLoop("reply") /\ session.phase \in {"finalProcess", "finalChallenge"}
      /\ \E ph \in {"finalChallenge", "detach"} : Continue(session, <<Plain(OpOf[ph])>>, ph)
  BY DEF ReplyFinalProcess, ReplyFinalChallenge, Accepted, Ask, OpOf
<1>2. PICK ph \in {"finalChallenge", "detach"} : Continue(session, <<Plain(OpOf[ph])>>, ph)
  BY <1>1
<1>3. OpOf[ph] \in {"challenge", "D"}
  BY DEF OpOf
<1>4. session.outstanding \in 1 .. Len(session.lastPacket) /\ CommandsAreOfPhase /\ PhaseIsEarned
  BY <1>1, <1>2, <1>3, RepliesVouch, Collected DEF Continue
<1>5. session.outstanding = 1 /\ touched = Pages
  BY <1>1, <1>4, OneCommand DEF OpOf, PhaseIsEarned
<1> QED
  BY <1>1, <1>2, <1>5, LastAsked

\* The debugger is told to detach after a failure.
LEMMA CleanupAsked ==
    ASSUME SessionInv, InLoop("reply"), session.outstanding = 1, session.attached = TRUE,
           NEW s \in Sessions, s.verdict = session.verdict, s.noAck = session.noAck,
           s.chunk = session.chunk, s.attached = session.attached, s.pendingFailure = TRUE,
           Continue(s, <<Plain("D")>>, "cleanup")
    PROVE  SessionInv'
<1>1. /\ PhaseIsEarned /\ (session.noAck = TRUE => serverNoAck = TRUE) /\ session.phase \in Working
      /\ UNCHANGED <<target, debugger, touched>>
  BY RepliesVouch, Collected DEF Continue
<1>2. session.noAck = TRUE /\ session.chunk \in Chunks
  BY <1>1 DEF PhaseIsEarned
<1>3. CoreInv' /\ SameData(s, session') /\ session'.phase = "cleanup" /\ CommandsAreOfPhase'
  BY <1>1, NextAsked DEF OpOf
<1>4. PhaseIsEarned'
  BY <1>1, <1>2, <1>3 DEF PhaseIsEarned, SameData
<1> QED
  BY <1>3, <1>4 DEF CoreInv, SessionInv, ProgressIsEarned

-----------------------------------------------------------------------------
(* Failures and the end of the session.                                    *)

LEMMA EndsWithReply ==
    ASSUME SessionInv, InLoop("reply"), session.outstanding = 1,
           NEW s \in Sessions, s.phase \in {"complete", "failed"}, s.verdict # "none", s.lastPacket = <<>>,
           s.verdict = "prepared" => debugger = "gone" /\ touched = Pages,
           s.verdict = "failedDetached" => debugger = "gone",
           Proceed(s, Acknowledgement)
    PROVE  SessionInv'
<1>1. TypeOK /\ call.active /\ call.rx # <<>> /\ Head(call.rx).kind = "reply" /\ UNCHANGED <<result, linkVars, serverVars>>
  BY DEF SessionInv, InLoop
<1>2. Acknowledgement \in Seq(Commands)
  BY Collected
<1>3. /\ session' = s /\ call' \in Calls /\ call'.active = call.active
      /\ call'.out = call.out \o Acknowledgement /\ call.answerable # 0
  BY <1>1, <1>2, ProceedCall
<1>4. call.active = TRUE /\ call.answerable <= session.outstanding /\ call'.answerable = call.answerable - 1
  BY <1>2, RepliesVouch
<1>5. call.answerable \in Nat
  BY <1>1, TypeFacts
<1>6. call'.answerable = 0
  BY <1>3, <1>4, <1>5
<1> QED
  BY <1>1, <1>3, <1>4, <1>6, SessionEnds

LEMMA ReplyDetachedKeeps == ASSUME SessionInv, ReplyDetached PROVE SessionInv'
<1> DEFINE s == [session EXCEPT !.attached = FALSE]
<1>1. /\ InLoop("reply") /\ session.phase \in {"detach", "cleanup"} /\ Head(call.rx).text = "OK"
      /\ \/ session.pendingFailure # TRUE /\ Proceed(Finished(s, "complete", "prepared"), Acknowledgement)
         \/ session.pendingFailure # FALSE /\ Proceed(Finished(s, "failed", "failedDetached"), Acknowledgement)
  BY DEF ReplyDetached, Accepted, Expected
<1>2. /\ session.outstanding \in 1 .. Len(session.lastPacket)
      /\ Vouched(Asked(1), Head(call.rx)) /\ CommandsAreOfPhase /\ PhaseIsEarned
  BY <1>1, RepliesVouch, Collected
<1>3. session.outstanding = 1 /\ Asked(1) = Plain("D")
  BY <1>1, <1>2, OneCommand DEF OpOf
<1>4. debugger = "gone"
  BY <1>1, <1>2, <1>3 DEF Vouched, Plain, Command
<1>5. session \in Sessions /\ session.pendingFailure \in BOOLEAN
  BY TypeFacts DEF SessionInv, Sessions
<1>6. s \in Sessions
  <2>1. FALSE \in BOOLEAN
    OBVIOUS
  <2> QED
    BY <1>5, <2>1, Zenon DEF Sessions
<1> HIDE DEF s
<1>7. CASE session.pendingFailure # TRUE /\ Proceed(Finished(s, "complete", "prepared"), Acknowledgement)
  <2> DEFINE t == Finished(s, "complete", "prepared")
  <2>1. t \in Sessions /\ t.phase = "complete" /\ t.verdict = "prepared" /\ t.lastPacket = <<>>
    BY <1>6, FinishedShape DEF Phases, Outcomes
  <2>2. touched = Pages
    BY <1>1, <1>2, <1>7 DEF PhaseIsEarned
  <2>3. Proceed(t, Acknowledgement)
    BY <1>7
  <2> HIDE DEF t
  <2> QED
    BY <1>1, <1>3, <1>4, <2>1, <2>2, <2>3, EndsWithReply
<1>8. CASE session.pendingFailure # FALSE /\ Proceed(Finished(s, "failed", "failedDetached"), Acknowledgement)
  <2> DEFINE t == Finished(s, "failed", "failedDetached")
  <2>1. t \in Sessions /\ t.phase = "failed" /\ t.verdict = "failedDetached" /\ t.lastPacket = <<>>
    BY <1>6, FinishedShape DEF Phases, Outcomes
  <2>2. Proceed(t, Acknowledgement)
    BY <1>8
  <2> HIDE DEF t
  <2> QED
    BY <1>1, <1>3, <1>4, <2>1, <2>2, EndsWithReply
<1> QED
  BY <1>1, <1>7, <1>8

\* The rest of a batch is answered before the debugger is told to detach.
LEMMA DrainingGoesOn ==
    ASSUME SessionInv, InLoop("reply"), session.outstanding > 1, session.attached = TRUE,
           NEW s \in Sessions, s.verdict = session.verdict, s.noAck = session.noAck,
           s.chunk = session.chunk, s.attached = session.attached, s.pendingFailure = TRUE,
           s.lastPacket = session.lastPacket, s.outstanding = session.outstanding,
           s.phase = "draining", Settle(s)
    PROVE  SessionInv'
<1>1. /\ PhaseIsEarned /\ session.phase \in Working /\ UNCHANGED <<target, debugger, touched>>
      /\ CommandsAreOfPhase /\ session.outstanding \in 1 .. Len(session.lastPacket)
  BY RepliesVouch, Collected DEF Settle
<1>2. session.noAck = TRUE /\ session.chunk \in Chunks
  BY <1>1 DEF PhaseIsEarned
<1>3. /\ CoreInv' /\ session' = [s EXCEPT !.outstanding = session.outstanding - 1]
      /\ \A i \in 1 .. session.outstanding - 1 : Asked(i)' = Asked(i + 1)
  BY BatchGoesOn DEF Working, Phases
<1>4. /\ session'.phase = "draining" /\ session'.noAck = TRUE /\ session'.attached = TRUE
      /\ session'.pendingFailure = TRUE /\ session'.chunk \in Chunks
  BY <1>2, <1>3 DEF Sessions
<1>5. session.phase \in Batches
  <2>1. session.phase \notin DOMAIN OpOf \cup {"region"}
    BY <1>1, OneCommand
  <2> QED
    BY <1>1, <2>1 DEF OpOf, Working, Phases, Batches
<1>6. session.outstanding \in Nat
  BY TypeFacts DEF SessionInv
<1>7. \A i \in 1 .. session.outstanding : Asked(i).op \in {"m", "M"}
  BY <1>1, <1>5 DEF CommandsAreOfPhase, Batches
<1>8. session'.outstanding = session.outstanding - 1
  BY <1>3 DEF Sessions
<1>9. ASSUME NEW i \in 1 .. session'.outstanding PROVE Asked(i)'.op \in {"m", "M"}
  <2>1. i \in 1 .. session.outstanding - 1 /\ i + 1 \in 1 .. session.outstanding
    BY <1>6, <1>8
  <2> QED
    BY <1>3, <1>7, <2>1
<1>10. CommandsAreOfPhase'
  BY <1>4, <1>9 DEF CommandsAreOfPhase, OpOf
<1>11. PhaseIsEarned'
  BY <1>4 DEF PhaseIsEarned, OpOf
<1> QED
  BY <1>3, <1>10, <1>11 DEF CoreInv, SessionInv, ProgressIsEarned

LEMMA ReplyDrainingKeeps == ASSUME SessionInv, ReplyDraining PROVE SessionInv'
<1>1. /\ InLoop("reply") /\ session.phase = "draining"
      /\ \/ session.outstanding > 1 /\ Settle(session)
         \/ session.outstanding = 1 /\ Continue(session, <<Plain("D")>>, "cleanup")
  BY DEF ReplyDraining, Ask
<1>2. PhaseIsEarned
  BY <1>1, RepliesVouch, Collected DEF Settle, Continue
<1>3. session.attached = TRUE /\ session.pendingFailure = TRUE
  BY <1>1, <1>2 DEF PhaseIsEarned
<1>4. session \in Sessions
  BY TypeFacts DEF SessionInv
<1>5. CASE session.outstanding > 1 /\ Settle(session)
  BY <1>1, <1>3, <1>4, <1>5, DrainingGoesOn
<1>6. CASE session.outstanding = 1 /\ Continue(session, <<Plain("D")>>, "cleanup")
  BY <1>1, <1>3, <1>4, <1>6, CleanupAsked
<1> QED
  BY <1>1, <1>5, <1>6

LEMMA ReplyRefusedKeeps == ASSUME SessionInv, ReplyRefused PROVE SessionInv'
<1> DEFINE s == [session EXCEPT !.pendingFailure = TRUE]
           d == [s EXCEPT !.phase = "draining"]
           detachable == session.attached /\ session.phase \notin {"detach", "cleanup"}
<1>1. /\ InLoop("reply") /\ session.phase # "draining"
      /\ \/ detachable /\ session.outstanding > 1 /\ Settle(d)
         \/ detachable /\ session.outstanding = 1 /\ Continue(s, <<Plain("D")>>, "cleanup")
         \/ ~detachable /\ Proceed(Failed(session), Acknowledgement)
  BY DEF ReplyRefused
<1>2. session \in Sessions /\ session.attached \in BOOLEAN
  BY TypeFacts DEF SessionInv, Sessions
<1>3. s \in Sessions /\ d \in Sessions
  <2>1. TRUE \in BOOLEAN /\ "draining" \in Phases
    BY DEF Phases
  <2>2. s \in Sessions
    BY <1>2, <2>1, Zenon DEF Sessions
  <2> QED
    BY <2>1, <2>2, Zenon DEF Sessions
<1>4. /\ s.verdict = session.verdict /\ s.noAck = session.noAck /\ s.chunk = session.chunk
      /\ s.attached = session.attached /\ s.pendingFailure = TRUE
      /\ s.lastPacket = session.lastPacket /\ s.outstanding = session.outstanding
  BY <1>2 DEF Sessions
<1>5. /\ d.verdict = session.verdict /\ d.noAck = session.noAck /\ d.chunk = session.chunk
      /\ d.attached = session.attached /\ d.pendingFailure = TRUE
      /\ d.lastPacket = session.lastPacket /\ d.outstanding = session.outstanding /\ d.phase = "draining"
  BY <1>2 DEF Sessions
<1>6. detachable => session.attached = TRUE
  BY <1>2
<1>7. CASE detachable /\ session.outstanding > 1 /\ Settle(d)
  <2> HIDE DEF s, d
  <2> QED
    BY <1>1, <1>3, <1>5, <1>6, <1>7, DrainingGoesOn
<1>8. CASE detachable /\ session.outstanding = 1 /\ Continue(s, <<Plain("D")>>, "cleanup")
  <2> HIDE DEF s, d
  <2> QED
    BY <1>1, <1>3, <1>4, <1>6, <1>8, CleanupAsked
<1>9. CASE ~detachable /\ Proceed(Failed(session), Acknowledgement)
  <2> DEFINE f == Failed(session)
  <2>1. f \in Sessions /\ f.phase = "failed" /\ f.verdict = "uncertain" /\ f.lastPacket = <<>>
    BY <1>2, FinishedShape DEF Failed, Phases, Outcomes
  <2>2. /\ session.outstanding \in 1 .. Len(session.lastPacket) /\ CommandsAreOfPhase /\ PhaseIsEarned
    BY <1>1, <1>9, RepliesVouch, Collected
  <2>3. session.phase \in {"supported", "noAck", "detachPolicy", "attach", "detach", "cleanup"}
    BY <1>2, <1>9, <2>2 DEF PhaseIsEarned
  <2>4. session.outstanding = 1
    BY <2>2, <2>3, OneCommand DEF OpOf
  <2>5. Proceed(f, Acknowledgement)
    BY <1>9
  <2> HIDE DEF f
  <2> QED
    BY <1>1, <2>1, <2>4, <2>5, EndsWithReply
<1> QED
  BY <1>1, <1>7, <1>8, <1>9

-----------------------------------------------------------------------------
(* The preflight: regions and reads.                                       *)

LEMMA SizeFacts ==
    /\ Len(Size) \in Nat \ {0} /\ Page \in Nat \ {0}
    /\ \A r \in 1 .. Len(Size) : Size[r] \in Nat \ {0} /\ Size[r] % Page = 0
    /\ DOMAIN Size = 1 .. Len(Size)
<1>1. Size \in Seq(Nat \ {0}) /\ Size # <<>> /\ Page \in Nat \ {0}
  BY SizesAssumption
<1>2. DOMAIN Size = 1 .. Len(Size) /\ Len(Size) \in Nat \ {0}
  BY <1>1
<1>3. \A r \in 1 .. Len(Size) : Size[r] \in Nat \ {0}
  BY <1>1
<1>4. \A r \in 1 .. Len(Size) : Size[r] % Page = 0
  BY <1>2, SizesAssumption
<1> QED
  BY <1>1, <1>2, <1>3, <1>4

LEMMA Quotient ==
    ASSUME NEW a \in Nat, NEW b \in Nat \ {0}
    PROVE  a \div b \in Nat /\ (a \div b) * b <= a /\ a < (a \div b) * b + b
OBVIOUS

LEMMA ProductGrows ==
    ASSUME NEW b \in Nat, NEW i \in Nat, NEW j \in Nat, i <= j
    PROVE  i * b <= j * b /\ i * b \in Nat
OBVIOUS

\* Reads in arena r, all that is from offset o to the end of the last one.
ReadTo(reads, end) == end = reads[Len(reads)].at + reads[Len(reads)].n
ReadFrom(reads, r, o, end) ==
    /\ reads \in Seq(Commands) /\ Len(reads) \in Nat \ {0}
    /\ \A j \in 1 .. Len(reads) : reads[j].op = "m" /\ reads[j].r = r
    /\ \A u \in o .. end - 1 : \E j \in 1 .. Len(reads) :
          u \in reads[j].at .. reads[j].at + reads[j].n - 1

LEMMA ReadsCover ==
    ASSUME NEW r \in 1 .. Len(Size), NEW o \in Nat, o < Size[r], NEW size \in Nat \ {0}
    PROVE  \E end \in Nat : /\ ReadFrom(PreflightReads(r, o, size), r, o, end)
                             /\ ReadTo(PreflightReads(r, o, size), end)
<1> DEFINE S == Size[r] - o
           d == (S + size - 1) \div size
           count == Lesser(d, ReadsPerBatch)
           from(j) == o + (j - 1) * size
           n(j) == Lesser(size, Size[r] - from(j))
           reads == [j \in 1 .. count |-> Command("m", r, from(j), n(j))]
<1>1. Size[r] \in Nat \ {0} /\ S \in Nat \ {0} /\ r \in 0 .. Len(Size) /\ Len(Size) \in Nat
  BY SizeFacts
<1>2. ReadsPerBatch \in Nat \ {0}
  BY LimitsAssumption
<1>3. d \in Nat /\ d * size <= S + size - 1 /\ S + size - 1 < d * size + size
  <2>1. S + size - 1 \in Nat
    BY <1>1
  <2> HIDE DEF S
  <2> QED
    BY <2>1, Quotient
<1>4. d # 0 /\ (d - 1) * size < S
  <2>1. d # 0
    <3>1. 0 * size = 0
      OBVIOUS
    <3>2. d = 0 => S + size - 1 < 0 * size + size
      BY <1>3, Zenon
    <3> HIDE DEF d, S
    <3> QED
      BY <1>1, <3>1, <3>2
  <2> DEFINE P == d * size
  <2>2. (d - 1) * size = P - size
    BY <1>3
  <2>3. P \in Nat
    BY <1>3
  <2>4. P <= S + size - 1
    BY <1>3
  <2> HIDE DEF P, d, S
  <2>5. P - size < S
    BY <1>1, <2>3, <2>4
  <2> QED
    BY <2>1, <2>2, <2>5
<1> HIDE DEF d
<1>5. count \in Nat \ {0} /\ count <= d
  BY <1>2, <1>3, <1>4 DEF Lesser
<1> HIDE DEF count
<1>6. ASSUME NEW j \in 1 .. count
      PROVE  from(j) \in Nat /\ from(j) < Size[r] /\ n(j) \in Nat /\ n(j) <= size /\ from(j) + n(j) <= Size[r]
             /\ (n(j) = size \/ from(j) + n(j) = Size[r])
  <2>1. j - 1 \in Nat /\ d - 1 \in Nat /\ j - 1 <= d - 1
    BY <1>3, <1>4, <1>5, <1>6
  <2>2. (j - 1) * size <= (d - 1) * size /\ (j - 1) * size \in Nat
    BY <2>1, ProductGrows
  <2>3. (d - 1) * size \in Nat
    BY <2>1, ProductGrows
  <2>4. from(j) \in Nat /\ from(j) < Size[r]
    <3> DEFINE P == (j - 1) * size
               Q == (d - 1) * size
    <3>1. P \in Nat /\ P <= Q /\ Q \in Nat
      BY <2>2, <2>3
    <3>2. o + P \in Nat /\ o + P <= o + Q
      BY <3>1
    <3>3. Q < S
      BY <1>4
    <3> HIDE DEF P, Q
    <3>4. o + P < Size[r]
      BY <1>1, <3>1, <3>2, <3>3
    <3>5. from(j) = o + P
      BY DEF P
    <3> QED
      BY <3>2, <3>4, <3>5
  <2> HIDE DEF from
  <2> QED
    BY <1>1, <2>4 DEF Lesser
<1>7. reads = PreflightReads(r, o, size) /\ Len(reads) = count
  <2>1. reads = PreflightReads(r, o, size)
    BY DEF PreflightReads, count, d
  <2>2. Len(reads) = count
    BY <1>5
  <2> QED
    BY <2>1, <2>2
<1>8. ASSUME NEW j \in 1 .. count
      PROVE  /\ reads[j] \in Commands /\ reads[j].op = "m" /\ reads[j].r = r
             /\ reads[j].at = from(j) /\ reads[j].n = n(j)
  <2>1. reads[j] = Command("m", r, from(j), n(j))
    OBVIOUS
  <2>2. from(j) \in Nat /\ n(j) \in Nat
    BY <1>6
  <2> HIDE DEF reads, from, n
  <2> QED
    BY <1>1, <2>1, <2>2 DEF Command, Commands
<1>9. reads \in Seq(Commands)
  <2>1. \A j \in 1 .. count : Command("m", r, from(j), n(j)) \in Commands
    BY <1>8
  <2>2. reads \in [1 .. count -> Commands]
    <3> HIDE DEF from, n
    <3> QED
      BY <2>1
  <2> HIDE DEF reads
  <2> QED
    BY <1>5, <2>2, SeqDef
<1> HIDE DEF reads
<1>10. count \in 1 .. count
  BY <1>5
<1> DEFINE end == from(count) + n(count)
<1>11. reads[count].at + reads[count].n = end /\ end \in Nat
  <2>1. reads[count].at = from(count) /\ reads[count].n = n(count)
    BY <1>8, <1>10
  <2>2. from(count) \in Nat /\ n(count) \in Nat
    BY <1>6, <1>10
  <2> HIDE DEF from, n
  <2> QED
    BY <2>1, <2>2
<1>12. ASSUME NEW u \in o .. end - 1
       PROVE  \E j \in 1 .. count : u \in from(j) .. from(j) + n(j) - 1
  <2> DEFINE q == (u - o) \div size
  <2>1. u - o \in Nat /\ u \in Nat /\ u >= o /\ u < end
    BY <1>11, <1>12
  <2>2. q \in Nat /\ q * size <= u - o /\ u - o < q * size + size
    BY <2>1, Quotient
  <2>3. u < o + (count - 1) * size + size /\ u < Size[r]
    <3>1. n(count) <= size /\ from(count) + n(count) <= Size[r] /\ n(count) \in Nat /\ from(count) \in Nat
      BY <1>6, <1>10
    <3>2. (count - 1) * size \in Nat
      BY <1>5, ProductGrows
    <3>3. u < from(count) + size /\ u < Size[r]
      <4> HIDE DEF from, n
      <4> QED
        BY <1>1, <2>1, <3>1
    <3> QED
      BY <3>3
  <2> HIDE DEF q
  <2>4. q + 1 <= count
    <3>1. SUFFICES ASSUME q >= count PROVE FALSE
      BY <1>5, <2>2
    <3>2. count * size <= q * size /\ count * size \in Nat /\ q * size \in Nat
      BY <1>5, <2>2, <3>1, ProductGrows
    <3>3. count * size = (count - 1) * size + size
      BY <1>5
    <3>4. (count - 1) * size \in Nat
      BY <1>5, ProductGrows
    <3> QED
      BY <2>1, <2>2, <2>3, <3>2, <3>3, <3>4
  <2> DEFINE j == q + 1
  <2>5. j \in 1 .. count /\ j - 1 = q
    BY <1>5, <2>2, <2>4
  <2>6. from(j) = o + q * size
    BY <2>5
  <2>7. q * size \in Nat
    BY <2>2, ProductGrows
  <2>8. from(j) <= u /\ u < from(j) + size
    BY <2>1, <2>2, <2>6, <2>7
  <2>9. from(j) \in Nat /\ n(j) \in Nat /\ (n(j) = size \/ from(j) + n(j) = Size[r])
    BY <1>6, <2>5
  <2>10. u <= from(j) + n(j) - 1
    <3> HIDE DEF from, n
    <3> QED
      BY <1>1, <2>1, <2>3, <2>8, <2>9
  <2>11. u \in from(j) .. from(j) + n(j) - 1
    <3> HIDE DEF from, n
    <3> QED
      BY <2>1, <2>8, <2>9, <2>10
  <2> QED
    BY <2>5, <2>11
<1>13. \A u \in o .. end - 1 : \E j \in 1 .. count : u \in reads[j].at .. reads[j].at + reads[j].n - 1
  <2>1. \A j \in 1 .. count : reads[j].at = from(j) /\ reads[j].n = n(j)
    BY <1>8
  <2> HIDE DEF from, n
  <2> QED
    BY <1>12, <2>1
<1> HIDE DEF end
<1>14. Len(reads) = count
  BY <1>7
<1>15. ReadFrom(reads, r, o, end)
  <2>1. \A j \in 1 .. count : reads[j].op = "m" /\ reads[j].r = r
    BY <1>8
  <2> HIDE DEF from, n
  <2> QED
    BY <1>5, <1>9, <1>13, <1>14, <2>1, Zenon DEF ReadFrom
<1>16. ReadTo(reads, end)
  BY <1>11, <1>14, Zenon DEF ReadTo
<1> QED
  BY <1>7, <1>11, <1>15, <1>16, Zenon

\* The session asks for the region at a cursor.
LEMMA RegionAsked ==
    ASSUME SessionInv, InLoop("reply"), session.outstanding = 1,
           session.phase \in {"challenge", "region", "preflight"}, target.challenge = TRUE,
           NEW r \in 1 .. Len(Size), NEW cursor \in Nat, cursor < Size[r],
           \A q \in 1 .. r - 1 : Passed(q),
           \A u \in 0 .. cursor - 1 : <<r, u>> \notin target.unsafe,
           AskRegion(r, cursor)
    PROVE  SessionInv'
<1> DEFINE s == [session EXCEPT !.index = r, !.regionCursor = cursor]
           c == Command("qMemoryRegionInfo", r, cursor, 0)
<1>1. Continue(s, <<c>>, "region")
  BY DEF AskRegion
<1>2. Len(Size) \in Nat
  BY SizeFacts
<1>3. c \in Commands /\ c.op = "qMemoryRegionInfo"
  BY <1>2 DEF Commands, Command
<1>4. session \in Sessions
  BY TypeFacts DEF SessionInv
<1>5. s \in Sessions
  <2>1. r \in 0 .. Len(Size) + 1
    BY <1>2
  <2> QED
    BY <1>4, <2>1, Zenon DEF Sessions
<1>6. /\ s.verdict = session.verdict /\ s.noAck = session.noAck /\ s.chunk = session.chunk
      /\ s.attached = session.attached /\ s.pendingFailure = session.pendingFailure
      /\ s.index = r /\ s.regionCursor = cursor
  BY <1>4 DEF Sessions
<1>c. c = Command("qMemoryRegionInfo", r, cursor, 0)
  OBVIOUS
<1> HIDE DEF s, c
<1>7. c \in Harmless /\ c \in Requests /\ c \notin Attaches
  BY <1>3 DEF Harmless, Requests, Attaches
<1> DEFINE cs == <<c>>
<1>8. /\ cs \in Seq(Commands) /\ cs \in Seq(Harmless) /\ Len(cs) = 1
      /\ \A i \in 1 .. Len(cs) : cs[i] = c
  BY <1>3, <1>7
<1>9. Continue(s, cs, "region") /\ cs = <<c>>
  BY <1>1
<1> HIDE DEF cs
<1>10. Acknowledgement \o cs \in Seq(Commands) /\ Proceed(Sent(s, cs, "region"), Acknowledgement \o cs)
  BY <1>8, <1>9, Collected DEF Continue
<1>11. /\ PhaseIsEarned /\ (session.noAck = TRUE => serverNoAck = TRUE)
       /\ UNCHANGED <<target, debugger, touched>>
  BY <1>10, RepliesVouch
<1>12. Sendable(cs)
  BY <1>7, <1>8 DEF Sendable
<1>13. CoreInv' /\ session' = Sent(s, cs, "region")
  BY <1>5, <1>6, <1>9, <1>11, <1>12, BatchStarts DEF Working, Phases
<1>14. SameData(s, session') /\ session'.phase = "region" /\ session'.lastPacket = <<c>>
  <2>1. "region" \in Phases
    BY DEF Phases
  <2>2. SameData(s, session') /\ session'.phase = "region" /\ session'.lastPacket = cs
    BY <1>5, <1>8, <1>13, <2>1, SentShape
  <2> QED
    BY <1>9, <2>2
<1>15. /\ session'.index = r /\ session'.regionCursor = cursor
  BY <1>6, <1>14 DEF SameData
<1>16. CommandsAreOfPhase'
  BY <1>14, <1>15, <1>c DEF CommandsAreOfPhase, OpOf
<1>17. /\ session.noAck = TRUE /\ session.attached = TRUE /\ session.pendingFailure # TRUE
       /\ session.chunk \in Chunks /\ target.process = TRUE
  BY <1>11 DEF PhaseIsEarned
<1>18. \A q : Passed(q)' <=> Passed(q)
  BY <1>11 DEF Passed
<1>19. PhaseIsEarned'
  <2>1. \A q \in 1 .. session'.index - 1 : Passed(q)'
    BY <1>15, <1>18
  <2>2. session'.regionCursor < Size[session'.index]
    BY <1>15
  <2>3. \A u \in 0 .. session'.regionCursor - 1 : <<session'.index, u>> \notin target'.unsafe
    BY <1>11, <1>15
  <2> QED
    BY <1>6, <1>11, <1>14, <1>15, <1>17, <2>1, <2>2, <2>3 DEF PhaseIsEarned, SameData
<1> QED
  BY <1>13, <1>16, <1>19 DEF CoreInv, SessionInv, ProgressIsEarned

LEMMA ReplyChallengeKeeps == ASSUME SessionInv, ReplyChallenge PROVE SessionInv'
<1> DEFINE c == Command("qMemoryRegionInfo", 1, 0, 0)
           s == [session EXCEPT !.index = 1, !.regionCursor = 0]
<1>1. /\ InLoop("reply") /\ session.phase = "challenge" /\ Head(call.rx).text = "challenge"
      /\ AskRegion(1, 0)
  BY DEF ReplyChallenge, Accepted, Expected
<1>2. 1 \in 1 .. Len(Size) /\ 0 \in Nat /\ 0 < Size[1] /\ Len(Size) \in Nat
  BY SizeFacts
<1>3. Acknowledgement \o <<c>> \in Seq(Commands)
  <2>1. c \in Commands
    BY <1>2 DEF Commands, Command
  <2>2. <<c>> \in Seq(Commands)
    BY <2>1
  <2> QED
    BY <2>2, Collected
<1>4. Proceed(Sent(s, <<c>>, "region"), Acknowledgement \o <<c>>)
  BY <1>1 DEF AskRegion, Continue
<1> HIDE DEF c, s
<1>5. /\ session.outstanding \in 1 .. Len(session.lastPacket)
      /\ Vouched(Asked(1), Head(call.rx)) /\ CommandsAreOfPhase
  BY <1>1, <1>3, <1>4, RepliesVouch
<1>6. session.outstanding = 1 /\ Asked(1) = Plain("challenge")
  BY <1>1, <1>5, OneCommand DEF OpOf
<1>7. target.challenge = TRUE
  BY <1>1, <1>5, <1>6 DEF Vouched, Plain, Command
<1>8. \A u \in 0 .. 0 - 1 : FALSE
  OBVIOUS
<1>9. \A q \in 1 .. 1 - 1 : FALSE
  OBVIOUS
<1> QED
  BY <1>1, <1>2, <1>6, <1>7, <1>8, <1>9, RegionAsked

\* No command of a new batch is answered.
LEMMA AskedFirst ==
    ASSUME NEW cs \in Seq(Commands), session'.lastPacket = cs, session'.outstanding = Len(cs)
    PROVE  \A i \in 1 .. Len(cs) : Asked(i)' = cs[i]
<1>1. ASSUME NEW i \in 1 .. Len(cs) PROVE Asked(i)' = cs[i]
  <2>1. Len(cs) \in Nat
    OBVIOUS
  <2>2. Len(cs) - Len(cs) + i = i
    BY <2>1
  <2> QED
    BY <2>2 DEF Asked
<1> QED
  BY <1>1

\* A batch of reads is sent for an arena whose regions are all right.
LEMMA PreflightSent ==
    ASSUME SessionInv, InLoop("reply"), session.outstanding = 1,
           session.phase \in {"region", "preflight"},
           \A u \in 0 .. Size[session.index] - 1 : <<session.index, u>> \notin target.unsafe,
           NEW o \in Nat, o < Size[session.index],
           \A u \in 0 .. o - 1 : <<session.index, u>> \notin target.dirty,
           PreflightBatch(o)
    PROVE  SessionInv'
<1> DEFINE r == session.index
           reads == PreflightReads(r, o, session.chunk)
           end == reads[Len(reads)].at + reads[Len(reads)].n
           zeros == [j \in DOMAIN reads |-> "zeros"]
           s == [session EXCEPT !.offset = end, !.regionCursor = Size[r], !.replies = zeros]
<1>1. Continue(s, reads, "preflight")
  BY DEF PreflightBatch
<1>2. session \in Sessions
  BY TypeFacts DEF SessionInv
<1>3. /\ PhaseIsEarned
  <2>1. Live
    <3>1. session.phase \notin {"idle", "complete", "failed"}
      OBVIOUS
    <3>2. call.active = TRUE
      <4>1. call.active /\ call \in Calls
        BY TypeFacts DEF InLoop, SessionInv
      <4> QED
        BY <4>1 DEF Calls
    <3> QED
      BY <3>1, <3>2 DEF SessionInv, CallIsPlaced, Live, Terminal
  <2> QED
    BY <2>1 DEF SessionInv, ProgressIsEarned
<1>4. /\ r \in 1 .. Len(Size) /\ session.chunk \in Chunks /\ target.process = TRUE /\ target.challenge = TRUE
      /\ session.noAck = TRUE /\ session.attached = TRUE /\ session.pendingFailure # TRUE
      /\ \A q \in 1 .. r - 1 : Passed(q)
  BY <1>3 DEF PhaseIsEarned
<1>5. session.chunk \in Nat \ {0} /\ Size[r] \in Nat \ {0}
  BY <1>4, LimitsAssumption, SizeFacts
<1>r. r = session.index
  OBVIOUS
<1> HIDE DEF r
<1>6. /\ reads \in Seq(Commands) /\ Len(reads) \in Nat \ {0}
      /\ \A j \in 1 .. Len(reads) : reads[j].op = "m" /\ reads[j].r = r
      /\ end \in Nat
      /\ \A u \in o .. end - 1 : \E j \in 1 .. Len(reads) : u \in reads[j].at .. reads[j].at + reads[j].n - 1
  <2>1. o < Size[r]
    BY <1>r
  <2> HIDE DEF end
  <2>2. \E e \in Nat : ReadFrom(reads, r, o, e) /\ ReadTo(reads, e)
    BY <1>4, <1>5, <2>1, ReadsCover, Zenon
  <2> HIDE DEF reads
  <2>3. PICK e \in Nat : ReadFrom(reads, r, o, e) /\ ReadTo(reads, e)
    BY <2>2
  <2>4. e = end
    BY <2>3, Zenon DEF ReadTo, end
  <2> QED
    BY <2>3, <2>4 DEF ReadFrom
<1> HIDE DEF reads, end
<1>7. /\ zeros \in Seq({"OK", "zeros"}) /\ Len(zeros) = Len(reads)
      /\ \A j \in 1 .. Len(reads) : zeros[j] = "zeros"
  BY <1>6
<1> HIDE DEF zeros
<1>8. s \in Sessions
  <2>1. Size[r] \in Nat /\ end \in Nat
    BY <1>5, <1>6
  <2> QED
    BY <1>2, <1>7, <2>1, Zenon DEF Sessions
<1>9. /\ s.verdict = session.verdict /\ s.noAck = session.noAck /\ s.chunk = session.chunk
      /\ s.attached = session.attached /\ s.pendingFailure = session.pendingFailure
      /\ s.index = r /\ s.offset = end /\ s.replies = zeros
  BY <1>2, <1>r DEF Sessions
<1> HIDE DEF s
<1>10. \A j \in 1 .. Len(reads) : reads[j] \in Commands
  BY <1>6
<1>11. \A j \in 1 .. Len(reads) : reads[j] \in Harmless /\ reads[j] \in Requests /\ reads[j] \notin Attaches
  BY <1>6, <1>10 DEF Harmless, Requests, Attaches
<1>12. reads \in Seq(Harmless)
  BY <1>6, <1>11
<1>13. Sendable(reads)
  BY <1>6, <1>11, <1>12 DEF Sendable
<1>14. Acknowledgement \o reads \in Seq(Commands) /\ Proceed(Sent(s, reads, "preflight"), Acknowledgement \o reads)
  BY <1>1, <1>6, Collected DEF Continue
<1>15. (session.noAck = TRUE => serverNoAck = TRUE) /\ UNCHANGED <<target, debugger, touched>>
  BY <1>14, RepliesVouch
<1>16. "preflight" \in Working /\ "preflight" \in Phases
  BY DEF Working, Phases
<1>17. CoreInv' /\ session' = Sent(s, reads, "preflight")
  BY <1>1, <1>8, <1>9, <1>13, <1>15, <1>16, BatchStarts
<1>18. /\ SameData(s, session') /\ session'.phase = "preflight" /\ session'.lastPacket = reads
       /\ session'.outstanding = Len(reads)
  BY <1>6, <1>8, <1>16, <1>17, SentShape
<1>19. \A i \in 1 .. Len(reads) : Asked(i)' = reads[i]
  BY <1>6, <1>18, AskedFirst
<1>20. session'.index = r /\ session'.offset = end /\ session'.replies = zeros
  BY <1>9, <1>18 DEF SameData
<1>21. CommandsAreOfPhase'
  <2>1. \A i \in 1 .. session'.outstanding : Asked(i)'.op = "m" /\ Asked(i)'.r = r
    BY <1>6, <1>18, <1>19
  <2>2. \A i \in 1 .. session'.outstanding : session'.replies[i] = "zeros"
    BY <1>7, <1>18, <1>20
  <2>3. Len(session'.replies) = session'.outstanding
    BY <1>7, <1>18, <1>20
  <2>4. \A i \in 1 .. session'.outstanding : Asked(i)'.op \in {"m", "M"} /\ Asked(i)'.op # "M"
    BY <2>1
  <2> QED
    BY <1>18, <1>20, <2>1, <2>2, <2>3, <2>4 DEF CommandsAreOfPhase, OpOf
<1>22. \A q : Passed(q)' <=> Passed(q)
  BY <1>15 DEF Passed
<1>23. ASSUME NEW u \in 0 .. session'.offset - 1
       PROVE  \/ <<session'.index, u>> \notin target'.dirty
              \/ \E i \in 1 .. session'.outstanding : u \in Asked(i)'.at .. Asked(i)'.at + Asked(i)'.n - 1
  <2>1. u \in 0 .. end - 1
    BY <1>20, <1>23
  <2>2. CASE u \in 0 .. o - 1
    BY <1>15, <1>20, <1>r, <2>2
  <2>3. CASE u \in o .. end - 1
    <3>1. PICK j \in 1 .. Len(reads) : u \in reads[j].at .. reads[j].at + reads[j].n - 1
      BY <1>6, <2>3
    <3>2. u \in Asked(j)'.at .. Asked(j)'.at + Asked(j)'.n - 1
      BY <1>19, <3>1
    <3> QED
      BY <1>18, <3>2
  <2>4. u \in 0 .. o - 1 \/ u \in o .. end - 1
    BY <1>6, <2>1
  <2> QED
    BY <2>2, <2>3, <2>4
<1>24. PhaseIsEarned'
  <2>1. \A q \in 1 .. session'.index - 1 : Passed(q)'
    BY <1>4, <1>20, <1>22
  <2>2. session'.index \in 1 .. Len(Size)
    BY <1>4, <1>20
  <2>3. \A u \in 0 .. Size[session'.index] - 1 : <<session'.index, u>> \notin target'.unsafe
    BY <1>15, <1>20, <1>r
  <2>4. /\ session'.noAck = TRUE /\ session'.attached = TRUE /\ session'.pendingFailure # TRUE
        /\ session'.chunk \in Chunks /\ target'.process = TRUE /\ target'.challenge = TRUE
    BY <1>4, <1>9, <1>15, <1>18 DEF SameData
  <2> QED
    BY <1>18, <1>23, <2>1, <2>2, <2>3, <2>4 DEF PhaseIsEarned
<1> QED
  BY <1>17, <1>21, <1>24 DEF CoreInv, SessionInv, ProgressIsEarned

\* The reply at hand answers the first command waited for.
LEMMA HeadVouches ==
    ASSUME SessionInv, InLoop("reply"), ~Unexpected(Head(call.rx))
    PROVE  /\ Live /\ session.outstanding \in 1 .. Len(session.lastPacket)
           /\ Vouched(Asked(1), Head(call.rx)) /\ Head(call.rx) \in Packets
           /\ CommandsAreOfPhase /\ PhaseIsEarned /\ session.verdict = "none" /\ session.phase \in Working
           /\ session.noAck = TRUE => serverNoAck = TRUE
           /\ UNCHANGED <<target, debugger, touched>>
<1>1. call.active /\ call.rx # <<>> /\ Head(call.rx).kind = "reply" /\ call.answerable # 0
  BY DEF InLoop, Unexpected
<1>2. Live /\ session.verdict = "none"
  BY <1>1, CallsAreLive
<1>3. TypeOK /\ TokensMatch
  BY DEF SessionInv
<1>4. call.rx \in Seq(Packets) /\ toClient \in Seq(Packets)
  BY <1>3, TypeFacts
<1> DEFINE h == Head(call.rx)
           c == Kept(Tail(call.rx), Returns)
           e == Kept(call.rx, Returns)
           d == Kept(toClient, Returns)
<1>5. h \in Packets /\ Tail(call.rx) \in Seq(Packets) /\ e = (IF h \in Returns THEN <<h>> ELSE <<>>) \o c
  <2> DEFINE q == call.rx
  <2>1. q \in Seq(Packets) /\ q # <<>>
    BY <1>1, <1>4
  <2> HIDE DEF q
  <2>2. /\ Tail(q) \in Seq(Packets) /\ Head(q) \in Packets
        /\ Kept(q, Returns) = (IF Head(q) \in Returns THEN <<Head(q)>> ELSE <<>>) \o Kept(Tail(q), Returns)
    BY <2>1, KeptHead
  <2> QED
    BY <2>2 DEF q
<1>6. h \in Returns
  BY <1>1, <1>5 DEF Returns
<1>7. c \in Seq(Packets) /\ d \in Seq(Packets) /\ Cat(Coming, e, d)
  BY <1>3, <1>4, <1>5, KeptType, StreamFacts
<1> HIDE DEF h, c, e, d
<1>8. Cat(e, <<h>>, c)
  BY <1>5, <1>6 DEF Cat
<1>9. e \in Seq(Packets) /\ Len(e) \in Nat /\ Len(e) >= 1 /\ e[1] = h
  BY <1>5, <1>7, <1>8 DEF Cat
<1>10. Len(Coming) >= 1 /\ Coming[1] = h /\ Len(Coming) \in Nat
  <2>1. Len(d) \in Nat
    BY <1>7
  <2>2. Len(Coming) = Len(e) + Len(d) /\ \A i \in 1 .. Len(e) + Len(d) : Coming[i] = IF i <= Len(e) THEN e[i] ELSE d[i - Len(e)]
    BY <1>7, <1>9, CatAt
  <2> QED
    BY <1>9, <2>1, <2>2
<1>11. /\ session.outstanding \in 1 .. Len(session.lastPacket) /\ Returned(Asked(1), Coming[1])
       /\ session.noAck = TRUE => serverNoAck = TRUE
  BY <1>2, <1>3, <1>10 DEF TokensMatch
<1>12. Vouched(Asked(1), Head(call.rx))
  BY <1>1, <1>10, <1>11 DEF Returned, h
<1>13. session.phase \in Working
  <2>1. session.phase \in Phases /\ session.phase # "idle"
    BY <1>2, <1>3, TypeFacts DEF SessionInv, CallIsPlaced, Live
  <2> QED
    BY <1>2, <2>1 DEF Live, Terminal, Working
<1>14. CommandsAreOfPhase /\ PhaseIsEarned
  BY <1>2 DEF SessionInv, ProgressIsEarned
<1>15. UNCHANGED <<target, debugger, touched>>
  BY DEF InLoop, serverVars
<1> QED
  BY <1>2, <1>5, <1>11, <1>12, <1>13, <1>14, <1>15 DEF h

LEMMA ReplyRegionKeeps == ASSUME SessionInv, ReplyRegion PROVE SessionInv'
<1> DEFINE r == session.index
           value == Head(call.rx).value
           end == Lesser(value, Size[r])
<1>1. /\ InLoop("reply") /\ session.phase = "region" /\ Head(call.rx).text = "region"
      /\ IF end < Size[r] THEN AskRegion(r, end) ELSE PreflightBatch(0)
  BY DEF ReplyRegion, Accepted, Expected
<1>2. ~Unexpected(Head(call.rx))
  BY <1>1 DEF AskRegion, PreflightBatch, Continue, Proceed
<1>3. /\ session.outstanding \in 1 .. Len(session.lastPacket) /\ CommandsAreOfPhase /\ PhaseIsEarned
      /\ Vouched(Asked(1), Head(call.rx)) /\ Head(call.rx) \in Packets
  BY <1>1, <1>2, HeadVouches
<1>4. session.outstanding = 1 /\ Asked(1) = Command("qMemoryRegionInfo", r, session.regionCursor, 0)
  BY <1>1, <1>3, OneCommand
<1>5. value > session.regionCursor /\ \A u \in session.regionCursor .. value - 1 : <<r, u>> \notin target.unsafe
  BY <1>1, <1>3, <1>4 DEF Vouched, Command
<1>6. value \in Nat
  BY <1>3 DEF Packets
<1>7. /\ target.challenge = TRUE /\ r \in 1 .. Len(Size) /\ \A q \in 1 .. r - 1 : Passed(q)
      /\ session.regionCursor < Size[r]
      /\ \A u \in 0 .. session.regionCursor - 1 : <<r, u>> \notin target.unsafe
  BY <1>1, <1>3 DEF PhaseIsEarned
<1>8. session.regionCursor \in Nat /\ Size[r] \in Nat \ {0}
  BY <1>7, SizeFacts, TypeFacts DEF SessionInv, Sessions
<1> HIDE DEF value
<1>9. end \in Nat /\ end <= value /\ end <= Size[r]
  BY <1>6, <1>8 DEF Lesser
<1> HIDE DEF end
<1>10. ASSUME NEW u \in 0 .. end - 1 PROVE <<r, u>> \notin target.unsafe
  <2>1. u \in 0 .. session.regionCursor - 1 \/ u \in session.regionCursor .. value - 1
    BY <1>6, <1>8, <1>9, <1>10
  <2> QED
    BY <1>5, <1>7, <2>1
<1>r. r = session.index
  OBVIOUS
<1> HIDE DEF r
<1>11. CASE end < Size[r]
  <2>1. AskRegion(r, end)
    BY <1>1, <1>11
  <2> QED
    BY <1>1, <1>4, <1>7, <1>9, <1>10, <1>11, <2>1, RegionAsked
<1>12. CASE ~(end < Size[r])
  <2>1. PreflightBatch(0) /\ end = Size[r]
    BY <1>1, <1>8, <1>9, <1>12
  <2>2. \A u \in 0 .. 0 - 1 : FALSE
    OBVIOUS
  <2>3. \A u \in 0 .. Size[session.index] - 1 : <<session.index, u>> \notin target.unsafe
    BY <1>10, <1>r, <2>1
  <2>4. 0 < Size[session.index] /\ 0 \in Nat
    BY <1>8, <1>r
  <2> QED
    BY <1>1, <1>4, <2>1, <2>2, <2>3, <2>4, PreflightSent
<1> QED
  BY <1>11, <1>12

\* After the last reply of a preflight batch everything it read is zero.
LEMMA PreflightAnswered ==
    ASSUME SessionInv, Accepted("preflight"), session.outstanding = 1, ~Unexpected(Head(call.rx))
    PROVE  /\ PhaseIsEarned /\ session.index \in 1 .. Len(Size) /\ session.offset \in Nat
           /\ \A u \in 0 .. session.offset - 1 : <<session.index, u>> \notin target.dirty
           /\ \A u \in 0 .. Size[session.index] - 1 : <<session.index, u>> \notin target.unsafe
<1>1. InLoop("reply") /\ session.phase = "preflight" /\ Head(call.rx).text = Expected
  BY DEF Accepted
<1>2. CommandsAreOfPhase /\ PhaseIsEarned /\ Vouched(Asked(1), Head(call.rx))
  BY <1>1, HeadVouches
<1>3. Len(session.replies) = 1 /\ Asked(1).op = "m" /\ Asked(1).r = session.index /\ session.replies[1] = "zeros"
  BY <1>1, <1>2 DEF CommandsAreOfPhase
<1>4. Head(call.rx).text = "zeros"
  <2>1. session.replies # <<>> /\ Head(session.replies) = session.replies[1]
    <3>1. session.replies \in Seq({"OK", "zeros"})
      BY TypeFacts DEF SessionInv, Sessions
    <3> QED
      BY <1>3, <3>1
  <2>2. Expected = Head(session.replies)
    BY <1>1, <2>1 DEF Expected
  <2> QED
    BY <1>1, <1>3, <2>1, <2>2
<1>5. \A u \in Asked(1).at .. Asked(1).at + Asked(1).n - 1 : <<session.index, u>> \notin target.dirty
  BY <1>2, <1>3, <1>4 DEF Vouched
<1>6. ASSUME NEW u \in 0 .. session.offset - 1 PROVE <<session.index, u>> \notin target.dirty
  <2>1. \/ <<session.index, u>> \notin target.dirty
        \/ \E i \in 1 .. session.outstanding : u \in Asked(i).at .. Asked(i).at + Asked(i).n - 1
    BY <1>1, <1>2 DEF PhaseIsEarned
  <2>2. \A i \in 1 .. session.outstanding : i = 1
    OBVIOUS
  <2> QED
    BY <1>5, <2>1, <2>2
<1>7. session.offset \in Nat
  BY TypeFacts DEF SessionInv, Sessions
<1> QED
  BY <1>1, <1>2, <1>6, <1>7 DEF PhaseIsEarned

-----------------------------------------------------------------------------
(* The pages, in the order of preparation.                                 *)

LEMMA PageShape ==
    /\ \A u \in Pages : /\ u = <<u[1], u[2]>> /\ u[1] \in 1 .. Len(Size)
                        /\ u[2] \in 0 .. Size[u[1]] - 1 /\ u[2] \in Nat /\ u[2] % Page = 0
    /\ \A r \in 1 .. Len(Size) : \A o \in 0 .. Size[r] - 1 : o % Page = 0 => <<r, o>> \in Pages
<1>1. DOMAIN Size = 1 .. Len(Size) /\ \A r \in 1 .. Len(Size) : Size[r] \in Nat
  BY SizeFacts
<1>2. ASSUME NEW u \in Pages
      PROVE  /\ u = <<u[1], u[2]>> /\ u[1] \in 1 .. Len(Size)
             /\ u[2] \in 0 .. Size[u[1]] - 1 /\ u[2] \in Nat /\ u[2] % Page = 0
  <2>1. u \in Units /\ u[2] % Page = 0
    BY DEF Pages
  <2>2. PICK r \in 1 .. Len(Size) : u \in {r} \X (0 .. Size[r] - 1)
    BY <1>1, <2>1 DEF Units
  <2>3. u = <<u[1], u[2]>> /\ u[1] = r /\ u[2] \in 0 .. Size[r] - 1
    BY <2>2
  <2>4. u[2] \in Nat
    BY <1>1, <2>2, <2>3
  <2> QED
    BY <2>1, <2>3, <2>4
<1>3. ASSUME NEW r \in 1 .. Len(Size), NEW o \in 0 .. Size[r] - 1, o % Page = 0 PROVE <<r, o>> \in Pages
  <2>1. <<r, o>> \in {r} \X (0 .. Size[r] - 1)
    OBVIOUS
  <2>2. <<r, o>> \in Units
    BY <1>1, <2>1 DEF Units
  <2> QED
    BY <1>3, <2>2 DEF Pages
<1> QED
  BY <1>2, <1>3

LEMMA Multiples ==
    ASSUME NEW a \in Nat, NEW b \in Nat, NEW p \in Nat \ {0}, a % p = 0, b % p = 0, a < b
    PROVE  a + p <= b
<1> DEFINE i == a \div p
           j == b \div p
<1>1. i \in Nat /\ j \in Nat /\ a = i * p /\ b = j * p
  OBVIOUS
<1> HIDE DEF i, j
<1>2. i + 1 <= j
  <2>1. SUFFICES ASSUME j <= i PROVE FALSE
    BY <1>1
  <2> QED
    BY <1>1, <2>1, ProductGrows
<1>3. (i + 1) * p <= j * p
  BY <1>1, <1>2, ProductGrows
<1>4. (i + 1) * p = i * p + p
  BY <1>1
<1> QED
  BY <1>1, <1>3, <1>4

LEMMA NextMultiple ==
    ASSUME NEW a \in Nat, NEW p \in Nat \ {0}, a % p = 0
    PROVE  (a + p) % p = 0
<1> DEFINE i == a \div p
           j == (a + p) \div p
           m == (a + p) % p
<1>1. i \in Nat /\ j \in Nat /\ m \in Nat /\ a = i * p /\ a + p = j * p + m /\ m < p
  OBVIOUS
<1> HIDE DEF i, j, m
<1>2. (i + 1) * p = a + p /\ (j + 1) * p = j * p + p
  BY <1>1
<1>3. j <= i + 1
  <2>1. SUFFICES ASSUME i + 2 <= j PROVE FALSE
    BY <1>1
  <2>2. (i + 2) * p <= j * p
    BY <1>1, <2>1, ProductGrows
  <2>3. (i + 2) * p = i * p + p + p
    BY <1>1
  <2> QED
    BY <1>1, <2>2, <2>3
<1>4. i + 1 <= j
  <2>1. SUFFICES ASSUME j + 1 <= i + 1 PROVE FALSE
    BY <1>1
  <2>2. (j + 1) * p <= (i + 1) * p
    BY <1>1, <2>1, ProductGrows
  <2> QED
    BY <1>1, <1>2, <2>2
<1>5. j = i + 1
  BY <1>1, <1>3, <1>4
<1>6. m = 0
  BY <1>1, <1>2, <1>5
<1> QED
  BY <1>6 DEF m

LEMMA FirstPage == <<1, 0>> \in Pages /\ Before(<<1, 0>>) = {}
<1>1. 1 \in 1 .. Len(Size) /\ 0 \in 0 .. Size[1] - 1 /\ Page \in Nat \ {0}
  BY SizeFacts
<1>2. 0 % Page = 0
  BY <1>1
<1>3. <<1, 0>> \in Pages
  BY <1>1, <1>2, PageShape
<1>4. ASSUME NEW u \in Before(<<1, 0>>) PROVE FALSE
  <2>1. u \in Pages /\ (u[1] < 1 \/ (u[1] = 1 /\ u[2] < 0))
    BY DEF Before
  <2>2. u[1] \in 1 .. Len(Size) /\ u[2] \in Nat
    BY <2>1, PageShape
  <2> QED
    BY <2>1, <2>2
<1> QED
  BY <1>3, <1>4

\* A position is a page or the end.
LEMMA PositionFacts ==
    ASSUME NEW p \in Positions
    PROVE  /\ p[1] \in Nat /\ p[2] \in Nat /\ p[1] <= Len(Size) + 1 /\ p[1] >= 1
           /\ p \in Pages <=> p[1] <= Len(Size)
           /\ p \notin Pages => p = <<Len(Size) + 1, 0>>
           /\ p = <<p[1], p[2]>>
<1>1. Len(Size) \in Nat
  BY SizeFacts
<1>2. CASE p \in Pages
  <2>1. p = <<p[1], p[2]>> /\ p[1] \in 1 .. Len(Size) /\ p[2] \in Nat
    BY <1>2, PageShape
  <2> QED
    BY <1>1, <1>2, <2>1
<1>3. CASE p = <<Len(Size) + 1, 0>>
  <2>1. p[1] = Len(Size) + 1 /\ p[2] = 0
    BY <1>3
  <2>2. p \notin Pages
    <3>1. p \in Pages => p[1] \in 1 .. Len(Size)
      BY PageShape
    <3> QED
      BY <1>1, <2>1, <3>1
  <2> QED
    BY <1>1, <1>3, <2>1, <2>2
<1> QED
  BY <1>2, <1>3 DEF Positions

\* Between a page and the one after it there is nothing.
LEMMA PageAfterFacts ==
    ASSUME NEW p \in Pages
    PROVE  /\ PageAfter(p) \in Positions
           /\ \A u \in Before(PageAfter(p)) : u \in Before(p) \/ u = p
<1> DEFINE r == p[1]
           o == p[2]
<1>1. p = <<r, o>> /\ r \in 1 .. Len(Size) /\ o \in Nat /\ o < Size[r] /\ o % Page = 0
  BY PageShape, SizeFacts
<1>2. /\ Len(Size) \in Nat \ {0} /\ Page \in Nat \ {0} /\ Size[r] \in Nat \ {0} /\ Size[r] % Page = 0
  BY <1>1, SizeFacts
<1> HIDE DEF r, o
<1>3. o + Page <= Size[r] /\ (o + Page) % Page = 0
  BY <1>1, <1>2, Multiples, NextMultiple
<1>4. ASSUME NEW u \in Pages PROVE u[1] \in 1 .. Len(Size) /\ u[2] \in Nat /\ u = <<u[1], u[2]>> /\ (u[1] = r /\ o < u[2] => o + Page <= u[2])
  <2>1. u = <<u[1], u[2]>> /\ u[1] \in 1 .. Len(Size) /\ u[2] \in Nat /\ u[2] % Page = 0
    BY PageShape
  <2>2. ASSUME o < u[2] PROVE o + Page <= u[2]
    BY <1>1, <1>2, <2>1, <2>2, Multiples
  <2> QED
    BY <2>1, <2>2
<1>5. \A u : u \in Before(p) <=> u \in Pages /\ (u[1] < r \/ (u[1] = r /\ u[2] < o))
  BY DEF Before, r, o
<1>6. CASE o + Page = Size[r]
  <2>1. PageAfter(p) = <<r + 1, 0>>
    BY <1>1, <1>6 DEF PageAfter
  <2>2. <<r + 1, 0>> \in Positions
    <3>1. CASE r = Len(Size)
      BY <3>1 DEF Positions
    <3>2. CASE r # Len(Size)
      <4>1. r + 1 \in 1 .. Len(Size)
        BY <1>1, <1>2, <3>2
      <4>2. 0 \in 0 .. Size[r + 1] - 1 /\ 0 % Page = 0
        BY <1>2, <4>1, SizeFacts
      <4> QED
        BY <4>1, <4>2, PageShape DEF Positions
    <3> QED
      BY <3>1, <3>2
  <2>3. ASSUME NEW u \in Before(<<r + 1, 0>>) PROVE u \in Before(p) \/ u = p
    <3>1. u \in Pages /\ (u[1] < r + 1 \/ (u[1] = r + 1 /\ u[2] < 0))
      BY <2>3 DEF Before
    <3>2. u[1] \in 1 .. Len(Size) /\ u[2] \in Nat /\ u[2] < Size[u[1]]
      BY <3>1, PageShape, SizeFacts
    <3>3. u[1] < r \/ (u[1] = r /\ u[2] < o) \/ (u[1] = r /\ u[2] = o)
      <4>1. u[1] = r /\ o < u[2] => o + Page <= u[2]
        BY <1>4, <3>1
      <4>2. u[1] <= r
        BY <1>1, <1>2, <3>1, <3>2
      <4>3. u[1] = r => u[2] < o + Page
        BY <1>6, <3>2
      <4>4. u[1] = r => u[2] <= o
        BY <1>1, <1>2, <3>2, <4>1, <4>3
      <4> QED
        BY <1>1, <3>2, <4>2, <4>4
    <3>4. u = <<u[1], u[2]>>
      BY <1>4, <3>1
    <3> QED
      BY <1>1, <1>5, <3>1, <3>3, <3>4
  <2> QED
    BY <2>1, <2>2, <2>3
<1>7. CASE o + Page # Size[r]
  <2>1. PageAfter(p) = <<r, o + Page>>
    BY <1>1, <1>7 DEF PageAfter
  <2>2. <<r, o + Page>> \in Positions
    <3>1. o + Page \in 0 .. Size[r] - 1
      BY <1>1, <1>2, <1>3, <1>7
    <3> QED
      BY <1>1, <1>3, <3>1, PageShape DEF Positions
  <2>3. ASSUME NEW u \in Before(<<r, o + Page>>) PROVE u \in Before(p) \/ u = p
    <3>1. u \in Pages /\ (u[1] < r \/ (u[1] = r /\ u[2] < o + Page))
      BY <2>3 DEF Before
    <3>2. u[1] \in 1 .. Len(Size) /\ u[2] \in Nat /\ u = <<u[1], u[2]>>
      BY <1>4, <3>1
    <3>3. u[1] < r \/ (u[1] = r /\ u[2] < o) \/ (u[1] = r /\ u[2] = o)
      BY <1>1, <1>2, <1>4, <3>1, <3>2
    <3> QED
      BY <1>1, <1>5, <3>1, <3>2, <3>3
  <2> QED
    BY <2>1, <2>2, <2>3
<1> QED
  BY <1>6, <1>7

\* Arenas that all passed make the target clean.
LEMMA EverythingPassed ==
    ASSUME TypeOK, target.process = TRUE, target.challenge = TRUE,
           \A r \in 1 .. Len(Size) : Passed(r)
    PROVE  Clean
<1>1. target.dirty \subseteq Units /\ target.unsafe \subseteq Units
  BY TargetsAssumption DEF TypeOK
<1>2. ASSUME NEW u \in Units PROVE u \notin target.dirty /\ u \notin target.unsafe
  <2>1. PICK r \in 1 .. Len(Size) : u \in {r} \X (0 .. Size[r] - 1)
    BY SizeFacts DEF Units
  <2>2. u = <<r, u[2]>> /\ u[2] \in 0 .. Size[r] - 1
    BY <2>1
  <2> QED
    BY <2>2 DEF Passed
<1> QED
  BY <1>1, <1>2 DEF Clean

\* The function PagesFrom defines by recursion.
Steps(page, m, f) ==
    f = [k \in 0 .. m |-> IF k = 0 THEN page
                          ELSE IF f[k - 1][1] > Len(Size) THEN f[k - 1] ELSE PageAfter(f[k - 1])]

LEMMA StepsExist == ASSUME NEW page PROVE \A m \in Nat : \E f : Steps(page, m, f)
<1> DEFINE After(p) == IF p[1] > Len(Size) THEN p ELSE PageAfter(p)
           N == {m \in Nat : \E f : Steps(page, m, f)}
<1>0. \A m, f : Steps(page, m, f) <=> f = [k \in 0 .. m |-> IF k = 0 THEN page ELSE After(f[k - 1])]
  BY DEF Steps
<1> HIDE DEF After
<1>1. 0 \in N
  <2> DEFINE f == [k \in 0 .. 0 |-> page]
  <2>1. f = [k \in 0 .. 0 |-> IF k = 0 THEN page ELSE After(f[k - 1])]
    OBVIOUS
  <2> HIDE DEF f
  <2> QED
    BY <1>0, <2>1
<1>2. ASSUME NEW m \in Nat, m \in N PROVE m + 1 \in N
  <2>1. PICK f : f = [k \in 0 .. m |-> IF k = 0 THEN page ELSE After(f[k - 1])]
    BY <1>0, <1>2
  <2> DEFINE g == [k \in 0 .. m + 1 |-> IF k = m + 1 THEN After(f[m]) ELSE f[k]]
  <2>2. \A k \in 0 .. m : g[k] = f[k]
    OBVIOUS
  <2>3. ASSUME NEW k \in 0 .. m + 1
        PROVE  g[k] = IF k = 0 THEN page ELSE After(g[k - 1])
    <3>1. CASE k = m + 1
      <4>1. g[k] = After(f[m]) /\ k # 0 /\ k - 1 = m /\ m \in 0 .. m
        BY <3>1
      <4>2. g[k - 1] = f[m]
        BY <2>2, <4>1
      <4> HIDE DEF g
      <4> QED
        BY <4>1, <4>2
    <3>2. CASE k \in 0 .. m
      <4>1. g[k] = f[k] /\ (k # 0 => g[k - 1] = f[k - 1])
        BY <2>2, <3>2
      <4> HIDE DEF g
      <4>2. f[k] = IF k = 0 THEN page ELSE After(f[k - 1])
        BY <2>1, <3>2, Zenon
      <4> QED
        BY <4>1, <4>2
    <3> QED
      BY <3>1, <3>2
  <2>4. g = [k \in 0 .. m + 1 |-> g[k]]
    OBVIOUS
  <2> HIDE DEF g
  <2>5. g = [k \in 0 .. m + 1 |-> IF k = 0 THEN page ELSE After(g[k - 1])]
    BY <2>3, <2>4
  <2>6. Steps(page, m + 1, g)
    BY <1>0, <2>5, Zenon
  <2> QED
    BY <2>6
<1>3. Nat \subseteq N
  <2> HIDE DEF N
  <2> QED
    BY <1>1, <1>2, SetInduction
<1> QED
  BY <1>3

\* One page after the other, until the last page of the last arena.
Walks(page, f) ==
    /\ f[0] = page
    /\ \A k \in 1 .. PagesPerBatch :
          f[k] = IF f[k - 1][1] > Len(Size) THEN f[k - 1] ELSE PageAfter(f[k - 1])

LEMMA PagesWalk == ASSUME NEW page PROVE Walks(page, PagesFrom(page))
<1> DEFINE f == CHOOSE f : Steps(page, PagesPerBatch, f)
<1>1. PagesFrom(page) = f
  BY DEF PagesFrom, Steps
<1>2. PagesPerBatch \in Nat
  BY LimitsAssumption
<1>3. Steps(page, PagesPerBatch, f)
  BY <1>2, StepsExist
<1> HIDE DEF f
<1>4. f[0] = page
  BY <1>2, <1>3 DEF Steps
<1>5. ASSUME NEW k \in 1 .. PagesPerBatch
      PROVE  f[k] = IF f[k - 1][1] > Len(Size) THEN f[k - 1] ELSE PageAfter(f[k - 1])
  <2>1. k \in 0 .. PagesPerBatch /\ k # 0
    BY <1>2
  <2> QED
    BY <1>3, <2>1, Zenon DEF Steps
<1> QED
  BY <1>1, <1>4, <1>5 DEF Walks

\* The first m positions of a walk of k steps are pages, the others its end.
Reaches(page, f, k, m) ==
    /\ f[k] \in Positions
    /\ \A j \in 0 .. k - 1 : f[j] \in Positions /\ (f[j] \in Pages <=> j < m)
    /\ m < k => f[k] \notin Pages
    /\ \A u \in Before(f[k]) : u \in Before(page) \/ \E j \in 0 .. m - 1 : u = f[j]

LEMMA WalkReaches ==
    ASSUME NEW page \in Pages, NEW f, Walks(page, f)
    PROVE  \A k \in Nat : k <= PagesPerBatch => \E m \in 0 .. k : Reaches(page, f, k, m)
<1> DEFINE N == {k \in Nat : k <= PagesPerBatch => \E m \in 0 .. k : Reaches(page, f, k, m)}
<1>0. PagesPerBatch \in Nat \ {0}
  BY LimitsAssumption
<1>1. 0 \in N
  <2>1. f[0] = page /\ page \in Positions
    BY DEF Walks, Positions
  <2>2. Reaches(page, f, 0, 0)
    BY <2>1 DEF Reaches
  <2> QED
    BY <2>2
<1>2. ASSUME NEW k \in Nat, k \in N PROVE k + 1 \in N
  <2> SUFFICES ASSUME k + 1 <= PagesPerBatch PROVE \E m \in 0 .. k + 1 : Reaches(page, f, k + 1, m)
    OBVIOUS
  <2>1. PICK m \in 0 .. k : Reaches(page, f, k, m)
    BY <1>0, <1>2
  <2> DEFINE p == f[k]
             q == f[k + 1]
  <2>2. q = IF p[1] > Len(Size) THEN p ELSE PageAfter(p)
    <3>1. k + 1 \in 1 .. PagesPerBatch /\ (k + 1) - 1 = k
      BY <1>0
    <3>2. f[k + 1] = IF f[(k + 1) - 1][1] > Len(Size) THEN f[(k + 1) - 1] ELSE PageAfter(f[(k + 1) - 1])
      BY <3>1, Zenon DEF Walks
    <3> QED
      BY <3>1, <3>2
  <2>p. p = f[k] /\ q = f[k + 1]
    OBVIOUS
  <2> HIDE DEF p, q
  <2>3. p \in Positions /\ Len(Size) \in Nat
    BY <2>1, <2>p, SizeFacts DEF Reaches
  <2>4. (p \in Pages <=> p[1] <= Len(Size)) /\ p[1] \in Nat
    BY <2>3, PositionFacts
  <2>5. \A j \in 0 .. (k + 1) - 1 : j \in 0 .. k - 1 \/ j = k
    OBVIOUS
  <2>6. CASE p \in Pages
    <3>1. q = PageAfter(p)
      BY <2>2, <2>3, <2>4, <2>6
    <3>2. q \in Positions /\ \A u \in Before(q) : u \in Before(p) \/ u = p
      BY <2>6, <3>1, PageAfterFacts
    <3>3. m = k
      BY <2>1, <2>6, <2>p DEF Reaches
    <3>4. \A j \in 0 .. (k + 1) - 1 : f[j] \in Positions /\ (f[j] \in Pages <=> j < k + 1)
      BY <2>1, <2>3, <2>5, <2>6, <2>p, <3>3 DEF Reaches
    <3>5. ASSUME NEW u \in Before(q) PROVE u \in Before(page) \/ \E j \in 0 .. (k + 1) - 1 : u = f[j]
      <4>1. CASE u = p
        BY <2>p, <4>1
      <4>2. CASE u \in Before(p)
        <5>1. u \in Before(page) \/ \E j \in 0 .. m - 1 : u = f[j]
          BY <2>1, <2>p, <4>2 DEF Reaches
        <5>2. \A j \in 0 .. m - 1 : j \in 0 .. (k + 1) - 1
          BY <3>3
        <5> QED
          BY <5>1, <5>2
      <4> QED
        BY <3>2, <4>1, <4>2
    <3>6. Reaches(page, f, k + 1, k + 1)
      BY <2>p, <3>2, <3>4, <3>5 DEF Reaches
    <3> QED
      BY <3>6
  <2>7. CASE p \notin Pages
    <3>1. q = p
      BY <2>2, <2>3, <2>4, <2>7
    <3>2. \A j \in 0 .. (k + 1) - 1 : f[j] \in Positions /\ (f[j] \in Pages <=> j < m)
      BY <2>1, <2>3, <2>5, <2>7, <2>p DEF Reaches
    <3>3. \A u \in Before(q) : u \in Before(page) \/ \E j \in 0 .. m - 1 : u = f[j]
      BY <2>1, <2>p, <3>1 DEF Reaches
    <3>4. Reaches(page, f, k + 1, m)
      BY <2>3, <2>7, <2>p, <3>1, <3>2, <3>3 DEF Reaches
    <3>5. m \in 0 .. k + 1
      OBVIOUS
    <3> QED
      BY <3>4, <3>5
  <2> QED
    BY <2>6, <2>7
<1>3. Nat \subseteq N
  <2> HIDE DEF N
  <2> QED
    BY <1>1, <1>2, SetInduction
<1> QED
  BY <1>3

\* The pages of a batch are all that lie between its start and the next one's.
PagesBetween(pages, page, next) ==
    /\ pages \in Seq(Pages) /\ Len(pages) \in Nat \ {0} /\ next \in Positions
    /\ \A u \in Before(next) : u \in Before(page) \/ \E j \in 1 .. Len(pages) : u = pages[j]

LEMMA BatchOfPages ==
    ASSUME NEW page \in Pages
    PROVE  PagesBetween(PreparePages(page), page, PagesFrom(page)[PagesPerBatch])
<1> DEFINE f == PagesFrom(page)
           count == Cardinality({k \in 0 .. PagesPerBatch - 1 : f[k][1] <= Len(Size)})
           pages == [k \in 1 .. count |-> f[k - 1]]
<1>0. PagesPerBatch \in Nat \ {0} /\ Len(Size) \in Nat
  BY LimitsAssumption, SizeFacts
<1>1. Walks(page, f)
  BY PagesWalk
<1>2. PreparePages(page) = pages
  BY DEF PreparePages
<1> HIDE DEF f
<1>3. PICK m \in 0 .. PagesPerBatch : Reaches(page, f, PagesPerBatch, m)
  BY <1>0, <1>1, WalkReaches
<1>4. count = m
  <2>1. {k \in 0 .. PagesPerBatch - 1 : f[k][1] <= Len(Size)} = 0 .. m - 1
    <3>1. ASSUME NEW k \in 0 .. PagesPerBatch - 1 PROVE f[k][1] <= Len(Size) <=> k \in 0 .. m - 1
      <4>1. f[k] \in Positions /\ (f[k] \in Pages <=> k < m)
        BY <1>3 DEF Reaches
      <4>2. f[k] \in Pages <=> f[k][1] <= Len(Size)
        BY <4>1, PositionFacts
      <4> QED
        BY <1>0, <4>1, <4>2
    <3>2. \A k \in 0 .. m - 1 : k \in 0 .. PagesPerBatch - 1
      BY <1>0
    <3> QED
      BY <3>1, <3>2
  <2>2. Cardinality(0 .. m - 1) = m
    <3>1. 0 \in Int /\ m - 1 \in Int
      OBVIOUS
    <3>2. Cardinality(0 .. m - 1) = IF 0 > m - 1 THEN 0 ELSE (m - 1) - 0 + 1
      BY <3>1, FS_Interval
    <3> QED
      BY <3>2
  <2> QED
    BY <2>1, <2>2
<1> HIDE DEF count
<1>5. m # 0
  <2>1. f[0] \in Pages
    BY <1>1 DEF Walks
  <2>2. 0 \in 0 .. PagesPerBatch - 1
    BY <1>0
  <2> QED
    BY <1>3, <2>1, <2>2 DEF Reaches
<1>6. \A k \in 1 .. m : f[k - 1] \in Pages
  <2>1. \A k \in 1 .. m : k - 1 \in 0 .. PagesPerBatch - 1 /\ k - 1 < m
    BY <1>0
  <2> QED
    BY <1>3, <2>1 DEF Reaches
<1>7. /\ pages \in Seq(Pages) /\ Len(pages) = m /\ \A k \in 1 .. m : pages[k] = f[k - 1]
  <2>1. pages \in [1 .. m -> Pages] /\ Len(pages) = m /\ \A k \in 1 .. m : pages[k] = f[k - 1]
    BY <1>4, <1>6
  <2> HIDE DEF pages
  <2>2. pages \in Seq(Pages)
    BY <2>1, SeqDef
  <2> QED
    BY <2>1, <2>2
<1> HIDE DEF pages
<1>8. ASSUME NEW u \in Before(f[PagesPerBatch])
      PROVE  u \in Before(page) \/ \E j \in 1 .. Len(pages) : u = pages[j]
  <2>1. CASE u \in Before(page)
    BY <2>1
  <2>2. CASE \E j \in 0 .. m - 1 : u = f[j]
    <3>1. PICK j \in 0 .. m - 1 : u = f[j]
      BY <2>2
    <3>2. j + 1 \in 1 .. m /\ (j + 1) - 1 = j
      OBVIOUS
    <3>3. u = pages[j + 1]
      BY <1>7, <3>1, <3>2
    <3> QED
      BY <1>7, <3>2, <3>3
  <2> QED
    BY <1>3, <2>1, <2>2 DEF Reaches
<1>9. f[PagesPerBatch] \in Positions
  BY <1>3 DEF Reaches
<1>10. PagesBetween(pages, page, f[PagesPerBatch])
  BY <1>5, <1>7, <1>8, <1>9 DEF PagesBetween
<1> QED
  BY <1>2, <1>10 DEF f

-----------------------------------------------------------------------------
(* The pages are written and read back.                                    *)

\* A batch writes each of its pages and reads it back.
WritesBack(cmds, replies, pages) ==
    /\ cmds \in Seq(Commands) /\ Len(cmds) \in Nat \ {0} /\ Len(replies) = Len(cmds)
    /\ replies \in Seq({"OK", "zeros"})
    /\ \A i \in 1 .. Len(cmds) : /\ cmds[i].op \in {"m", "M"} /\ <<cmds[i].r, cmds[i].at>> \in Pages
                                 /\ replies[i] = IF cmds[i].op = "M" THEN "OK" ELSE "zeros"
    /\ cmds[Len(cmds)].op = "m"
    /\ \A j \in 1 .. Len(pages) : \E i \in 1 .. Len(cmds) :
          cmds[i].op = "M" /\ <<cmds[i].r, cmds[i].at>> = pages[j]

LEMMA BatchWritesBack ==
    ASSUME NEW pages \in Seq(Pages), Len(pages) \in Nat \ {0}
    PROVE  WritesBack(PrepareCommands(pages), PrepareReplies(pages), pages)
<1> DEFINE n == Len(pages)
           page(j) == pages[(j + 1) \div 2]
           op(j) == IF j % 2 = 1 THEN "M" ELSE "m"
           cmds == [j \in 1 .. 2 * n |-> Command(op(j), page(j)[1], page(j)[2], 1)]
           replies == [j \in 1 .. 2 * n |-> IF j % 2 = 1 THEN "OK" ELSE "zeros"]
<1>1. cmds = PrepareCommands(pages) /\ replies = PrepareReplies(pages)
  BY DEF PrepareCommands, PrepareReplies
<1>2. n \in Nat \ {0} /\ Len(Size) \in Nat
  BY SizeFacts
<1>n. n = Len(pages)
  OBVIOUS
<1> HIDE DEF n
<1>3. ASSUME NEW j \in 1 .. 2 * n
      PROVE  /\ page(j) \in Pages /\ cmds[j] \in Commands /\ cmds[j].op = op(j)
             /\ cmds[j].r = page(j)[1] /\ cmds[j].at = page(j)[2]
             /\ replies[j] = IF op(j) = "M" THEN "OK" ELSE "zeros"
             /\ op(j) \in {"m", "M"}
  <2>1. (j + 1) \div 2 \in 1 .. n
    BY <1>2
  <2>2. page(j) \in Pages
    BY <1>n, <2>1
  <2>3. page(j)[1] \in 1 .. Len(Size) /\ page(j)[2] \in Nat
    BY <2>2, PageShape
  <2>4. cmds[j] = Command(op(j), page(j)[1], page(j)[2], 1)
    BY <1>3
  <2>5. replies[j] = IF op(j) = "M" THEN "OK" ELSE "zeros"
    BY <1>3
  <2>6. op(j) \in {"m", "M"}
    OBVIOUS
  <2>7. page(j)[1] \in 0 .. Len(Size) /\ 1 \in Nat
    BY <1>2, <2>3
  <2> HIDE DEF page, op, cmds, replies
  <2> QED
    BY <2>2, <2>3, <2>4, <2>5, <2>6, <2>7 DEF Command, Commands
<1>4. cmds \in [1 .. 2 * n -> Commands] /\ Len(cmds) = 2 * n
  <2>1. \A j \in 1 .. 2 * n : Command(op(j), page(j)[1], page(j)[2], 1) \in Commands
    BY <1>3
  <2>2. Len(cmds) = 2 * n
    <3> HIDE DEF page, op
    <3> QED
      BY <1>2
  <2> HIDE DEF page, op
  <2>3. cmds \in [1 .. 2 * n -> Commands]
    BY <2>1
  <2> QED
    BY <2>2, <2>3
<1>5. replies \in [1 .. 2 * n -> {"OK", "zeros"}] /\ Len(replies) = 2 * n
  BY <1>2
<1>6. ASSUME NEW j \in 1 .. n
      PROVE  \E i \in 1 .. 2 * n : cmds[i].op = "M" /\ <<cmds[i].r, cmds[i].at>> = pages[j]
  <2> DEFINE i == 2 * j - 1
  <2>1. i \in 1 .. 2 * n /\ (i + 1) \div 2 = j /\ i % 2 = 1
    BY <1>2
  <2>2. page(i) = pages[j] /\ op(i) = "M"
    BY <2>1
  <2> HIDE DEF i
  <2>3. cmds[i].op = "M" /\ cmds[i].r = pages[j][1] /\ cmds[i].at = pages[j][2] /\ pages[j] \in Pages
    <3> HIDE DEF page, op, cmds, replies
    <3> QED
      BY <1>3, <2>1, <2>2
  <2>4. pages[j] = <<pages[j][1], pages[j][2]>>
    BY <2>3, PageShape
  <2> HIDE DEF cmds
  <2> QED
    BY <2>1, <2>3, <2>4
<1>7. op(2 * n) = "m" /\ 2 * n \in 1 .. 2 * n
  BY <1>2
<1>8. \A i \in 1 .. 2 * n : /\ cmds[i].op \in {"m", "M"} /\ <<cmds[i].r, cmds[i].at>> \in Pages
                            /\ replies[i] = IF cmds[i].op = "M" THEN "OK" ELSE "zeros"
  <2>1. ASSUME NEW i \in 1 .. 2 * n PROVE <<cmds[i].r, cmds[i].at>> \in Pages
    <3>1. page(i) = <<page(i)[1], page(i)[2]>>
      BY <1>3, PageShape
    <3> HIDE DEF page, op, cmds, replies
    <3> QED
      BY <1>3, <3>1
  <2> HIDE DEF page, op, cmds, replies
  <2> QED
    BY <1>3, <2>1
<1>9. cmds[2 * n].op = "m"
  <2> HIDE DEF page, op, cmds, replies
  <2> QED
    BY <1>3, <1>7
<1>10. 2 * n \in Nat \ {0}
  BY <1>2
<1> HIDE DEF page, op, cmds, replies
<1>11. cmds \in Seq(Commands) /\ replies \in Seq({"OK", "zeros"})
  <2> DEFINE k == 2 * n
  <2>1. k \in Nat /\ cmds \in [1 .. k -> Commands] /\ replies \in [1 .. k -> {"OK", "zeros"}]
    BY <1>4, <1>5, <1>10
  <2> HIDE DEF k
  <2>2. cmds \in Seq(Commands)
    BY <2>1, SeqDef, SMTT(40)
  <2>3. replies \in Seq({"OK", "zeros"})
    BY <2>1, SeqDef, SMTT(40)
  <2> QED
    BY <2>2, <2>3
<1>12. WritesBack(cmds, replies, pages)
  BY <1>4, <1>5, <1>6, <1>8, <1>9, <1>10, <1>11, <1>n DEF WritesBack
<1> QED
  BY <1>1, <1>12

\* A batch of pages is sent to a clean target.
LEMMA PrepareSent ==
    ASSUME SessionInv, InLoop("reply"), session.outstanding = 1,
           session.phase \in {"preflight", "prepare"}, Clean,
           NEW page \in Pages, \A u \in Before(page) : u \in touched,
           PrepareBatch(page)
    PROVE  SessionInv'
<1> DEFINE pages == PreparePages(page)
           next == PagesFrom(page)[PagesPerBatch]
           cmds == PrepareCommands(pages)
           replies == PrepareReplies(pages)
           s == [session EXCEPT !.index = next[1], !.offset = next[2], !.replies = replies]
<1>1. Continue(s, cmds, "prepare") /\ ~Unexpected(Head(call.rx))
  BY DEF PrepareBatch, Continue, Proceed
<1>2. PagesBetween(pages, page, next)
  BY BatchOfPages
<1> HIDE DEF pages, next
<1>3. WritesBack(cmds, replies, pages)
  BY <1>2, BatchWritesBack DEF PagesBetween
<1> HIDE DEF cmds, replies
<1>4. session \in Sessions
  BY TypeFacts DEF SessionInv
<1>5. /\ next \in Positions /\ next[1] \in Nat /\ next[2] \in Nat /\ next[1] <= Len(Size) + 1
      /\ next = <<next[1], next[2]>> /\ Len(Size) \in Nat
  BY <1>2, PositionFacts, SizeFacts DEF PagesBetween
<1>6. /\ cmds \in Seq(Commands) /\ Len(cmds) \in Nat \ {0} /\ Len(replies) = Len(cmds)
      /\ replies \in Seq({"OK", "zeros"})
      /\ \A i \in 1 .. Len(cmds) : /\ cmds[i].op \in {"m", "M"} /\ <<cmds[i].r, cmds[i].at>> \in Pages
                                   /\ replies[i] = IF cmds[i].op = "M" THEN "OK" ELSE "zeros"
      /\ cmds[Len(cmds)].op = "m"
  BY <1>3 DEF WritesBack
<1>7. s \in Sessions
  <2>1. next[1] \in 0 .. Len(Size) + 1
    BY <1>5
  <2> QED
    BY <1>4, <1>5, <1>6, <2>1, Zenon DEF Sessions
<1>8. /\ s.verdict = session.verdict /\ s.noAck = session.noAck /\ s.chunk = session.chunk
      /\ s.attached = session.attached /\ s.pendingFailure = session.pendingFailure
      /\ s.index = next[1] /\ s.offset = next[2] /\ s.replies = replies
  BY <1>4 DEF Sessions
<1> HIDE DEF s
<1>9. \A i \in 1 .. Len(cmds) : cmds[i] \in Commands
  BY <1>6
<1>10. \A i \in 1 .. Len(cmds) : cmds[i] \in Harmless /\ cmds[i] \in Requests /\ cmds[i] \notin Attaches
  BY <1>6, <1>9 DEF Harmless, Requests, Attaches
<1>11. cmds \in Seq(Harmless)
  BY <1>6, <1>10
<1>12. Sendable(cmds)
  BY <1>6, <1>10, <1>11 DEF Sendable
<1>13. /\ PhaseIsEarned /\ (session.noAck = TRUE => serverNoAck = TRUE) /\ UNCHANGED <<target, debugger, touched>>
  BY <1>1, HeadVouches
<1>14. "prepare" \in Working /\ "prepare" \in Phases
  BY DEF Working, Phases
<1>15. CoreInv' /\ session' = Sent(s, cmds, "prepare")
  BY <1>1, <1>7, <1>8, <1>12, <1>13, <1>14, BatchStarts
<1>16. /\ SameData(s, session') /\ session'.phase = "prepare" /\ session'.lastPacket = cmds
       /\ session'.outstanding = Len(cmds)
  BY <1>6, <1>7, <1>14, <1>15, SentShape
<1>17. \A i \in 1 .. Len(cmds) : Asked(i)' = cmds[i]
  BY <1>6, <1>16, AskedFirst
<1>18. session'.index = next[1] /\ session'.offset = next[2] /\ session'.replies = replies
  BY <1>8, <1>16 DEF SameData
<1>19. CommandsAreOfPhase'
  <2>1. ASSUME NEW i \in 1 .. session'.outstanding
        PROVE  /\ Asked(i)'.op \in {"m", "M"}
               /\ session'.replies[i] = IF Asked(i)'.op = "M" THEN "OK" ELSE "zeros"
    <3>1. i \in 1 .. Len(cmds) /\ session'.replies = replies
      BY <1>16, <1>18, <2>1
    <3>2. Asked(i)' = cmds[i]
      BY <1>17, <3>1
    <3> QED
      BY <1>6, <3>1, <3>2
  <2>2. Len(session'.replies) = session'.outstanding
    BY <1>6, <1>16, <1>18
  <2>3. Asked(session.outstanding)'.op = "m"
    <3>1. Len(cmds) \in 1 .. Len(cmds)
      BY <1>6
    <3>2. Asked(session.outstanding)' = cmds[Len(cmds)]
      BY <1>16, <1>17, <3>1
    <3> QED
      BY <1>6, <3>2
  <2> QED
    BY <1>16, <2>1, <2>2, <2>3 DEF CommandsAreOfPhase, OpOf
<1>20. ASSUME NEW u \in Before(<<session'.index, session'.offset>>)
       PROVE  \/ u \in touched'
              \/ \E i \in 1 .. session'.outstanding : Asked(i)'.op = "M" /\ <<Asked(i)'.r, Asked(i)'.at>> = u
  <2>1. u \in Before(next)
    BY <1>5, <1>18, <1>20
  <2>2. CASE u \in Before(page)
    BY <1>13, <2>2
  <2>3. CASE \E j \in 1 .. Len(pages) : u = pages[j]
    <3>1. PICK j \in 1 .. Len(pages) : u = pages[j]
      BY <2>3
    <3>2. PICK i \in 1 .. Len(cmds) : cmds[i].op = "M" /\ <<cmds[i].r, cmds[i].at>> = pages[j]
      BY <1>3 DEF WritesBack
    <3>3. Asked(i)' = cmds[i]
      BY <1>17
    <3> QED
      BY <1>16, <3>1, <3>2, <3>3
  <2> QED
    BY <1>2, <2>1, <2>2, <2>3 DEF PagesBetween
<1>21. PhaseIsEarned'
  <2>1. Clean' /\ <<session'.index, session'.offset>> \in Positions
    BY <1>5, <1>13, <1>18 DEF Clean
  <2>2. /\ session'.noAck = TRUE /\ session'.attached = TRUE /\ session'.pendingFailure # TRUE
        /\ session'.chunk \in Chunks
    BY <1>8, <1>13, <1>16 DEF PhaseIsEarned, SameData
  <2> QED
    BY <1>16, <1>20, <2>1, <2>2 DEF PhaseIsEarned
<1> QED
  BY <1>15, <1>19, <1>21 DEF CoreInv, SessionInv, ProgressIsEarned

LEMMA ReplyPreflightKeeps == ASSUME SessionInv, ReplyPreflight PROVE SessionInv'
<1> DEFINE r == session.index
<1>1. /\ Accepted("preflight") /\ session.outstanding = 1
      /\ \/ session.offset < Size[r] /\ PreflightBatch(session.offset)
         \/ session.offset >= Size[r] /\ r < Len(Size) /\ AskRegion(r + 1, 0)
         \/ session.offset >= Size[r] /\ r = Len(Size) /\ PrepareBatch(<<1, 0>>)
  BY DEF ReplyPreflight
<1>2. InLoop("reply") /\ session.phase = "preflight"
  BY <1>1 DEF Accepted
<1>3. ~Unexpected(Head(call.rx))
  BY <1>1 DEF AskRegion, PreflightBatch, PrepareBatch, Continue, Proceed
<1>4. /\ PhaseIsEarned /\ r \in 1 .. Len(Size) /\ session.offset \in Nat
      /\ \A u \in 0 .. session.offset - 1 : <<r, u>> \notin target.dirty
      /\ \A u \in 0 .. Size[r] - 1 : <<r, u>> \notin target.unsafe
  BY <1>1, <1>3, PreflightAnswered
<1>5. target.process = TRUE /\ target.challenge = TRUE /\ \A q \in 1 .. r - 1 : Passed(q)
  BY <1>2, <1>4 DEF PhaseIsEarned
<1>6. Size[r] \in Nat \ {0} /\ Len(Size) \in Nat \ {0}
  BY <1>4, SizeFacts
<1>7. session.offset >= Size[r] => \A q \in 1 .. r : Passed(q)
  <2>1. ASSUME session.offset >= Size[r], NEW q \in 1 .. r PROVE Passed(q)
    <3>1. CASE q = r
      <4>1. \A u \in 0 .. Size[r] - 1 : u \in 0 .. session.offset - 1
        BY <1>4, <1>6, <2>1
      <4> QED
        BY <1>4, <3>1, <4>1 DEF Passed
    <3>2. CASE q # r
      <4>1. q \in 1 .. r - 1
        BY <1>4, <2>1, <3>2
      <4> QED
        BY <1>5, <4>1
    <3> QED
      BY <3>1, <3>2
  <2> QED
    BY <2>1
<1>r. r = session.index
  OBVIOUS
<1> HIDE DEF r
<1>8. CASE session.offset < Size[r] /\ PreflightBatch(session.offset)
  <2>1. \A u \in 0 .. session.offset - 1 : <<session.index, u>> \notin target.dirty
    BY <1>4, <1>r
  <2>2. \A u \in 0 .. Size[session.index] - 1 : <<session.index, u>> \notin target.unsafe
    BY <1>4, <1>r
  <2>3. session.offset < Size[session.index]
    BY <1>8, <1>r
  <2> QED
    BY <1>1, <1>2, <1>4, <1>8, <2>1, <2>2, <2>3, PreflightSent
<1>9. CASE session.offset >= Size[r] /\ r < Len(Size) /\ AskRegion(r + 1, 0)
  <2> DEFINE next == r + 1
  <2>1. next \in 1 .. Len(Size) /\ \A q \in 1 .. next - 1 : Passed(q)
    BY <1>4, <1>6, <1>7, <1>9
  <2>2. 0 \in Nat /\ 0 < Size[next]
    BY <2>1, SizeFacts
  <2>3. AskRegion(next, 0)
    BY <1>9
  <2> HIDE DEF next
  <2>4. \A u \in 0 .. 0 - 1 : FALSE
    OBVIOUS
  <2> QED
    BY <1>1, <1>2, <1>5, <2>1, <2>2, <2>3, <2>4, RegionAsked
<1>10. CASE session.offset >= Size[r] /\ r = Len(Size) /\ PrepareBatch(<<1, 0>>)
  <2>1. \A q \in 1 .. Len(Size) : Passed(q)
    BY <1>7, <1>10
  <2>2. Clean
    BY <1>5, <2>1, EverythingPassed DEF SessionInv
  <2> DEFINE page == <<1, 0>>
  <2>3. page \in Pages /\ \A u \in Before(page) : u \in touched
    BY FirstPage
  <2>4. PrepareBatch(page)
    BY <1>10
  <2> HIDE DEF page
  <2> QED
    BY <1>1, <1>2, <2>2, <2>3, <2>4, PrepareSent
<1> QED
  BY <1>1, <1>8, <1>9, <1>10

\* After the last reply of a batch every page before the next position is touched.
LEMMA PrepareAnswered ==
    ASSUME SessionInv, Accepted("prepare"), session.outstanding = 1, ~Unexpected(Head(call.rx))
    PROVE  /\ Clean /\ <<session.index, session.offset>> \in Positions
           /\ \A u \in Before(<<session.index, session.offset>>) : u \in touched
<1>1. InLoop("reply") /\ session.phase = "prepare"
  BY DEF Accepted
<1>2. CommandsAreOfPhase /\ PhaseIsEarned
  BY <1>1, HeadVouches
<1>3. Asked(1).op = "m"
  BY <1>1, <1>2 DEF CommandsAreOfPhase
<1>4. \A i \in 1 .. session.outstanding : Asked(i).op # "M"
  BY <1>3
<1>5. /\ Clean /\ <<session.index, session.offset>> \in Positions
      /\ \A p \in Before(<<session.index, session.offset>>) :
            \/ p \in touched
            \/ \E i \in 1 .. session.outstanding : Asked(i).op = "M" /\ <<Asked(i).r, Asked(i).at>> = p
  BY <1>1, <1>2 DEF PhaseIsEarned
<1> QED
  BY <1>4, <1>5

LEMMA ReplyPrepareKeeps == ASSUME SessionInv, ReplyPrepare PROVE SessionInv'
<1> DEFINE p == <<session.index, session.offset>>
<1>1. /\ Accepted("prepare") /\ session.outstanding = 1
      /\ \/ session.index <= Len(Size) /\ PrepareBatch(p)
         \/ session.index > Len(Size) /\ Continue(session, <<Plain("qProcessInfo")>>, "finalProcess")
  BY DEF ReplyPrepare, Ask
<1>2. InLoop("reply") /\ session.phase = "prepare"
  BY <1>1 DEF Accepted
<1>3. ~Unexpected(Head(call.rx))
  BY <1>1 DEF PrepareBatch, Continue, Proceed
<1>4. Clean /\ p \in Positions /\ \A u \in Before(p) : u \in touched
  BY <1>1, <1>3, PrepareAnswered
<1>5. p[1] = session.index
  OBVIOUS
<1> HIDE DEF p
<1>6. (p \in Pages <=> p[1] <= Len(Size)) /\ (p \notin Pages => p = <<Len(Size) + 1, 0>>) /\ p[1] \in Nat /\ Len(Size) \in Nat
  BY <1>4, PositionFacts, SizeFacts
<1>7. CASE session.index <= Len(Size) /\ PrepareBatch(p)
  BY <1>1, <1>2, <1>4, <1>5, <1>6, <1>7, PrepareSent
<1>8. CASE session.index > Len(Size) /\ Continue(session, <<Plain("qProcessInfo")>>, "finalProcess")
  <2>1. p \notin Pages
    BY <1>5, <1>6, <1>8
  <2>2. p[1] = Len(Size) + 1
    BY <1>6, <2>1
  <2>3. ASSUME NEW u \in Pages PROVE u \in Before(p)
    <3>1. u[1] \in 1 .. Len(Size)
      BY PageShape
    <3>2. u[1] < p[1]
      BY <1>6, <2>2, <3>1
    <3> QED
      BY <3>2 DEF Before
  <2>4. touched = Pages
    <3>1. touched \subseteq Pages
      BY DEF SessionInv, TypeOK
    <3> QED
      BY <1>4, <2>3, <3>1
  <2>5. OpOf["finalProcess"] = "qProcessInfo"
    BY DEF OpOf
  <2>6. Continue(session, <<Plain(OpOf["finalProcess"])>>, "finalProcess")
    BY <1>8, <2>5
  <2> QED
    BY <1>1, <1>2, <2>4, <2>6, LastAsked
<1> QED
  BY <1>1, <1>7, <1>8

LEMMA ReplyWithinBatchKeeps == ASSUME SessionInv, ReplyWithinBatch PROVE SessionInv'
<1> DEFINE s == [session EXCEPT !.replies = Tail(session.replies)]
           n == session.outstanding
<1>1. /\ InLoop("reply") /\ session.phase \in {"preflight", "prepare"} /\ Head(call.rx).text = Expected
      /\ n > 1 /\ Settle(s)
  BY DEF ReplyWithinBatch, Accepted
<1>2. ~Unexpected(Head(call.rx))
  BY <1>1 DEF Settle, Proceed
<1>3. /\ CommandsAreOfPhase /\ PhaseIsEarned /\ Vouched(Asked(1), Head(call.rx)) /\ session.phase \in Working
      /\ UNCHANGED <<target, debugger, touched>>
  BY <1>1, <1>2, HeadVouches
<1>4. session \in Sessions /\ session.replies \in Seq({"OK", "zeros"}) /\ n \in Nat
  BY TypeFacts DEF SessionInv, Sessions
<1>5. /\ Len(session.replies) = n
      /\ \A i \in 1 .. n : /\ Asked(i).op \in {"m", "M"}
                           /\ session.replies[i] = IF Asked(i).op = "M" THEN "OK" ELSE "zeros"
      /\ session.phase = "preflight" => \A i \in 1 .. n : Asked(i).op = "m" /\ Asked(i).r = session.index
      /\ session.phase = "prepare" => Asked(n).op = "m"
  BY <1>1, <1>3 DEF CommandsAreOfPhase
<1>6. /\ Tail(session.replies) \in Seq({"OK", "zeros"}) /\ Len(Tail(session.replies)) = n - 1
      /\ \A i \in 1 .. n - 1 : Tail(session.replies)[i] = session.replies[i + 1]
      /\ session.replies # <<>> /\ Head(session.replies) = session.replies[1]
  BY <1>1, <1>4, <1>5
<1>7. s \in Sessions
  BY <1>4, <1>6, Zenon DEF Sessions
<1>8. /\ s.verdict = session.verdict /\ s.noAck = session.noAck /\ s.phase = session.phase
      /\ s.lastPacket = session.lastPacket /\ s.outstanding = n
      /\ s.chunk = session.chunk /\ s.index = session.index /\ s.offset = session.offset
      /\ s.attached = session.attached /\ s.pendingFailure = session.pendingFailure
      /\ s.replies = Tail(session.replies)
  BY <1>4 DEF Sessions
<1> HIDE DEF s
<1>9. /\ CoreInv' /\ session' = [s EXCEPT !.outstanding = n - 1]
      /\ \A i \in 1 .. n - 1 : Asked(i)' = Asked(i + 1)
  BY <1>1, <1>3, <1>7, <1>8, BatchGoesOn
<1>10. /\ session'.outstanding = n - 1 /\ session'.phase = session.phase /\ session'.noAck = session.noAck
       /\ session'.chunk = session.chunk /\ session'.index = session.index /\ session'.offset = session.offset
       /\ session'.attached = session.attached /\ session'.pendingFailure = session.pendingFailure
       /\ session'.replies = Tail(session.replies)
  BY <1>7, <1>8, <1>9 DEF Sessions
<1>11. \A i \in 1 .. n - 1 : i + 1 \in 1 .. n
  BY <1>4
<1>12. CommandsAreOfPhase'
  <2>1. ASSUME NEW i \in 1 .. session'.outstanding
        PROVE  /\ Asked(i)'.op \in {"m", "M"}
               /\ session'.replies[i] = IF Asked(i)'.op = "M" THEN "OK" ELSE "zeros"
               /\ session'.phase = "preflight" => Asked(i)'.op = "m" /\ Asked(i)'.r = session'.index
    <3>1. i \in 1 .. n - 1 /\ i + 1 \in 1 .. n
      BY <1>10, <1>11, <2>1
    <3>2. Asked(i)' = Asked(i + 1) /\ session'.replies[i] = session.replies[i + 1]
      BY <1>6, <1>9, <1>10, <3>1
    <3> QED
      BY <1>5, <1>10, <3>1, <3>2
  <2>2. Len(session'.replies) = session'.outstanding
    BY <1>6, <1>10
  <2>3. session'.phase = "prepare" => Asked(session.outstanding)'.op = "m"
    <3>1. n - 1 \in 1 .. n - 1 /\ (n - 1) + 1 = n
      BY <1>1, <1>4
    <3>2. Asked(session.outstanding)' = Asked(n)
      BY <1>9, <1>10, <3>1
    <3> QED
      BY <1>5, <1>10, <3>2
  <2> QED
    BY <1>1, <1>10, <2>1, <2>2, <2>3 DEF CommandsAreOfPhase, OpOf
<1>13. Head(call.rx).text = session.replies[1]
  BY <1>1, <1>6 DEF Expected
<1>14. 1 \in 1 .. n /\ \A i \in 1 .. n : i = 1 \/ (i - 1 \in 1 .. n - 1 /\ (i - 1) + 1 = i)
  BY <1>1, <1>4
<1>15. session'.phase = "preflight" => \A u \in 0 .. session'.offset - 1 :
          \/ <<session'.index, u>> \notin target'.dirty
          \/ \E i \in 1 .. session'.outstanding : u \in Asked(i)'.at .. Asked(i)'.at + Asked(i)'.n - 1
  <2>1. ASSUME session'.phase = "preflight", NEW u \in 0 .. session'.offset - 1
        PROVE  \/ <<session'.index, u>> \notin target'.dirty
               \/ \E i \in 1 .. session'.outstanding : u \in Asked(i)'.at .. Asked(i)'.at + Asked(i)'.n - 1
    <3>1. \/ <<session.index, u>> \notin target.dirty
          \/ \E i \in 1 .. n : u \in Asked(i).at .. Asked(i).at + Asked(i).n - 1
      BY <1>3, <1>10, <2>1 DEF PhaseIsEarned
    <3>2. CASE \E i \in 1 .. n : u \in Asked(i).at .. Asked(i).at + Asked(i).n - 1
      <4>1. PICK i \in 1 .. n : u \in Asked(i).at .. Asked(i).at + Asked(i).n - 1
        BY <3>2
      <4>2. CASE i = 1
        <5>1. Asked(1).op = "m" /\ Asked(1).r = session.index /\ session.replies[1] = "zeros"
          BY <1>5, <1>10, <1>14, <2>1
        <5>2. <<session.index, u>> \notin target.dirty
          BY <1>3, <1>13, <4>1, <4>2, <5>1 DEF Vouched
        <5> QED
          BY <1>3, <1>10, <5>2
      <4>3. CASE i # 1
        <5> DEFINE k == i - 1
        <5>1. k \in 1 .. n - 1 /\ k + 1 = i
          BY <1>14, <4>3
        <5> HIDE DEF k
        <5>2. Asked(k)' = Asked(i)
          BY <1>9, <5>1
        <5> QED
          BY <1>10, <4>1, <5>1, <5>2
      <4> QED
        BY <4>2, <4>3
    <3> QED
      BY <1>3, <1>10, <3>1, <3>2
  <2> QED
    BY <2>1
<1>16. session'.phase = "prepare" => \A p \in Before(<<session'.index, session'.offset>>) :
          \/ p \in touched'
          \/ \E i \in 1 .. session'.outstanding : Asked(i)'.op = "M" /\ <<Asked(i)'.r, Asked(i)'.at>> = p
  <2>1. ASSUME session'.phase = "prepare", NEW p \in Before(<<session'.index, session'.offset>>)
        PROVE  \/ p \in touched'
               \/ \E i \in 1 .. session'.outstanding : Asked(i)'.op = "M" /\ <<Asked(i)'.r, Asked(i)'.at>> = p
    <3>0. p \in Before(<<session.index, session.offset>>)
      BY <1>10, <2>1
    <3>1. \/ p \in touched
          \/ \E i \in 1 .. n : Asked(i).op = "M" /\ <<Asked(i).r, Asked(i).at>> = p
      BY <1>3, <1>10, <2>1, <3>0 DEF PhaseIsEarned
    <3>2. CASE \E i \in 1 .. n : Asked(i).op = "M" /\ <<Asked(i).r, Asked(i).at>> = p
      <4>1. PICK i \in 1 .. n : Asked(i).op = "M" /\ <<Asked(i).r, Asked(i).at>> = p
        BY <3>2
      <4>2. CASE i = 1
        <5>1. session.replies[1] = "OK"
          BY <1>5, <1>14, <4>1, <4>2
        <5>2. p \in touched
          BY <1>3, <1>13, <4>1, <4>2, <5>1 DEF Vouched
        <5> QED
          BY <1>3, <5>2
      <4>3. CASE i # 1
        <5> DEFINE k == i - 1
        <5>1. k \in 1 .. n - 1 /\ k + 1 = i
          BY <1>14, <4>3
        <5> HIDE DEF k
        <5>2. Asked(k)' = Asked(i)
          BY <1>9, <5>1
        <5> QED
          BY <1>10, <4>1, <5>1, <5>2
      <4> QED
        BY <4>2, <4>3
    <3> QED
      BY <1>3, <3>1, <3>2
  <2> QED
    BY <2>1
<1>17. PhaseIsEarned'
  <2>1. \A q : Passed(q)' <=> Passed(q)
    BY <1>3 DEF Passed
  <2>2. Clean' <=> Clean
    BY <1>3 DEF Clean
  <2>3. session'.phase = "preflight" =>
           /\ target'.process = TRUE /\ target'.challenge = TRUE /\ session'.index \in 1 .. Len(Size)
           /\ \A r \in 1 .. session'.index - 1 : Passed(r)'
           /\ \A u \in 0 .. Size[session'.index] - 1 : <<session'.index, u>> \notin target'.unsafe
    BY <1>3, <1>10, <2>1 DEF PhaseIsEarned
  <2>4. session'.phase = "prepare" => Clean' /\ <<session'.index, session'.offset>> \in Positions
    BY <1>3, <1>10, <2>2 DEF PhaseIsEarned
  <2>5. /\ session'.noAck = TRUE /\ session'.attached = TRUE /\ session'.pendingFailure # TRUE
        /\ session'.chunk \in Chunks /\ session'.phase \in {"preflight", "prepare"}
    BY <1>1, <1>3, <1>10 DEF PhaseIsEarned
  <2> QED
    BY <1>15, <1>16, <2>3, <2>4, <2>5 DEF PhaseIsEarned
<1> QED
  BY <1>9, <1>12, <1>17 DEF CoreInv, SessionInv, ProgressIsEarned

-----------------------------------------------------------------------------
(* The steps of the client outside the loop.                               *)

\* Without a call under way nothing is collected.
LEMMA IdleIsQuiet == ASSUME SessionInv, ~call.active PROVE call = Quiet /\ call.rx = <<>> /\ call.out = <<>>
<1>1. call.active \in BOOLEAN
  BY TypeFacts DEF SessionInv, Calls
<1>2. call = Quiet
  BY <1>1 DEF SessionInv, CallIsPlaced
<1> QED
  BY <1>2 DEF Quiet

LEMMA QuietIsCall == Quiet \in Calls /\ Quiet.active = FALSE /\ Quiet.rx = <<>> /\ Quiet.out = <<>>
<1>1. <<>> \in Seq(Packets) /\ <<>> \in Seq(Commands) /\ 0 \in Nat
  OBVIOUS
<1> QED
  BY <1>1 DEF Quiet, Calls

\* The client reports and closes its stream: nothing is awaited any more.
LEMMA ReportKeeps ==
    ASSUME SessionInv, link' = "cut", result' \in Outcomes, call' = Quiet, UNCHANGED <<toClient, serverVars>>,
           session' \in Sessions, session'.lastPacket \in Seq(Harmless), VerdictIsTrue',
           toServer' \in Seq(Commands), toServer' \in Seq(Harmless), AttachesOnce'
    PROVE  SessionInv'
<1>1. TypeOK /\ WritesAreHarmless
  BY DEF SessionInv
<1>2. UNCHANGED <<target, debugger, touched, serverNoAck, lastReply, consoleSent>>
  BY DEF serverVars
<1>3. TypeOK'
  BY <1>1, <1>2, QuietIsCall DEF TypeOK, Calls
<1>4. CallIsPlaced'
  BY QuietIsCall DEF CallIsPlaced, Quiet
<1>5. TokensMatch' /\ ProgressIsEarned'
  BY DEF TokensMatch, ProgressIsEarned, Live
<1>6. WritesAreHarmless'
  <2>1. Harmless' = Harmless /\ (Clean' <=> Clean)
    BY <1>2 DEF Harmless, Clean
  <2>2. call'.out \in Seq(Harmless)
    BY QuietIsCall
  <2> QED
    BY <1>1, <1>2, <2>1, <2>2 DEF WritesAreHarmless
<1> QED
  BY <1>3, <1>4, <1>5, <1>6 DEF SessionInv

LEMMA OpenFailsKeeps == ASSUME SessionInv, OpenFails PROVE SessionInv'
<1>1. /\ ~call.active /\ result' = "uncertain" /\ link' = "cut"
      /\ UNCHANGED <<session, call, toServer, toClient, serverVars>>
  BY DEF OpenFails, Idle, Report
<1>2. call' = Quiet
  BY <1>1, IdleIsQuiet
<1>3. TypeOK /\ WritesAreHarmless /\ AttachesOnce /\ VerdictIsTrue
  BY DEF SessionInv
<1>4. session' \in Sessions /\ toServer' \in Seq(Commands)
  BY <1>1, <1>3, TypeFacts
<1>5. session'.lastPacket \in Seq(Harmless) /\ toServer' \in Seq(Harmless)
  BY <1>1, <1>3 DEF WritesAreHarmless
<1>6. VerdictIsTrue' /\ AttachesOnce'
  BY <1>1, <1>3 DEF VerdictIsTrue, AttachesOnce, Attaching, Terminal, serverVars
<1> QED
  BY <1>1, <1>2, <1>4, <1>5, <1>6, ReportKeeps DEF Outcomes

LEMMA AbandonKeeps == ASSUME SessionInv, Abandon PROVE SessionInv'
<1>1. /\ ~call.active /\ result' = "uncertain" /\ link' = "cut" /\ session' = Failed(session)
      /\ UNCHANGED <<call, toServer, toClient, serverVars>>
  BY DEF Abandon, Idle, Report
<1>2. call' = Quiet
  BY <1>1, IdleIsQuiet
<1>3. TypeOK /\ WritesAreHarmless /\ AttachesOnce
  BY DEF SessionInv
<1>4. session \in Sessions /\ toServer' \in Seq(Commands)
  BY <1>1, <1>3, TypeFacts
<1>5. /\ session' \in Sessions /\ session'.phase = "failed" /\ session'.verdict = "uncertain"
      /\ session'.lastPacket = <<>>
  BY <1>1, <1>4, FinishedShape DEF Failed, Phases, Outcomes
<1>6. session'.lastPacket \in Seq(Harmless) /\ toServer' \in Seq(Harmless)
  BY <1>1, <1>3, <1>5 DEF WritesAreHarmless
<1>7. VerdictIsTrue'
  BY <1>5 DEF VerdictIsTrue, Terminal
<1>8. AttachesOnce'
  BY <1>1, <1>3 DEF AttachesOnce, Attaching, serverVars
<1> QED
  BY <1>1, <1>2, <1>4, <1>5, <1>6, <1>7, <1>8, ReportKeeps DEF Outcomes

LEMMA BeginKeeps == ASSUME SessionInv, Begin PROVE SessionInv'
<1> DEFINE c == Plain("qSupported")
<1>1. /\ ~call.active /\ result = "none" /\ link = "opening" /\ link' = "open" /\ toServer' = <<c>>
      /\ session' = Sent(session, <<c>>, "supported")
      /\ UNCHANGED <<call, result, toClient, serverVars>>
  BY DEF Begin, Idle
<1>2. /\ session = Fresh /\ toServer = <<>> /\ toClient = <<>> /\ debugger = "none" /\ touched = {}
  BY <1>1 DEF SessionInv, CallIsPlaced
<1>3. call = Quiet /\ call' = Quiet /\ call'.rx = <<>> /\ call'.out = <<>> /\ call'.active = FALSE
  BY <1>1, IdleIsQuiet, QuietIsCall
<1>4. TypeOK /\ WritesAreHarmless
  BY DEF SessionInv
<1>5. UNCHANGED <<target, debugger, touched, serverNoAck, lastReply, consoleSent>>
  BY <1>1 DEF serverVars
<1>6. c \in Commands /\ c \in Harmless /\ c \in Requests /\ c \notin Attaches
  BY PlainCommands
<1>c. c = Plain("qSupported")
  OBVIOUS
<1> HIDE DEF c
<1>7. <<c>> \in Seq(Commands) /\ <<c>> \in Seq(Harmless) /\ Len(<<c>>) = 1
  BY <1>6
<1>8. /\ session' \in Sessions /\ session'.lastPacket = <<c>> /\ session'.outstanding = 1
      /\ session'.phase = "supported" /\ session'.verdict = "none" /\ session'.noAck = FALSE
      /\ session'.attached = FALSE /\ session'.pendingFailure = FALSE
  <2>1. session \in Sessions /\ "supported" \in Phases
    BY <1>4, TypeFacts DEF Phases
  <2> DEFINE cs == <<c>>
  <2>2. cs \in Seq(Commands) /\ session' = Sent(session, cs, "supported") /\ Len(cs) = 1
    BY <1>1, <1>7
  <2> HIDE DEF cs
  <2> DEFINE ph == "supported"
             t == Sent(session, cs, ph)
  <2>3. /\ t \in Sessions /\ t.lastPacket = cs /\ t.outstanding = Len(cs)
        /\ t.phase = ph /\ t.verdict = session.verdict /\ SameData(session, t)
    <3>1. session \in Sessions /\ ph \in Phases /\ cs \in Seq(Commands)
      BY <2>1, <2>2
    <3> HIDE DEF ph
    <3> QED
      BY <3>1, SentShape
  <2> HIDE DEF t
  <2>4. t.noAck = session.noAck /\ t.attached = session.attached /\ t.pendingFailure = session.pendingFailure
    BY <2>3 DEF SameData
  <2>5. /\ session.verdict = "none" /\ session.noAck = FALSE /\ session.attached = FALSE
        /\ session.pendingFailure = FALSE
    BY <1>2, Zenon DEF Fresh
  <2>6. session' = t /\ cs = <<c>>
    BY <2>2 DEF t, cs
  <2> QED
    BY <2>2, <2>3, <2>4, <2>5, <2>6
<1>9. Coming' = <<>> /\ Going' = <<c>> /\ Attaching' = <<>>
  <2>1. Kept(<<>>, Returns) = <<>> /\ Kept(<<>>, Requests) = <<>> /\ Kept(<<>>, Attaches) = <<>>
    BY KeptEmpty
  <2>2. Kept(<<c>>, Requests) = <<c>> /\ Kept(<<c>>, Attaches) = <<>>
    BY <1>6, KeptOne
  <2>3. call'.rx = <<>> /\ toClient' = <<>> /\ toServer' = <<c>> /\ call'.out = <<>>
    BY <1>1, <1>2, <1>3
  <2>4. Coming' = <<>> \o <<>> /\ Going' = <<c>> \o <<>> /\ Attaching' = <<>> \o <<>>
    BY <2>1, <2>2, <2>3 DEF Coming, Going, Attaching
  <2> QED
    BY <2>4
<1>10. TypeOK'
  BY <1>1, <1>3, <1>4, <1>5, <1>7, <1>8, QuietIsCall DEF TypeOK, Calls
<1>11. ~Terminal'
  BY <1>8 DEF Terminal
<1>12. CallIsPlaced'
  BY <1>1, <1>3, <1>8 DEF CallIsPlaced
<1>13. Len(session'.lastPacket) = 1 /\ Len(Going') = 1 /\ Going'[1] = c /\ Len(Coming') = 0 /\ session'.lastPacket[1] = c
  BY <1>7, <1>8, <1>9
<1>14. Asked(1)' = c
  BY <1>8, <1>13 DEF Asked
<1>15. TokensMatch'
  <2>1. ASSUME NEW i \in 1 .. Len(Going') PROVE Requested(Asked(Len(Coming) + i), Going[i])'
    <3>1. i = 1 /\ Len(Coming') + i = 1
      BY <1>13
    <3>2. Asked(Len(Coming) + i)' = c /\ Going'[i] = c
      BY <1>13, <1>14, <3>1
    <3> QED
      BY <3>2 DEF Requested
  <2>2. \A i \in 1 .. Len(Coming') : Returned(Asked(i), Coming[i])'
    BY <1>13
  <2>3. session'.outstanding \in 1 .. Len(session'.lastPacket) /\ Len(Coming') + Len(Going') = session'.outstanding
    BY <1>8, <1>13
  <2>4. session'.noAck # TRUE
    BY <1>8
  <2> QED
    BY <2>1, <2>2, <2>3, <2>4 DEF TokensMatch
<1>16. WritesAreHarmless'
  <2>1. Harmless' = Harmless /\ (Clean' <=> Clean)
    BY <1>5 DEF Harmless, Clean
  <2>2. call'.out \in Seq(Harmless)
    BY <1>3
  <2> QED
    BY <1>1, <1>4, <1>5, <1>7, <1>8, <2>1, <2>2 DEF WritesAreHarmless
<1>17. AttachesOnce' /\ VerdictIsTrue'
  BY <1>8, <1>9, <1>11 DEF AttachesOnce, VerdictIsTrue
<1>18. ProgressIsEarned'
  <2>1. CommandsAreOfPhase'
    BY <1>8, <1>c DEF CommandsAreOfPhase, OpOf
  <2>2. PhaseIsEarned'
    BY <1>2, <1>5, <1>8 DEF PhaseIsEarned
  <2> QED
    BY <2>1, <2>2 DEF ProgressIsEarned
<1> QED
  BY <1>10, <1>12, <1>15, <1>16, <1>17, <1>18 DEF SessionInv

LEMMA BeginReceiveKeeps == ASSUME SessionInv, NEW n \in 1 .. Len(toClient), BeginReceive(n) PROVE SessionInv'
<1>1. /\ ~call.active /\ result = "none" /\ ~Terminal /\ link = "open"
      /\ UNCHANGED <<session, result, link, toServer, serverVars>>
  BY DEF BeginReceive, Idle
<1>2. TypeOK /\ TokensMatch /\ WritesAreHarmless /\ AttachesOnce /\ VerdictIsTrue /\ ProgressIsEarned /\ CallIsPlaced
  BY DEF SessionInv
<1>3. call.rx = <<>> /\ call.out = <<>>
  BY <1>1, IdleIsQuiet
<1>4. toClient \in Seq(Packets) /\ session.outstanding \in Nat
  BY <1>2, TypeFacts
<1> DEFINE a == SubSeq(toClient, 1, n)
           b == SubSeq(toClient, n + 1, Len(toClient))
<1>5. a \in Seq(Packets) /\ b \in Seq(Packets)
  BY <1>4
<1>6. Kept(a, Returns) \o Kept(b, Returns) = Kept(<<>>, Returns) \o Kept(toClient, Returns)
  <2>1. n \in 0 .. Len(toClient)
    BY <1>4
  <2> QED
    BY <1>4, <2>1, StreamMoves
<1>7. call' = [active |-> TRUE, rx |-> a, answerable |-> session.outstanding, out |-> <<>>] /\ toClient' = b
  BY DEF BeginReceive
<1> HIDE DEF a, b
<1>8. call' \in Calls /\ call'.active = TRUE /\ call'.answerable = session.outstanding /\ call'.out = <<>> /\ call'.rx = a
  <2>1. <<>> \in Seq(Commands)
    OBVIOUS
  <2> QED
    BY <1>4, <1>5, <1>7, <2>1 DEF Calls
<1>9. Coming' = Coming
  <2>1. Coming' = Kept(a, Returns) \o Kept(b, Returns)
    BY <1>7, <1>8 DEF Coming
  <2>2. Coming = Kept(<<>>, Returns) \o Kept(toClient, Returns)
    BY <1>3 DEF Coming
  <2> QED
    BY <1>6, <2>1, <2>2
<1>10. Going' = Going /\ Attaching' = Attaching
  BY <1>1, <1>3, <1>8 DEF Going, Attaching
<1>11. Live /\ ~Terminal'
  BY <1>1 DEF Live, Terminal
<1>12. UNCHANGED <<target, debugger, touched, serverNoAck, lastReply, consoleSent>>
  BY <1>1 DEF serverVars
<1>13. TypeOK'
  BY <1>1, <1>2, <1>5, <1>7, <1>8, <1>12 DEF TypeOK, Calls
<1>14. CallIsPlaced'
  <2>1. call'.answerable <= session'.outstanding
    BY <1>1, <1>4, <1>8
  <2> QED
    BY <1>1, <1>2, <1>8, <1>11, <2>1 DEF CallIsPlaced
<1>15. TokensMatch'
  BY <1>1, <1>2, <1>9, <1>10, <1>11, TokensStay
<1>16. WritesAreHarmless'
  <2>1. Harmless' = Harmless /\ (Clean' <=> Clean)
    BY <1>12 DEF Harmless, Clean
  <2>2. call'.out \in Seq(Harmless)
    BY <1>8
  <2> QED
    BY <1>1, <1>2, <1>12, <2>1, <2>2 DEF WritesAreHarmless
<1>17. AttachesOnce' /\ VerdictIsTrue'
  BY <1>1, <1>2, <1>10, <1>11, <1>12 DEF AttachesOnce, VerdictIsTrue, Terminal
<1>18. ProgressIsEarned'
  <2>1. SameData(session, session')
    BY <1>1 DEF SameData
  <2> QED
    BY <1>1, <1>2, <1>11, <2>1, ProgressStays
<1> QED
  BY <1>13, <1>14, <1>15, <1>16, <1>17, <1>18 DEF SessionInv

LEMMA EndReceiveKeeps == ASSUME SessionInv, EndReceive PROVE SessionInv'
<1>1. /\ call.active /\ call.rx = <<>> /\ call' = Quiet /\ toServer' = toServer \o call.out
      /\ UNCHANGED <<session, toClient, serverVars>>
      /\ session.verdict = "none" => UNCHANGED <<result, link>>
      /\ session.verdict # "none" => result' = session.verdict /\ link' = "cut"
  BY DEF EndReceive, Report
<1>2. TypeOK /\ TokensMatch /\ WritesAreHarmless /\ AttachesOnce /\ VerdictIsTrue /\ ProgressIsEarned /\ CallIsPlaced
  BY DEF SessionInv
<1>3. session \in Sessions /\ toServer \in Seq(Commands) /\ call.out \in Seq(Commands) /\ toClient \in Seq(Packets)
  BY <1>2, TypeFacts
<1>4. call' \in Calls /\ call'.rx = <<>> /\ call'.out = <<>> /\ call'.active = FALSE
  BY <1>1, QuietIsCall
<1>5. toServer' \in Seq(Commands)
  BY <1>1, <1>3
<1>6. toServer' \in Seq(Harmless) /\ session'.lastPacket \in Seq(Harmless) /\ session' \in Sessions
  <2>1. toServer \in Seq(Harmless) /\ call.out \in Seq(Harmless)
    BY <1>2 DEF WritesAreHarmless
  <2>2. toServer \o call.out \in Seq(Harmless)
    BY <2>1
  <2> QED
    BY <1>1, <1>2, <1>3, <2>2 DEF WritesAreHarmless
<1>7. Coming' = Coming /\ Going' = Going /\ Attaching' = Attaching
  <2> DEFINE a == toServer
             b == call.out
  <2>1. a \in Seq(Commands) /\ b \in Seq(Commands)
    BY <1>3
  <2>2. toServer' = a \o b
    BY <1>1
  <2>3. Going = Kept(a, Requests) \o Kept(b, Requests) /\ Attaching = Kept(a, Attaches) \o Kept(b, Attaches)
    BY DEF Going, Attaching
  <2> HIDE DEF a, b
  <2>4. Going' = Kept(a \o b, Requests) \o Kept(<<>>, Requests)
    BY <1>4, <2>2 DEF Going
  <2>5. Attaching' = Kept(a \o b, Attaches) \o Kept(<<>>, Attaches)
    BY <1>4, <2>2 DEF Attaching
  <2>6. \A S : Kept(a \o b, S) \o Kept(<<>>, S) = Kept(a, S) \o Kept(b, S)
    <3> TAKE S
    <3> QED
      BY <2>1, StreamJoins
  <2>8. Coming' = Coming
    BY <1>1, <1>4 DEF Coming
  <2> QED
    BY <2>3, <2>4, <2>5, <2>6, <2>8
<1>8. UNCHANGED <<target, debugger, touched, serverNoAck, lastReply, consoleSent>>
  BY <1>1 DEF serverVars
<1>9. AttachesOnce' /\ VerdictIsTrue'
  BY <1>1, <1>2, <1>7, <1>8 DEF AttachesOnce, VerdictIsTrue, Terminal
<1>10. CASE session.verdict # "none"
  <2>1. result' \in Outcomes
    BY <1>1, <1>3, <1>10 DEF Sessions
  <2> QED
    BY <1>1, <1>5, <1>6, <1>9, <1>10, <2>1, ReportKeeps
<1>11. CASE session.verdict = "none"
  <2>1. UNCHANGED <<result, link>> /\ ~Terminal
    BY <1>1, <1>2, <1>11 DEF VerdictIsTrue
  <2>2. link = "open" /\ Live
    <3>1. call.active = TRUE
      BY <1>1, <1>2, TypeFacts DEF Calls
    <3> QED
      BY <1>2, <2>1, <3>1 DEF CallIsPlaced, Live
  <2>3. TypeOK'
    BY <1>1, <1>2, <1>4, <1>5, <1>8, <2>1 DEF TypeOK, Calls
  <2>4. CallIsPlaced'
    BY <1>1, <1>2, <1>4, <2>1, <2>2 DEF CallIsPlaced
  <2>5. TokensMatch'
    BY <1>1, <1>2, <1>7, <2>2, TokensStay
  <2>6. WritesAreHarmless'
    <3>1. Harmless' = Harmless /\ (Clean' <=> Clean)
      BY <1>8 DEF Harmless, Clean
    <3>2. call'.out \in Seq(Harmless)
      BY <1>4
    <3> QED
      BY <1>2, <1>6, <1>8, <3>1, <3>2 DEF WritesAreHarmless
  <2>7. ProgressIsEarned'
    <3>1. SameData(session, session')
      BY <1>1 DEF SameData
    <3> QED
      BY <1>1, <1>2, <2>2, <3>1, ProgressStays
  <2> QED
    BY <1>9, <2>3, <2>4, <2>5, <2>6, <2>7 DEF SessionInv
<1> QED
  BY <1>10, <1>11

LEMMA WriteFailsKeeps == ASSUME SessionInv, WriteFails PROVE SessionInv'
<1>1. /\ call' = Quiet /\ result' = "uncertain" /\ link' = "cut"
      /\ UNCHANGED <<session, toClient, serverVars>>
  BY DEF WriteFails, Report
<1>2. PICK k \in 0 .. Len(call.out) - 1 : toServer' = toServer \o SubSeq(call.out, 1, k)
  BY DEF WriteFails
<1>3. TypeOK /\ WritesAreHarmless /\ AttachesOnce /\ VerdictIsTrue
  BY DEF SessionInv
<1>4. session \in Sessions /\ toServer \in Seq(Commands) /\ call.out \in Seq(Commands)
  BY <1>3, TypeFacts
<1> DEFINE a == toServer
           o == call.out
           b == SubSeq(o, 1, k)
           d == SubSeq(o, k + 1, Len(o))
<1>5. k \in 0 .. Len(o) /\ a \in Seq(Commands) /\ o \in Seq(Commands)
  BY <1>4
<1>6. b \in Seq(Commands) /\ d \in Seq(Commands)
  BY <1>5
<1>7. a \in Seq(Harmless) /\ b \in Seq(Harmless)
  <2>1. o \in Seq(Harmless)
    BY <1>3 DEF WritesAreHarmless
  <2>2. b \in Seq(Harmless)
    BY <1>5, <2>1
  <2> QED
    BY <1>3, <2>2 DEF WritesAreHarmless
<1>8. toServer' = a \o b
  BY <1>2
<1>9. Kept(b, Attaches) \o Kept(d, Attaches) = Kept(o, Attaches)
  BY <1>5, KeptSplit
<1>10. Attaching = Kept(a, Attaches) \o Kept(o, Attaches)
  BY DEF Attaching
<1> HIDE DEF a, o, b, d
<1>11. Attaching' = Kept(a, Attaches) \o Kept(b, Attaches)
  <2>1. Attaching' = Kept(a \o b, Attaches) \o Kept(<<>>, Attaches)
    BY <1>1, <1>8, QuietIsCall DEF Attaching
  <2>2. \A S : Kept(a \o b, S) \o Kept(<<>>, S) = Kept(a, S) \o Kept(b, S)
    <3> TAKE S
    <3>1. a \in Seq(Commands) /\ b \in Seq(Commands)
      BY <1>5, <1>6
    <3> QED
      BY <3>1, StreamJoins, SMTT(30)
  <2> QED
    BY <2>1, <2>2
<1>12. toServer' \in Seq(Commands) /\ toServer' \in Seq(Harmless)
  BY <1>5, <1>6, <1>7, <1>8
<1>13. UNCHANGED <<target, debugger, touched, serverNoAck, lastReply, consoleSent>>
  BY <1>1 DEF serverVars
<1>14. AttachesOnce'
  <2> DEFINE x == Kept(a, Attaches)
             y == Kept(b, Attaches)
             z == Kept(d, Attaches)
  <2>1. x \in Seq(Commands) /\ y \in Seq(Commands) /\ z \in Seq(Commands)
    BY <1>5, <1>6, KeptType
  <2>2. Attaching' = x \o y /\ Attaching = x \o (y \o z)
    BY <1>9, <1>10, <1>11
  <2> HIDE DEF x, y, z
  <2>3. Len(Attaching') = Len(x) + Len(y) /\ Len(Attaching) = Len(x) + (Len(y) + Len(z))
    BY <2>1, <2>2
  <2>4. Len(Attaching) <= 1 /\ (Attaching # <<>> => debugger = "none")
    BY <1>3 DEF AttachesOnce
  <2>5. Len(Attaching') <= 1
    BY <2>1, <2>3, <2>4
  <2>6. Attaching' # <<>> => Attaching # <<>>
    <3>1. Attaching \in Seq(Commands) /\ Attaching' \in Seq(Commands)
      BY <2>1, <2>2
    <3>2. Attaching = <<>> => Len(Attaching) = 0
      OBVIOUS
    <3> QED
      BY <2>1, <2>3, <3>1, <3>2
  <2> QED
    BY <1>13, <2>4, <2>5, <2>6 DEF AttachesOnce
<1>15. VerdictIsTrue'
  BY <1>1, <1>3, <1>13 DEF VerdictIsTrue, Terminal
<1>16. session' \in Sessions /\ session'.lastPacket \in Seq(Harmless)
  BY <1>1, <1>3, <1>4 DEF WritesAreHarmless
<1> QED
  BY <1>1, <1>12, <1>14, <1>15, <1>16, ReportKeeps DEF Outcomes

-----------------------------------------------------------------------------
(* The steps of the server.                                                *)

\* What a reply vouched for is true for good.
LEMMA VouchedStays ==
    ASSUME target' = target, touched \subseteq touched', serverNoAck = TRUE => serverNoAck' = TRUE,
           debugger = "gone" => debugger' = "gone"
    PROVE  \A c, p : Vouched(c, p) => Vouched(c, p)'
BY DEF Vouched

LEMMA EarnedStays ==
    ASSUME ProgressIsEarned, UNCHANGED <<session, link, target>>,
           touched \subseteq touched', touched' \subseteq Pages,
           Live /\ session.phase \in {"supported", "noAck", "detachPolicy"} => debugger' = debugger
    PROVE  ProgressIsEarned'
<1>1. Live' <=> Live
  BY DEF Live, Terminal
<1>2. ASSUME Live PROVE CommandsAreOfPhase' /\ PhaseIsEarned'
  <2>1. CommandsAreOfPhase /\ PhaseIsEarned
    BY <1>2 DEF ProgressIsEarned
  <2>2. \A i : Asked(i)' = Asked(i)
    BY DEF Asked
  <2>3. CommandsAreOfPhase'
    BY <2>1, <2>2 DEF CommandsAreOfPhase
  <2>4. touched = Pages => touched' = Pages
    OBVIOUS
  <2>5. \A q : Passed(q)' <=> Passed(q)
    BY DEF Passed
  <2>6. PhaseIsEarned'
    BY <1>2, <2>1, <2>2, <2>4, <2>5 DEF PhaseIsEarned, Clean
  <2> QED
    BY <2>3, <2>6
<1> QED
  BY <1>1, <1>2 DEF ProgressIsEarned

\* The first command leaves the stream.
LEMMA CommandTaken ==
    ASSUME TypeOK, toServer # <<>>, toServer' = Tail(toServer), call' = call
    PROVE  /\ Head(toServer) \in Commands /\ toServer' \in Seq(Commands) /\ Attaching' \in Seq(Commands)
           /\ Taken(Going, Head(toServer), Going', Requests)
           /\ Taken(Attaching, Head(toServer), Attaching', Attaches)
<1>1. toServer \in Seq(Commands) /\ call.out \in Seq(Commands)
  BY TypeFacts
<1>2. /\ Cat(Going, Kept(toServer, Requests), Kept(call.out, Requests))
      /\ Cat(Attaching, Kept(toServer, Attaches), Kept(call.out, Attaches))
  BY StreamFacts
<1>3. /\ Cat(Going', Kept(Tail(toServer), Requests), Kept(call.out, Requests))
      /\ Cat(Attaching', Kept(Tail(toServer), Attaches), Kept(call.out, Attaches))
  BY StreamsAfter
<1>4. Taken(Going, Head(toServer), Going', Requests)
  BY <1>1, <1>2, <1>3, StreamTakes
<1>5. Taken(Attaching, Head(toServer), Attaching', Attaches)
  BY <1>1, <1>2, <1>3, StreamTakes
<1>6. Tail(toServer) \in Seq(Commands) /\ Head(toServer) \in Commands
  BY <1>1
<1>7. Attaching' \in Seq(Commands)
  BY <1>1, <1>3, <1>6, StreamType
<1> QED
  BY <1>4, <1>5, <1>6, <1>7

\* One packet is delivered to a client that has its stream.
LEMMA PacketComes ==
    ASSUME TypeOK, call' = call, NEW ps \in Seq(Packets), toClient' = toClient \o ps
    PROVE  toClient' \in Seq(Packets) /\ Cat(Coming', Coming, Kept(ps, Returns))
<1>1. toClient \in Seq(Packets) /\ call.rx \in Seq(Packets)
  BY TypeFacts
<1>2. Cat(Coming, Kept(call.rx, Returns), Kept(toClient, Returns))
  BY StreamFacts
<1>3. Cat(Coming', Kept(call.rx, Returns), Kept(toClient \o ps, Returns))
  BY StreamsAfter
<1>4. Cat(Coming', Coming, Kept(ps, Returns))
  BY <1>1, <1>2, <1>3, StreamGrows
<1> QED
  BY <1>1, <1>4

\* What an attach on its way allows: it is executed once.
LEMMA AttachTaken ==
    ASSUME AttachesOnce, TypeOK, Attaching' \in Seq(Commands), NEW c, Taken(Attaching, c, Attaching', Attaches),
           c \notin Attaches => debugger' = debugger \/ (debugger = "attached" /\ debugger' = "gone")
    PROVE  AttachesOnce' /\ (c \in Attaches => debugger = "none")
<1>1. Len(Attaching) <= 1 /\ (Attaching # <<>> => debugger = "none")
  BY DEF AttachesOnce
<1>2. CASE c \in Attaches
  <2>1. Len(Attaching') \in Nat /\ Len(Attaching) = Len(Attaching') + 1
    BY <1>2 DEF Taken, Follows
  <2>2. Attaching \in Seq(Commands)
    BY StreamFacts
  <2>3. Len(Attaching') = 0 /\ Attaching # <<>>
    BY <1>1, <2>1, <2>2
  <2>4. Attaching' = <<>>
    BY <2>3
  <2> QED
    BY <1>1, <1>2, <2>3, <2>4 DEF AttachesOnce
<1>3. CASE c \notin Attaches
  BY <1>1, <1>3 DEF Taken, AttachesOnce
<1> QED
  BY <1>2, <1>3

\* A command is taken from the stream, and what comes of it put into it.
LEMMA TokenTurns ==
    ASSUME SessionInv, Live, UNCHANGED <<session, link>>,
           NEW d, Follows(Going, d, Going'), NEW p, Cat(Coming', Coming, <<p>>),
           \A c, q : Vouched(c, q) => Vouched(c, q)', serverNoAck = TRUE => serverNoAck' = TRUE,
           NEW j, j = Len(Coming) + 1, Returned(Asked(j), p)'
    PROVE  TokensMatch'
<1>1. TypeOK /\ TokensMatch
  BY DEF SessionInv
<1>2. Coming \in Seq(Packets) /\ Going \in Seq(Commands) /\ Len(Coming) \in Nat /\ Len(Going) \in Nat
  <2>1. Coming \in Seq(Packets) /\ Going \in Seq(Commands)
    BY <1>1, StreamFacts
  <2> QED
    BY <2>1
<1>3. /\ session.outstanding \in 1 .. Len(session.lastPacket)
      /\ Len(Coming) + Len(Going) = session.outstanding
      /\ \A i \in 1 .. Len(Coming) : Returned(Asked(i), Coming[i])
      /\ \A i \in 1 .. Len(Going) : Requested(Asked(Len(Coming) + i), Going[i])
      /\ session.noAck = TRUE => serverNoAck = TRUE
  BY <1>1 DEF TokensMatch
<1>4. /\ Len(Going') \in Nat /\ Len(Going) = Len(Going') + 1
      /\ \A i \in 1 .. Len(Going') : Going'[i] = Going[i + 1]
  BY DEF Follows
<1>5. /\ Len(Coming') = Len(Coming) + 1 /\ Coming'[Len(Coming) + 1] = p
      /\ \A i \in 1 .. Len(Coming) : Coming'[i] = Coming[i]
  BY <1>2 DEF Cat
<1>6. \A i : Asked(i)' = Asked(i)
  BY DEF Asked
<1>7. session.noAck = FALSE => Len(Coming) = 0 /\ Len(Going') = 0
  <2>1. session.noAck = FALSE => session.outstanding = 1
    BY AcknowledgedIsEarly
  <2> QED
    BY <1>2, <1>3, <1>4, <2>1
<1>8. ASSUME NEW i \in 1 .. Len(Coming') PROVE Returned(Asked(i), Coming[i])'
  <2>1. CASE i = Len(Coming) + 1
    <3>1. Coming'[i] = p /\ i = j
      BY <1>5, <2>1
    <3> QED
      BY <3>1 DEF Returned, Vouched
  <2>2. CASE i # Len(Coming) + 1
    <3>0. i \in 1 .. Len(Coming)
      BY <1>2, <1>5, <2>2
    <3>1. i \in 1 .. Len(Coming) /\ session.noAck # FALSE
      <4>1. ASSUME session.noAck = FALSE PROVE FALSE
        <5>1. Len(Coming) = 0
          BY <1>7, <4>1
        <5> QED
          BY <3>0, <5>1
      <4> QED
        BY <3>0, <4>1
    <3>2. Coming[i].kind = "reply" /\ Vouched(Asked(i), Coming[i])
      BY <1>3, <3>1 DEF Returned
    <3>3. Vouched(Asked(i), Coming[i])'
      <4>1. Vouched(Asked(i), Coming[i]) /\ Coming'[i] = Coming[i] /\ Asked(i)' = Asked(i)
        BY <1>5, <1>6, <3>1, <3>2
      <4> DEFINE c == Asked(i)
                 q == Coming[i]
      <4> QED
        BY <4>1 DEF Vouched
    <3> QED
      BY <1>5, <3>1, <3>2, <3>3 DEF Returned
  <2> QED
    BY <2>1, <2>2
<1>9. ASSUME NEW i \in 1 .. Len(Going') PROVE Requested(Asked(Len(Coming) + i), Going[i])'
  <2>1. session.noAck # FALSE
    <3>1. ASSUME session.noAck = FALSE PROVE FALSE
      <4>1. Len(Going') = 0
        BY <1>7, <3>1
      <4> QED
        BY <4>1
    <3> QED
      BY <3>1
  <2>2. i + 1 \in 1 .. Len(Going) /\ Len(Coming') + i = Len(Coming) + (i + 1) /\ Going'[i] = Going[i + 1]
    BY <1>2, <1>4, <1>5
  <2>3. Going[i + 1] = Asked(Len(Coming) + (i + 1))
    BY <1>3, <2>1, <2>2 DEF Requested
  <2>4. Asked(Len(Coming) + i)' = Asked(Len(Coming) + (i + 1))
    BY <1>6, <2>2
  <2> QED
    BY <2>2, <2>3, <2>4 DEF Requested
<1>10. Len(Coming') + Len(Going') = session'.outstanding
  BY <1>2, <1>3, <1>4, <1>5
<1>11. session'.outstanding \in 1 .. Len(session'.lastPacket) /\ (session'.noAck = TRUE => serverNoAck' = TRUE)
  BY <1>3
<1> QED
  BY <1>8, <1>9, <1>10, <1>11 DEF TokensMatch

\* The server does to the invariant's other parts no harm.
LEMMA ServerKeeps ==
    ASSUME SessionInv, toServer # <<>>, toServer' = Tail(toServer), UNCHANGED <<clientVars, target, link, consoleSent>>,
           toClient' \in Seq(Packets), debugger' \in {"none", "attached", "gone"},
           touched \subseteq touched', touched' \subseteq Pages, touched' # {} => Clean,
           serverNoAck' \in BOOLEAN, debugger = "gone" => debugger' = "gone", lastReply' \in Packets,
           Live /\ session.phase \in {"supported", "noAck", "detachPolicy"} => debugger' = debugger,
           Live => TokensMatch', AttachesOnce'
    PROVE  SessionInv'
<1>1. TypeOK /\ CallIsPlaced /\ WritesAreHarmless /\ VerdictIsTrue /\ ProgressIsEarned
  BY DEF SessionInv
<1>2. UNCHANGED <<session, call, result>>
  BY DEF clientVars
<1>3. toServer \in Seq(Commands) /\ toServer \in Seq(Harmless)
  BY <1>1, TypeFacts DEF WritesAreHarmless
<1>4. Tail(toServer) \in Seq(Commands) /\ Tail(toServer) \in Seq(Harmless)
  BY <1>3
<1>5. TypeOK'
  BY <1>1, <1>2, <1>4 DEF TypeOK
<1>6. link # "opening"
  BY <1>1 DEF CallIsPlaced
<1>7. CallIsPlaced'
  BY <1>1, <1>2, <1>6 DEF CallIsPlaced, Terminal
<1>8. TokensMatch'
  <2>1. CASE Live
    BY <2>1
  <2>2. CASE ~Live
    <3>1. ~Live'
      BY <1>2, <2>2 DEF Live, Terminal
    <3> QED
      BY <3>1 DEF TokensMatch
  <2> QED
    BY <2>1, <2>2
<1>9. WritesAreHarmless'
  <2>1. Harmless' = Harmless /\ (Clean' <=> Clean)
    BY DEF Harmless, Clean
  <2> QED
    BY <1>1, <1>2, <1>4, <2>1 DEF WritesAreHarmless
<1>10. VerdictIsTrue'
  <2>1. touched = Pages => touched' = Pages
    OBVIOUS
  <2> QED
    BY <1>1, <1>2, <2>1 DEF VerdictIsTrue, Terminal
<1>11. ProgressIsEarned'
  BY <1>1, <1>2, EarnedStays
<1> QED
  BY <1>5, <1>7, <1>8, <1>9, <1>10, <1>11 DEF SessionInv

\* What the session waits for is neither an acknowledgement nor a repetition.
LEMMA AwaitedIsCommand ==
    ASSUME SessionInv, Live, NEW i \in 1 .. session.outstanding
    PROVE  Asked(i).op # "-"
<1>1. CommandsAreOfPhase /\ session.phase \in Phases /\ session.phase \notin {"idle", "complete", "failed"}
  BY TypeFacts DEF SessionInv, ProgressIsEarned, CallIsPlaced, Live, Terminal
<1>2. session.outstanding \in 1 .. Len(session.lastPacket)
  BY DEF SessionInv, TokensMatch
<1>3. CASE session.phase \in Batches
  BY <1>1, <1>3 DEF CommandsAreOfPhase, Batches
<1>4. CASE session.phase = "region"
  <2>1. session.outstanding = 1 /\ Asked(1) = Command("qMemoryRegionInfo", session.index, session.regionCursor, 0)
    BY <1>1, <1>2, <1>4, OneCommand
  <2>2. Asked(1).op = "qMemoryRegionInfo" /\ i = 1
    BY <2>1 DEF Command
  <2> QED
    BY <2>2
<1>5. CASE session.phase \in DOMAIN OpOf
  <2>1. session.outstanding = 1 /\ Asked(1) = Plain(OpOf[session.phase]) /\ OpOf[session.phase] # "-"
    BY <1>1, <1>2, <1>5, OneCommand DEF OpOf
  <2>2. Asked(1).op # "-" /\ i = 1
    BY <2>1 DEF Plain, Command
  <2> QED
    BY <2>2
<1> QED
  BY <1>1, <1>3, <1>4, <1>5 DEF Phases, Batches, OpOf

\* The command the server takes next is the first the session waits for that
\* has not come back.
LEMMA TakenIsAwaited ==
    ASSUME SessionInv, Live, NEW d, NEW r, Follows(Going, d, r)
    PROVE  Len(Coming) + 1 \in 1 .. session.outstanding /\ Requested(Asked(Len(Coming) + 1), d)
<1>1. TokensMatch
  BY DEF SessionInv
<1>2. Coming \in Seq(Packets)
  BY StreamFacts DEF SessionInv
<1>3. Len(Coming) \in Nat
  BY <1>2
<1>4. Len(Going) >= 1 /\ Going[1] = d /\ Len(Going) \in Nat
  BY DEF Follows
<1>5. 1 \in 1 .. Len(Going)
  BY <1>4
<1>6. Len(Coming) + Len(Going) = session.outstanding
  BY <1>1 DEF TokensMatch
<1>7. Requested(Asked(Len(Coming) + 1), Going[1])
  BY <1>1, <1>5 DEF TokensMatch
<1> QED
  BY <1>3, <1>4, <1>6, <1>7

LEMMA ServerTakesAckKeeps == ASSUME SessionInv, ServerTakesAck PROVE SessionInv'
<1>1. /\ toServer # <<>> /\ toServer' = Tail(toServer) /\ Head(toServer).op = "+"
      /\ UNCHANGED <<session, call, result, target, link, toClient>>
      /\ UNCHANGED <<target, debugger, touched, serverNoAck, lastReply, consoleSent>>
  BY DEF ServerTakesAck, ServerTakes, clientVars, serverVars
<1>2. TypeOK /\ TokensMatch /\ AttachesOnce /\ WritesAreHarmless
  BY DEF SessionInv
<1>3. /\ Taken(Going, Head(toServer), Going', Requests) /\ Taken(Attaching, Head(toServer), Attaching', Attaches)
  BY <1>1, <1>2, CommandTaken
<1>4. Going' = Going /\ Attaching' = Attaching /\ Coming' = Coming
  BY <1>1, <1>3 DEF Taken, Requests, Attaches, Coming
<1>5. Live => TokensMatch'
  BY <1>1, <1>2, <1>4, TokensStay
<1>6. AttachesOnce'
  BY <1>1, <1>2, <1>4 DEF AttachesOnce
<1> QED
  BY <1>1, <1>2, <1>5, <1>6, ServerKeeps DEF TypeOK, WritesAreHarmless, clientVars

LEMMA ServerNacksKeeps == ASSUME SessionInv, ServerNacks PROVE SessionInv'
<1> DEFINE c == Head(toServer)
           p == Packet("nack")
<1>1. /\ toServer # <<>> /\ toServer' = Tail(toServer) /\ c.op \notin {"+", "-"} /\ ~serverNoAck
      /\ toClient' = IF link = "open" THEN toClient \o <<p>> ELSE toClient
      /\ UNCHANGED <<session, call, result, target, link>>
      /\ UNCHANGED <<target, debugger, touched, serverNoAck, lastReply, consoleSent>>
  BY DEF ServerNacks, ServerTakes, IsCommand, Deliver, clientVars, serverVars
<1>2. TypeOK /\ TokensMatch /\ AttachesOnce /\ WritesAreHarmless
  BY DEF SessionInv
<1>3. p \in Packets /\ p \in Returns /\ p.kind = "nack"
  BY DEF Packet, Packets, Returns
<1>4. /\ c \in Commands /\ Taken(Going, c, Going', Requests) /\ Taken(Attaching, c, Attaching', Attaches)
      /\ Attaching' \in Seq(Commands)
  BY <1>1, <1>2, CommandTaken
<1> HIDE DEF c, p
<1>5. Follows(Going, c, Going')
  BY <1>1, <1>4 DEF Taken, Requests
<1>6. AttachesOnce'
  BY <1>1, <1>2, <1>4, AttachTaken
<1>7. toClient' \in Seq(Packets)
  <2>1. toClient \in Seq(Packets) /\ <<p>> \in Seq(Packets)
    BY <1>2, <1>3, TypeFacts
  <2> DEFINE q == <<p>>
  <2> HIDE DEF q
  <2>2. toClient \o q \in Seq(Packets)
    BY <2>1 DEF q
  <2> QED
    BY <1>1, <2>1, <2>2 DEF q
<1>8. ASSUME Live PROVE TokensMatch'
  <2>1. session.noAck = FALSE
    <3>1. session.noAck \in BOOLEAN /\ (session.noAck = TRUE => serverNoAck = TRUE)
      BY <1>2, <1>8, TypeFacts DEF TokensMatch
    <3> QED
      BY <1>1, <3>1
  <2>2. Cat(Coming', Coming, <<p>>)
    <3>1. <<p>> \in Seq(Packets) /\ toClient' = toClient \o <<p>>
      BY <1>1, <1>3, <1>8 DEF Live
    <3>2. Kept(<<p>>, Returns) = <<p>>
      BY <1>3, KeptOne
    <3> DEFINE q == <<p>>
    <3> HIDE DEF q
    <3>3. Cat(Coming', Coming, Kept(q, Returns))
      BY <1>1, <1>2, <3>1, PacketComes DEF q
    <3> QED
      BY <3>2, <3>3 DEF q
  <2>3. PICK j : j = Len(Coming) + 1
    OBVIOUS
  <2>4. Returned(Asked(j), p)'
    BY <1>1, <1>3, <2>1 DEF Returned
  <2>5. \A d, q : Vouched(d, q) => Vouched(d, q)'
    BY <1>1, VouchedStays
  <2> QED
    BY <1>1, <1>5, <1>8, <2>2, <2>3, <2>4, <2>5, TokenTurns
<1> QED
  BY <1>1, <1>2, <1>6, <1>7, <1>8, ServerKeeps DEF TypeOK, WritesAreHarmless, clientVars

\* Of packets ps the session awaits p.
Carries(ps, p) == ps \in Seq(Packets) /\ Kept(ps, Returns) = <<p>>

LEMMA OneCarries == ASSUME NEW p \in Packets, p \in Returns PROVE Carries(<<p>>, p)
<1>1. <<p>> \in Seq(Packets)
  OBVIOUS
<1>2. Kept(<<p>>, Returns) = <<p>>
  BY KeptOne
<1> QED
  BY <1>1, <1>2 DEF Carries

LEMMA AckCarries == ASSUME NEW p \in Packets, p \in Returns PROVE Carries(<<Packet("ack")>> \o <<p>>, p)
<1> DEFINE a == <<Packet("ack")>>
           b == <<p>>
<1>1. Packet("ack") \in Packets /\ Packet("ack") \notin Returns
  BY DEF Packet, Packets, Returns
<1>2. a \in Seq(Packets) /\ b \in Seq(Packets)
  BY <1>1
<1>3. Kept(a, Returns) = <<>> /\ Kept(b, Returns) = b
  BY <1>1, KeptOne
<1>4. b = <<p>>
  OBVIOUS
<1> HIDE DEF a, b
<1>5. Kept(a \o b, Returns) = Kept(a, Returns) \o Kept(b, Returns)
  BY <1>2, KeptConcat
<1>6. a \o b \in Seq(Packets) /\ <<>> \o b = b
  BY <1>2
<1>7. Kept(a \o b, Returns) = <<p>>
  BY <1>3, <1>4, <1>5, <1>6
<1>8. Carries(a \o b, p)
  BY <1>6, <1>7 DEF Carries
<1> QED
  BY <1>8 DEF a, b

LEMMA Delivered ==
    ASSUME TypeOK, call' = call, NEW ps, NEW p, Carries(ps, p), Deliver(ps)
    PROVE  toClient' \in Seq(Packets) /\ (Live => Cat(Coming', Coming, <<p>>))
<1>1. toClient \in Seq(Packets) /\ ps \in Seq(Packets) /\ Kept(ps, Returns) = <<p>>
  BY TypeFacts DEF Carries
<1>2. CASE link = "open"
  <2>1. toClient' = toClient \o ps
    BY <1>2 DEF Deliver
  <2>2. toClient' \in Seq(Packets) /\ Cat(Coming', Coming, Kept(ps, Returns))
    BY <1>1, <2>1, PacketComes
  <2> QED
    BY <1>1, <2>2
<1>3. CASE link # "open"
  BY <1>1, <1>3 DEF Deliver, Live
<1> QED
  BY <1>2, <1>3

LEMMA ServerRepeatsKeeps == ASSUME SessionInv, ServerRepeats PROVE SessionInv'
<1> DEFINE c == Head(toServer)
<1>1. /\ toServer # <<>> /\ toServer' = Tail(toServer) /\ c.op = "-"
      /\ UNCHANGED <<session, call, result, target, link>>
      /\ UNCHANGED <<target, debugger, touched, serverNoAck, lastReply, consoleSent>>
  BY DEF ServerRepeats, ServerTakes, clientVars, serverVars
<1>2. TypeOK /\ TokensMatch /\ AttachesOnce /\ WritesAreHarmless
  BY DEF SessionInv
<1>3. PICK p \in {lastReply, Packet("bad")} : Deliver(<<p>>)
  BY DEF ServerRepeats
<1>4. p \in Packets
  BY <1>2 DEF TypeOK, Packet, Packets
<1>5. /\ c \in Commands /\ Taken(Going, c, Going', Requests) /\ Taken(Attaching, c, Attaching', Attaches)
      /\ Attaching' \in Seq(Commands)
  BY <1>1, <1>2, CommandTaken
<1> HIDE DEF c
<1>6. Follows(Going, c, Going')
  BY <1>1, <1>5 DEF Taken, Requests
<1>7. AttachesOnce'
  BY <1>1, <1>2, <1>5, AttachTaken
<1>8. toClient' \in Seq(Packets)
  <2>1. toClient \in Seq(Packets)
    BY <1>2, TypeFacts
  <2> DEFINE q == <<p>>
  <2>2. q \in Seq(Packets) /\ Deliver(q)
    BY <1>3, <1>4
  <2> HIDE DEF q
  <2>3. toClient \o q \in Seq(Packets)
    BY <2>1, <2>2
  <2> QED
    BY <2>1, <2>2, <2>3 DEF Deliver
<1>9. ASSUME Live PROVE TokensMatch'
  <2>1. Len(Coming) + 1 \in 1 .. session.outstanding /\ Requested(Asked(Len(Coming) + 1), c)
    BY <1>6, <1>9, TakenIsAwaited
  <2>2. PICK j : j = Len(Coming) + 1
    OBVIOUS
  <2>3. j \in 1 .. session.outstanding /\ Requested(Asked(j), c)
    BY <2>1, <2>2
  <2>4. Asked(j).op # "-"
    BY <1>9, <2>3, AwaitedIsCommand
  <2>5. session.noAck = FALSE /\ lastReply.kind = "reply" /\ Vouched(Asked(j), lastReply)
    BY <1>1, <2>3, <2>4 DEF Requested
  <2>6. p.kind \in {"reply", "bad"} /\ (p.kind = "reply" => p = lastReply)
    BY <2>5 DEF Packet
  <2>7. p \in Returns
    BY <1>4, <2>6 DEF Returns
  <2>8. Cat(Coming', Coming, <<p>>)
    <3>1. Carries(<<p>>, p)
      BY <1>4, <2>7, OneCarries
    <3> DEFINE q == <<p>>
    <3>2. Carries(q, p) /\ Deliver(q)
      BY <1>3, <3>1
    <3> HIDE DEF q
    <3> QED
      BY <1>1, <1>2, <1>9, <3>2, Delivered
  <2>9. \A d, q : Vouched(d, q) => Vouched(d, q)'
    BY <1>1, VouchedStays
  <2>10. Vouched(Asked(j), lastReply)'
    BY <1>1, <2>5 DEF Vouched, Asked
  <2>11. Returned(Asked(j), p)'
    BY <1>1, <2>5, <2>6, <2>10 DEF Returned
  <2> QED
    BY <1>1, <1>6, <1>9, <2>2, <2>8, <2>9, <2>11, TokenTurns
<1> QED
  BY <1>1, <1>2, <1>7, <1>8, <1>9, ServerKeeps DEF TypeOK, WritesAreHarmless, clientVars

LEMMA ServerConsoleKeeps == ASSUME SessionInv, ServerConsole PROVE SessionInv'
<1> DEFINE ps == <<Packet("console")>>
<1>1. /\ consoleSent < ConsoleBudget /\ consoleSent' = consoleSent + 1 /\ link = "open"
      /\ toClient' = toClient \o ps
      /\ UNCHANGED <<session, call, result, link, toServer, target, debugger, touched, serverNoAck, lastReply>>
  BY DEF ServerConsole, Deliver, clientVars
<1>2. TypeOK /\ CallIsPlaced /\ TokensMatch /\ WritesAreHarmless /\ AttachesOnce /\ VerdictIsTrue /\ ProgressIsEarned
  BY DEF SessionInv
<1>3. ps \in Seq(Packets) /\ Kept(ps, Returns) = <<>>
  <2>1. Packet("console") \in Packets /\ Packet("console") \notin Returns
    BY DEF Packet, Packets, Returns
  <2>2. Kept(ps, Returns) = <<>>
    BY <2>1, KeptOne
  <2> QED
    BY <2>1, <2>2
<1> HIDE DEF ps
<1>4. toClient' \in Seq(Packets) /\ Cat(Coming', Coming, <<>>)
  <2>1. toClient' \in Seq(Packets) /\ Cat(Coming', Coming, Kept(ps, Returns))
    BY <1>1, <1>2, <1>3, PacketComes
  <2> QED
    BY <1>3, <2>1
<1>5. Coming' = Coming
  <2>1. Coming \in Seq(Packets)
    BY <1>2, StreamFacts
  <2> QED
    BY <1>4, <2>1, CatNone
<1>6. Going' = Going /\ Attaching' = Attaching
  BY <1>1 DEF Going, Attaching
<1>7. consoleSent' \in 0 .. ConsoleBudget
  BY <1>1, <1>2, LimitsAssumption DEF TypeOK
<1>8. TypeOK'
  BY <1>1, <1>2, <1>4, <1>7 DEF TypeOK
<1>9. CallIsPlaced'
  BY <1>1, <1>2 DEF CallIsPlaced, Terminal
<1>10. TokensMatch'
  <2>1. CASE Live
    BY <1>1, <1>2, <1>5, <1>6, <2>1, TokensStay
  <2>2. CASE ~Live
    BY <1>1, <2>2 DEF TokensMatch, Live, Terminal
  <2> QED
    BY <2>1, <2>2
<1>11. WritesAreHarmless'
  <2>1. Harmless' = Harmless /\ (Clean' <=> Clean)
    BY <1>1 DEF Harmless, Clean
  <2> QED
    BY <1>1, <1>2, <2>1 DEF WritesAreHarmless
<1>12. AttachesOnce' /\ VerdictIsTrue'
  BY <1>1, <1>2, <1>6 DEF AttachesOnce, VerdictIsTrue, Terminal
<1>13. ProgressIsEarned'
  BY <1>1, <1>2, EarnedStays DEF TypeOK
<1> QED
  BY <1>8, <1>9, <1>10, <1>11, <1>12, <1>13 DEF SessionInv

LEMMA ServerLosesClientKeeps == ASSUME SessionInv, ServerLosesClient PROVE SessionInv'
<1>1. /\ link = "cut" /\ toServer' = <<>>
      /\ debugger' = IF debugger = "attached" THEN "gone" ELSE debugger
      /\ UNCHANGED <<session, call, result, link, toClient, target, touched, serverNoAck, lastReply, consoleSent>>
  BY DEF ServerLosesClient, clientVars
<1>2. TypeOK /\ CallIsPlaced /\ WritesAreHarmless /\ AttachesOnce /\ VerdictIsTrue
  BY DEF SessionInv
<1>3. call'.out = <<>>
  <2>1. call.active # TRUE /\ call.active \in BOOLEAN
    BY <1>1, <1>2, TypeFacts DEF CallIsPlaced, Calls
  <2>2. ~call.active
    BY <2>1
  <2> QED
    BY <1>1, <2>2, IdleIsQuiet
<1>4. <<>> \in Seq(Commands) /\ <<>> \in Seq(Harmless)
  OBVIOUS
<1>5. TypeOK'
  BY <1>1, <1>2, <1>4 DEF TypeOK
<1>6. CallIsPlaced'
  BY <1>1, <1>2 DEF CallIsPlaced, Terminal
<1>7. TokensMatch' /\ ProgressIsEarned'
  BY <1>1 DEF TokensMatch, ProgressIsEarned, Live
<1>8. WritesAreHarmless'
  <2>1. Harmless' = Harmless /\ (Clean' <=> Clean)
    BY <1>1 DEF Harmless, Clean
  <2> QED
    BY <1>1, <1>2, <1>4, <2>1 DEF WritesAreHarmless
<1>9. AttachesOnce'
  <2>1. Kept(<<>>, Attaches) = <<>>
    BY KeptEmpty
  <2>2. Attaching' = <<>> \o <<>>
    BY <1>1, <1>3, <2>1 DEF Attaching
  <2>3. Attaching' = <<>> /\ Len(Attaching') = 0
    BY <2>2
  <2> QED
    BY <2>3 DEF AttachesOnce
<1>10. VerdictIsTrue'
  BY <1>1, <1>2 DEF VerdictIsTrue, Terminal
<1> QED
  BY <1>5, <1>6, <1>7, <1>8, <1>9, <1>10 DEF SessionInv

\* What a true answer says.
LEMMA TruthIsPacket ==
    ASSUME NEW c \in Commands, c.op \notin {"+", "-"}, NEW answer \in Truth(c) \cup {<<"E", 0>>, <<"other", 0>>}
    PROVE  /\ answer[1] \in {"OK", "E", "features", "stop", "process", "challenge", "region", "zeros", "other"}
           /\ answer[2] \in Nat
<1>0. c.at \in Nat /\ Chunks \subseteq Nat
  BY LimitsAssumption DEF Commands
<1>1. CASE answer \in {<<"E", 0>>, <<"other", 0>>}
  BY <1>1
<1>2. CASE answer \in Truth(c)
  <2>1. CASE c.op = "qSupported"
    BY <1>0, <1>2, <2>1 DEF Truth
  <2>2. CASE c.op \in {"QStartNoAckMode", "QSetDetachOnError"}
    BY <1>2, <2>2 DEF Truth
  <2>3. CASE c.op = "vAttach"
    BY <1>2, <2>3 DEF Truth
  <2>4. CASE c.op \notin {"qSupported", "QStartNoAckMode", "QSetDetachOnError", "vAttach"}
    <3>1. answer \in Finds(c)
      BY <1>2, <2>4 DEF Truth
    <3>2. CASE c.op = "qMemoryRegionInfo"
      <4>1. PICK e \in c.at + 1 .. Size[c.r] + 1 : answer = <<"region", e>>
        BY <3>1, <3>2 DEF Finds
      <4>2. e \in Nat
        BY <1>0
      <4> QED
        BY <4>1, <4>2
    <3>3. CASE c.op \in {"qProcessInfo", "challenge", "m", "M", "D"}
      BY <3>1, <3>3 DEF Finds
    <3> QED
      BY <2>4, <3>2, <3>3 DEF Commands
  <2> QED
    BY <2>1, <2>2, <2>3, <2>4
<1> QED
  BY <1>1, <1>2

\* The reply to a command vouches for what it says.
LEMMA TruthVouches ==
    ASSUME TypeOK, NEW c \in Commands, c.op \notin {"+", "-"},
           NEW answer \in Truth(c) \cup {<<"E", 0>>, <<"other", 0>>},
           Executes(c, answer[1]), target' = target
    PROVE  Vouched(c, Reply(answer[1], answer[2]))'
<1> DEFINE p == Reply(answer[1], answer[2])
<1>1. p.text = answer[1] /\ p.value = answer[2]
  BY DEF Reply
<1> HIDE DEF p
<1>2. CASE answer \in {<<"E", 0>>, <<"other", 0>>}
  <2>1. answer[1] \in {"E", "other"}
    BY <1>2
  <2>2. p.text \in {"E", "other"}
    BY <1>1, <2>1
  <2>3. Vouched(c, p)'
    BY <2>2 DEF Vouched
  <2> QED
    BY <2>3 DEF p
<1>3. CASE answer \in Truth(c)
  <2>1. answer[1] # "E" => (c.op = "QStartNoAckMode" => serverNoAck' = TRUE)
    BY <1>3 DEF Executes
  <2>2. answer[1] # "E" => (c.op = "M" => <<c.r, c.at>> \in touched')
    BY <1>3 DEF Executes
  <2>3. answer[1] # "E" => (c.op = "D" => debugger' = "gone")
    BY <1>3 DEF Executes
  <2>4. c.op = "qSupported" => answer[2] \in Chunks
    BY <1>3 DEF Truth
  <2>5. c.op = "qProcessInfo" /\ answer[1] = "process" => target.process = TRUE
    <3>1. c.op = "qProcessInfo" => answer = <<IF target.process THEN "process" ELSE "other", 0>>
      BY <1>3 DEF Truth, Finds
    <3>2. target.process \in BOOLEAN
      BY TargetsAssumption DEF TypeOK
    <3> QED
      BY <3>1, <3>2
  <2>6. c.op = "challenge" /\ answer[1] = "challenge" => target.challenge = TRUE
    <3>1. c.op = "challenge" => answer = <<IF target.challenge THEN "challenge" ELSE "other", 0>>
      BY <1>3 DEF Truth, Finds
    <3>2. target.challenge \in BOOLEAN
      BY TargetsAssumption DEF TypeOK
    <3> QED
      BY <3>1, <3>2
  <2>7. ASSUME c.op = "qMemoryRegionInfo"
        PROVE  answer[2] > c.at /\ \A u \in c.at .. answer[2] - 1 : <<c.r, u>> \notin target.unsafe
    <3>1. PICK e \in c.at + 1 .. Size[c.r] + 1 :
             answer = <<"region", e>> /\ \A u \in c.at .. e - 1 : <<c.r, u>> \notin target.unsafe
      BY <1>3, <2>7 DEF Truth, Finds
    <3>2. e > c.at /\ answer[2] = e
      <4>1. c.at \in Nat
        BY DEF Commands
      <4> QED
        BY <3>1, <4>1
    <3> QED
      BY <3>1, <3>2
  <2>8. c.op = "m" /\ answer[1] = "zeros" => \A u \in c.at .. c.at + c.n - 1 : <<c.r, u>> \notin target.dirty
    <3>1. c.op = "m" => answer = <<IF \E u \in c.at .. c.at + c.n - 1 : <<c.r, u>> \in target.dirty
                                   THEN "other" ELSE "zeros", 0>>
      BY <1>3 DEF Truth, Finds
    <3> QED
      BY <3>1
  <2>9. Vouched(c, p)'
    BY <1>1, <2>1, <2>2, <2>3, <2>4, <2>5, <2>6, <2>7, <2>8 DEF Vouched
  <2> QED
    BY <2>9 DEF p
<1> QED
  BY <1>2, <1>3

\* What a command does to the server and the target.
LEMMA ExecutedFacts ==
    ASSUME SessionInv, NEW c \in Commands, c \in Harmless, NEW text, Executes(c, text)
    PROVE  /\ \/ debugger' = debugger
              \/ c.op = "vAttach" /\ debugger' = "attached"
              \/ c.op = "D" /\ debugger = "attached" /\ debugger' = "gone"
           /\ touched \subseteq touched' /\ touched' \subseteq Pages /\ (touched' # {} => Clean)
           /\ serverNoAck' \in BOOLEAN /\ (serverNoAck = TRUE => serverNoAck' = TRUE)
<1>1. touched \subseteq Pages /\ (touched # {} => Clean) /\ serverNoAck \in BOOLEAN
  BY DEF SessionInv, TypeOK, WritesAreHarmless
<1>2. /\ \/ debugger' = debugger
         \/ c.op = "vAttach" /\ debugger' = "attached"
         \/ c.op = "D" /\ debugger = "attached" /\ debugger' = "gone"
  BY DEF Executes, Truth
<1>3. touched' = touched \/ (c.op = "M" /\ touched' = touched \cup {<<c.r, c.at>>})
  BY DEF Executes
<1>4. c.op = "M" => Clean /\ <<c.r, c.at>> \in Pages
  BY DEF Harmless
<1>5. touched \subseteq touched' /\ touched' \subseteq Pages /\ (touched' # {} => Clean)
  BY <1>1, <1>3, <1>4
<1>6. serverNoAck' \in BOOLEAN /\ (serverNoAck = TRUE => serverNoAck' = TRUE)
  BY <1>1 DEF Executes
<1> QED
  BY <1>2, <1>5, <1>6

LEMMA ServerAnswersKeeps == ASSUME SessionInv, ServerAnswers PROVE SessionInv'
<1>0. PICK c : c = Head(toServer)
  OBVIOUS
<1>1. /\ toServer # <<>> /\ toServer' = Tail(toServer) /\ c.op \notin {"+", "-"}
      /\ UNCHANGED <<session, call, result, target, link, consoleSent>>
  BY <1>0 DEF ServerAnswers, ServerTakes, IsCommand, clientVars
<1>2. PICK answer \in Truth(c) \cup {<<"E", 0>>, <<"other", 0>>} :
         /\ Executes(c, answer[1]) /\ lastReply' = Reply(answer[1], answer[2])
         /\ \/ Deliver((IF serverNoAck THEN <<>> ELSE <<Packet("ack")>>) \o <<lastReply'>>)
            \/ ~serverNoAck /\ Deliver(<<Packet("ack"), Packet("bad")>>)
  BY <1>0 DEF ServerAnswers
<1>3. TypeOK /\ TokensMatch /\ AttachesOnce /\ WritesAreHarmless
  BY DEF SessionInv
<1>4. /\ c \in Commands /\ Taken(Going, c, Going', Requests) /\ Taken(Attaching, c, Attaching', Attaches)
      /\ Attaching' \in Seq(Commands)
  BY <1>0, <1>1, <1>3, CommandTaken
<1>5. c \in Harmless
  <2>1. toServer \in Seq(Harmless)
    BY <1>3 DEF WritesAreHarmless
  <2> QED
    BY <1>0, <1>1, <2>1
<1> DEFINE y == Reply(answer[1], answer[2])
<1>6. y \in Packets /\ y \in Returns /\ y.kind = "reply" /\ lastReply' = y
  <2>1. /\ answer[1] \in {"OK", "E", "features", "stop", "process", "challenge", "region", "zeros", "other"}
        /\ answer[2] \in Nat
    BY <1>1, <1>4, TruthIsPacket
  <2>2. y \in Packets /\ y.kind = "reply"
    BY <2>1 DEF Reply, Packets
  <2> QED
    BY <1>2, <2>2 DEF Returns
<1>7. Vouched(c, y)'
  BY <1>1, <1>2, <1>3, <1>4, TruthVouches
<1>y. y = Reply(answer[1], answer[2])
  OBVIOUS
<1> HIDE DEF y
<1>8. /\ \/ debugger' = debugger
         \/ c.op = "vAttach" /\ debugger' = "attached"
         \/ c.op = "D" /\ debugger = "attached" /\ debugger' = "gone"
      /\ touched \subseteq touched' /\ touched' \subseteq Pages /\ (touched' # {} => Clean)
      /\ serverNoAck' \in BOOLEAN /\ (serverNoAck = TRUE => serverNoAck' = TRUE)
  BY <1>2, <1>4, <1>5, ExecutedFacts

\* What the client gets is the reply, or the reply damaged.
<1>9. PICK p \in Packets : /\ p \in Returns
                           /\ p = y \/ (p = Packet("bad") /\ ~serverNoAck)
                           /\ \E ps : Carries(ps, p) /\ Deliver(ps)
  <2>1. CASE Deliver((IF serverNoAck THEN <<>> ELSE <<Packet("ack")>>) \o <<lastReply'>>)
    <3>1. CASE serverNoAck
      <4>1. <<>> \o <<y>> = <<y>>
        OBVIOUS
      <4>2. Deliver(<<y>>)
        BY <1>6, <2>1, <3>1, <4>1
      <4>3. Carries(<<y>>, y)
        BY <1>6, OneCarries
      <4> QED
        BY <1>6, <4>2, <4>3
    <3>2. CASE ~serverNoAck
      <4>1. Deliver(<<Packet("ack")>> \o <<y>>)
        BY <1>6, <2>1, <3>2
      <4>2. Carries(<<Packet("ack")>> \o <<y>>, y)
        BY <1>6, AckCarries
      <4> QED
        BY <1>6, <4>1, <4>2
    <3> QED
      BY <3>1, <3>2
  <2>2. CASE ~serverNoAck /\ Deliver(<<Packet("ack"), Packet("bad")>>)
    <3> DEFINE b == Packet("bad")
               a == Packet("ack")
    <3>1. b \in Packets /\ b \in Returns
      BY DEF Packet, Packets, Returns
    <3>2. Carries(<<a>> \o <<b>>, b)
      BY <3>1, AckCarries
    <3>3. <<a, b>> = <<a>> \o <<b>>
      <4> HIDE DEF a, b
      <4> QED
        OBVIOUS
    <3>4. Deliver(<<a>> \o <<b>>)
      <4>1. Deliver(<<a, b>>)
        BY <2>2
      <4> HIDE DEF a, b
      <4> QED
        BY <3>3, <4>1
    <3> QED
      BY <2>2, <3>1, <3>2, <3>4
  <2> QED
    BY <1>2, <2>1, <2>2
<1>10. PICK ps : Carries(ps, p) /\ Deliver(ps)
  BY <1>9
<1>11. toClient' \in Seq(Packets) /\ (Live => Cat(Coming', Coming, <<p>>))
  BY <1>1, <1>3, <1>10, Delivered
<1>12. Follows(Going, c, Going')
  BY <1>1, <1>4 DEF Taken, Requests
<1>13. c \in Attaches <=> c.op = "vAttach"
  BY <1>4 DEF Attaches
<1>14. AttachesOnce' /\ (c \in Attaches => debugger = "none")
  BY <1>3, <1>4, <1>8, <1>13, AttachTaken
<1>15. debugger = "gone" => debugger' = "gone"
  BY <1>8, <1>13, <1>14
<1>16. ASSUME Live PROVE TokensMatch'
  <2>1. Len(Coming) + 1 \in 1 .. session.outstanding /\ Requested(Asked(Len(Coming) + 1), c)
    BY <1>12, <1>16, TakenIsAwaited
  <2>2. PICK j : j = Len(Coming) + 1
    OBVIOUS
  <2>3. Requested(Asked(j), c)
    BY <2>1, <2>2
  <2>4. c = Asked(j)
    <3>1. Plain("-").op = "-"
      BY DEF Plain, Command
    <3> QED
      BY <1>1, <2>3, <3>1 DEF Requested
  <2>5. \A d, q : Vouched(d, q) => Vouched(d, q)'
    BY <1>1, <1>8, <1>15, VouchedStays
  <2>6. Asked(j)' = Asked(j)
    BY <1>1 DEF Asked
  <2>7. Returned(Asked(j), p)'
    <3>1. Vouched(Asked(j), y)'
      BY <1>7, <2>4, <2>6 DEF Vouched
    <3>2. CASE p = y
      BY <1>6, <3>1, <3>2 DEF Returned
    <3>3. CASE p = Packet("bad") /\ ~serverNoAck
      <4>1. session.noAck \in BOOLEAN /\ (session.noAck = TRUE => serverNoAck = TRUE)
        BY <1>3, <1>16, TypeFacts DEF TokensMatch
      <4>2. session'.noAck = FALSE
        BY <1>1, <3>3, <4>1
      <4>3. p.kind = "bad"
        BY <3>3 DEF Packet
      <4>4. lastReply'.kind = "reply" /\ Vouched(Asked(j), lastReply)'
        BY <1>6, <3>1 DEF Vouched
      <4> QED
        BY <4>2, <4>3, <4>4 DEF Returned
    <3> QED
      BY <1>9, <3>2, <3>3
  <2> QED
    BY <1>1, <1>8, <1>11, <1>12, <1>16, <2>2, <2>5, <2>7, TokenTurns
<1>17. ASSUME Live, session.phase \in {"supported", "noAck", "detachPolicy"} PROVE debugger' = debugger
  <2>1. Len(Coming) + 1 \in 1 .. session.outstanding /\ Requested(Asked(Len(Coming) + 1), c)
    BY <1>12, <1>17, TakenIsAwaited
  <2>2. CommandsAreOfPhase /\ PhaseIsEarned /\ session.outstanding \in 1 .. Len(session.lastPacket)
    BY <1>3, <1>17 DEF SessionInv, ProgressIsEarned, TokensMatch
  <2>3. session.outstanding = 1 /\ Asked(1) = Plain(OpOf[session.phase])
    BY <1>17, <2>2, OneCommand DEF OpOf
  <2>4. Len(Coming) + 1 = 1
    BY <2>1, <2>3
  <2>5. Requested(Plain(OpOf[session.phase]), c)
    BY <2>1, <2>3, <2>4
  <2>6. OpOf[session.phase] \in {"qSupported", "QStartNoAckMode", "QSetDetachOnError"}
    BY <1>17 DEF OpOf
  <2>7. c.op \in {"qSupported", "QStartNoAckMode", "QSetDetachOnError", "-"}
    BY <2>5, <2>6 DEF Requested, Plain, Command
  <2> QED
    BY <1>8, <2>7
<1>18. debugger' \in {"none", "attached", "gone"}
  BY <1>3, <1>8 DEF TypeOK
<1>19. UNCHANGED <<clientVars, target, link, consoleSent>>
  BY <1>1 DEF clientVars
<1> QED
  BY <1>1, <1>6, <1>8, <1>11, <1>14, <1>15, <1>16, <1>17, <1>18, <1>19, ServerKeeps

-----------------------------------------------------------------------------
(* The invariant.                                                          *)

LEMMA SessionStarts == Init => SessionInv
<1> SUFFICES ASSUME Init PROVE SessionInv
  OBVIOUS
<1>1. /\ session = Fresh /\ call = Quiet /\ result = "none"
      /\ link = "opening" /\ toServer = <<>> /\ toClient = <<>>
      /\ target \in Targets /\ debugger = "none" /\ touched = {}
      /\ serverNoAck = FALSE /\ lastReply = Packet("none") /\ consoleSent = 0
  BY DEF Init
<1>2. <<>> \in Seq(Commands) /\ <<>> \in Seq(Packets) /\ <<>> \in Seq(Harmless) /\ <<>> \in Seq({"OK", "zeros"})
  OBVIOUS
<1>3. Len(Size) \in Nat /\ 0 \in 0 .. Len(Size) + 1 /\ 0 \in 0 .. MaxRetries /\ 0 \in 0 .. MaxConsole
      /\ 0 \in 0 .. ConsoleBudget /\ 0 \in Nat
  BY SizesAssumption, LimitsAssumption
<1>4. Fresh \in Sessions
  <2>1. "idle" \in Phases /\ "none" \in Outcomes /\ FALSE \in BOOLEAN
    BY DEF Phases, Outcomes
  <2> QED
    BY <1>2, <1>3, <2>1, Zenon DEF Fresh, Sessions
<1>5. Quiet \in Calls /\ Quiet.active = FALSE /\ Quiet.rx = <<>> /\ Quiet.out = <<>>
  BY QuietIsCall
<1>6. Packet("none") \in Packets
  BY DEF Packet, Packets
<1>7. TypeOK
  BY <1>1, <1>2, <1>3, <1>4, <1>5, <1>6 DEF TypeOK, Calls, Outcomes
<1>8. session.phase = "idle" /\ session.verdict = "none" /\ session.lastPacket = <<>>
  BY <1>1 DEF Fresh
<1>9. CallIsPlaced
  BY <1>1, <1>5, <1>8 DEF CallIsPlaced
<1>10. TokensMatch /\ ProgressIsEarned
  BY <1>1 DEF TokensMatch, ProgressIsEarned, Live
<1>11. WritesAreHarmless
  BY <1>1, <1>2, <1>5, <1>8 DEF WritesAreHarmless
<1>12. AttachesOnce
  <2>1. Kept(<<>>, Attaches) = <<>>
    BY KeptEmpty
  <2>2. Attaching = <<>> \o <<>>
    BY <1>1, <1>5, <2>1 DEF Attaching
  <2>3. Attaching = <<>> /\ Len(Attaching) = 0
    BY <2>2
  <2> QED
    BY <2>3 DEF AttachesOnce
<1>13. VerdictIsTrue
  BY <1>8 DEF VerdictIsTrue, Terminal
<1> QED
  BY <1>7, <1>9, <1>10, <1>11, <1>12, <1>13 DEF SessionInv

LEMMA SessionStutters == ASSUME SessionInv, UNCHANGED vars PROVE SessionInv'
<1>1. UNCHANGED <<session, call, result, link, toServer, toClient, target, debugger, touched, serverNoAck,
                  lastReply, consoleSent>>
  BY DEF vars, clientVars, linkVars, serverVars
<1>2. TypeOK' /\ CallIsPlaced' /\ VerdictIsTrue'
  BY <1>1 DEF SessionInv, TypeOK, CallIsPlaced, VerdictIsTrue, Terminal
<1>3. Live' <=> Live
  BY <1>1 DEF Live, Terminal
<1>4. Coming' = Coming /\ Going' = Going /\ Attaching' = Attaching
  BY <1>1 DEF Coming, Going, Attaching
<1>5. TokensMatch'
  <2>1. CASE Live
    BY <1>1, <1>4, <2>1, TokensStay DEF SessionInv
  <2>2. CASE ~Live
    BY <1>3, <2>2 DEF TokensMatch
  <2> QED
    BY <2>1, <2>2
<1>6. WritesAreHarmless'
  <2>1. Harmless' = Harmless /\ (Clean' <=> Clean)
    BY <1>1 DEF Harmless, Clean
  <2> QED
    BY <1>1, <2>1 DEF SessionInv, WritesAreHarmless
<1>7. AttachesOnce'
  BY <1>1, <1>4 DEF SessionInv, AttachesOnce
<1>8. ProgressIsEarned'
  BY <1>1, EarnedStays DEF SessionInv, TypeOK
<1> QED
  BY <1>2, <1>5, <1>6, <1>7, <1>8 DEF SessionInv

LEMMA SessionKeeps == SessionInv /\ [Next]_vars => SessionInv'
<1> SUFFICES ASSUME SessionInv, [Next]_vars PROVE SessionInv'
  OBVIOUS
<1>1. CASE OpenFails
  BY <1>1, OpenFailsKeeps
<1>2. CASE Begin
  BY <1>2, BeginKeeps
<1>3. CASE Cancel \/ TimedOut \/ Disconnected
  BY <1>3, AbandonKeeps DEF Cancel, TimedOut, Disconnected
<1>4. CASE Receive
  <2>1. CASE ReceiveThrows
    BY <2>1, ReceiveThrowsKeeps
  <2>2. CASE ReceiveAck
    BY <2>2, ReceiveAckKeeps
  <2>3. CASE ReceiveNack
    BY <2>3, ReceiveNackKeeps
  <2>4. CASE ReceiveDamaged
    BY <2>4, ReceiveDamagedKeeps
  <2>5. CASE ReceiveConsole
    BY <2>5, ReceiveConsoleKeeps
  <2>6. CASE ReceiveReply
    BY <2>6, ReplySupportedKeeps, ReplyNoAckKeeps, ReplyDetachPolicyKeeps, ReplyAttachKeeps,
       ReplyProcessKeeps, ReplyFinalKeeps, ReplyChallengeKeeps, ReplyRegionKeeps,
       ReplyWithinBatchKeeps, ReplyPreflightKeeps, ReplyPrepareKeeps, ReplyDetachedKeeps,
       ReplyDrainingKeeps, ReplyRefusedKeeps DEF ReceiveReply
  <2>7. CASE EndReceive
    BY <2>7, EndReceiveKeeps
  <2>8. CASE \E n \in 1 .. Len(toClient) : BeginReceive(n)
    BY <2>8, BeginReceiveKeeps
  <2> QED
    BY <1>4, <2>1, <2>2, <2>3, <2>4, <2>5, <2>6, <2>7, <2>8 DEF Receive, InReceive
<1>5. CASE WriteFails
  BY <1>5, WriteFailsKeeps
<1>6. CASE Server
  BY <1>6, ServerAnswersKeeps, ServerNacksKeeps, ServerRepeatsKeeps, ServerTakesAckKeeps,
     ServerConsoleKeeps, ServerLosesClientKeeps DEF Server
<1>7. CASE Done \/ UNCHANGED vars
  BY <1>7, SessionStutters DEF Done
<1> QED
  BY <1>1, <1>2, <1>3, <1>4, <1>5, <1>6, <1>7 DEF Next

\* At every moment of a transaction the tokens in the stream line up with what
\* the session waits for, and the session has come only as far as the server's
\* replies vouch for (DebugArenaSession's receive and advance).
THEOREM ProgressIsVouched == Spec => []SessionInv
<1>1. Init => SessionInv
  BY SessionStarts
<1>2. SessionInv /\ [Next]_vars => SessionInv'
  BY SessionKeeps
<1> QED
  BY <1>1, <1>2, PTL DEF Spec

-----------------------------------------------------------------------------
(* What follows from it.                                                   *)

\* No transaction writes into a process that is not the app that asked, or into
\* memory that the preflight has not found to be all zero and anonymous
\* readable-executable (DebugArenaSession: preflight before prepare).
THEOREM WritesAreJustified == Spec => []WritesOnlyFreshArenas
<1>1. SessionInv => WritesOnlyFreshArenas
  BY DEF SessionInv, WritesAreHarmless, Clean, WritesOnlyFreshArenas
<1> QED
  BY <1>1, ProgressIsVouched, PTL

LEMMA Counted ==
    ASSUME NEW U, NEW s \in Seq(U), NEW S, NEW A,
           A = {i \in DOMAIN s : s[i] \in S}
    PROVE  Len(Kept(s, S)) = Cardinality(A) /\ Len(Kept(s, S)) \in Nat
<1>1. A = {i \in 1 .. Len(s) : s[i] \in S}
  OBVIOUS
<1>2. Len(Kept(s, S)) = Cardinality({i \in 1 .. Len(s) : s[i] \in S})
  BY KeptLength
<1>3. Kept(s, S) \in Seq(U)
  BY KeptType
<1>4. Len(Kept(s, S)) = Cardinality(A)
  BY <1>1, <1>2, Zenon
<1> QED
  BY <1>3, <1>4

LEMMA TokensAreReplies ==
    ASSUME SessionInv, Live, session.noAck = TRUE
    PROVE  /\ \A i \in DOMAIN call.rx : call.rx[i] \in Returns <=> call.rx[i].kind = "reply"
           /\ \A i \in DOMAIN toClient : toClient[i] \in Returns <=> toClient[i].kind = "reply"
<1>1. call.rx \in Seq(Packets) /\ toClient \in Seq(Packets)
  BY TypeFacts DEF SessionInv
<1>2. \A i \in 1 .. Len(Coming) : Coming[i].kind = "reply"
  BY DEF SessionInv, TokensMatch, Returned
<1> DEFINE a == Kept(call.rx, Returns)
           b == Kept(toClient, Returns)
<1>3. a \in Seq(Packets) /\ b \in Seq(Packets)
  BY <1>1, KeptType
<1>4. Cat(Coming, a, b)
  BY StreamFacts DEF SessionInv
<1>5. ASSUME NEW i \in DOMAIN call.rx, call.rx[i] \in Returns PROVE call.rx[i].kind = "reply"
  <2>1. i \in 1 .. Len(call.rx)
    BY <1>1
  <2>2. PICK j \in 1 .. Len(a) : a[j] = call.rx[i]
    BY <1>1, <1>5, <2>1, KeptHolds
  <2> HIDE DEF a, b
  <2>3. j \in 1 .. Len(Coming) /\ Coming[j] = a[j]
    <3>1. /\ Len(Coming) = Len(a) + Len(b) /\ Len(a) \in Nat /\ Len(b) \in Nat
          /\ \A k \in 1 .. Len(a) + Len(b) : Coming[k] = IF k <= Len(a) THEN a[k] ELSE b[k - Len(a)]
      BY <1>3, <1>4, CatAt
    <3> QED
      BY <3>1
  <2> QED
    BY <1>2, <2>2, <2>3
<1>6. ASSUME NEW i \in DOMAIN toClient, toClient[i] \in Returns PROVE toClient[i].kind = "reply"
  <2>1. i \in 1 .. Len(toClient)
    BY <1>1
  <2>2. PICK j \in 1 .. Len(b) : b[j] = toClient[i]
    BY <1>1, <1>6, <2>1, KeptHolds
  <2> HIDE DEF a, b
  <2>3. PICK k \in 1 .. Len(Coming) : Coming[k] = b[j]
    <3>1. /\ Len(Coming) = Len(a) + Len(b) /\ Len(a) \in Nat /\ Len(b) \in Nat
          /\ \A k \in 1 .. Len(a) + Len(b) : Coming[k] = IF k <= Len(a) THEN a[k] ELSE b[k - Len(a)]
      BY <1>3, <1>4, CatAt
    <3>2. Len(a) + j \in 1 .. Len(Coming) /\ Coming[Len(a) + j] = b[j]
      <4>1. Len(a) + j \in 1 .. Len(a) + Len(b) /\ ~(Len(a) + j <= Len(a)) /\ (Len(a) + j) - Len(a) = j
        BY <3>1
      <4> QED
        BY <3>1, <4>1
    <3> QED
      BY <3>2
  <2> QED
    BY <1>2, <2>2, <2>3
<1>7. \A i \in DOMAIN call.rx : call.rx[i].kind = "reply" => call.rx[i] \in Returns
  BY <1>1 DEF Returns
<1>8. \A i \in DOMAIN toClient : toClient[i].kind = "reply" => toClient[i] \in Returns
  BY <1>1 DEF Returns
<1> QED
  BY <1>5, <1>6, <1>7, <1>8

LEMMA RepliesAreAwaited == ASSUME SessionInv PROVE RepliesMatchCommands
<1> DEFINE count(s) == Cardinality({i \in DOMAIN s : s[i].kind = "reply"})
           sent(s) == Cardinality({i \in DOMAIN s : s[i].op # "+"})
<1> SUFFICES ASSUME session.noAck, link = "open", ~Terminal
             PROVE  session.outstanding
                      = sent(toServer) + sent(call.out) + count(toClient) + count(call.rx)
  BY DEF RepliesMatchCommands
<1>1. /\ call.rx \in Seq(Packets) /\ call.out \in Seq(Commands)
      /\ toServer \in Seq(Commands) /\ toClient \in Seq(Packets) /\ session.noAck \in BOOLEAN
  BY TypeFacts DEF SessionInv
<1>2. Live /\ session.noAck = TRUE
  BY <1>1 DEF Live
<1>3. Len(Coming) + Len(Going) = session.outstanding
  BY <1>2 DEF SessionInv, TokensMatch
<1>4. count(call.rx) = Len(Kept(call.rx, Returns)) /\ Len(Kept(call.rx, Returns)) \in Nat
  <2> DEFINE A == {i \in DOMAIN call.rx : call.rx[i].kind = "reply"}
  <2>1. A = {i \in DOMAIN call.rx : call.rx[i] \in Returns}
    BY <1>2, TokensAreReplies
  <2> DEFINE q == call.rx
  <2>2. A = {i \in DOMAIN q : q[i] \in Returns} /\ q \in Seq(Packets)
    BY <1>1, <2>1
  <2> HIDE DEF A, q
  <2>3. Len(Kept(q, Returns)) = Cardinality(A) /\ Len(Kept(q, Returns)) \in Nat
    BY <2>2, Counted
  <2> QED
    BY <2>3 DEF A, q
<1>5. count(toClient) = Len(Kept(toClient, Returns)) /\ Len(Kept(toClient, Returns)) \in Nat
  <2> DEFINE A == {i \in DOMAIN toClient : toClient[i].kind = "reply"}
  <2>1. A = {i \in DOMAIN toClient : toClient[i] \in Returns}
    BY <1>2, TokensAreReplies
  <2> HIDE DEF A
  <2>2. Len(Kept(toClient, Returns)) = Cardinality(A) /\ Len(Kept(toClient, Returns)) \in Nat
    BY <1>1, <2>1, Counted
  <2> QED
    BY <2>2 DEF A
<1>6. sent(toServer) = Len(Kept(toServer, Requests)) /\ Len(Kept(toServer, Requests)) \in Nat
  <2> DEFINE A == {i \in DOMAIN toServer : toServer[i].op # "+"}
  <2>1. A = {i \in DOMAIN toServer : toServer[i] \in Requests}
    BY <1>1 DEF Requests
  <2> HIDE DEF A
  <2>2. Len(Kept(toServer, Requests)) = Cardinality(A) /\ Len(Kept(toServer, Requests)) \in Nat
    BY <1>1, <2>1, Counted
  <2> QED
    BY <2>2 DEF A
<1>7. sent(call.out) = Len(Kept(call.out, Requests)) /\ Len(Kept(call.out, Requests)) \in Nat
  <2> DEFINE A == {i \in DOMAIN call.out : call.out[i].op # "+"}
  <2>1. A = {i \in DOMAIN call.out : call.out[i] \in Requests}
    BY <1>1 DEF Requests
  <2> DEFINE q == call.out
  <2>2. A = {i \in DOMAIN q : q[i] \in Requests} /\ q \in Seq(Commands)
    BY <1>1, <2>1
  <2> HIDE DEF A, q
  <2>3. Len(Kept(q, Requests)) = Cardinality(A) /\ Len(Kept(q, Requests)) \in Nat
    BY <2>2, Counted
  <2> QED
    BY <2>3 DEF A, q
<1>8. Len(Coming) = Len(Kept(call.rx, Returns)) + Len(Kept(toClient, Returns))
  <2>1. Kept(call.rx, Returns) \in Seq(Packets) /\ Kept(toClient, Returns) \in Seq(Packets)
    BY <1>1, KeptType
  <2> QED
    BY <2>1 DEF Coming
<1>9. Len(Going) = Len(Kept(toServer, Requests)) + Len(Kept(call.out, Requests))
  <2>1. Kept(toServer, Requests) \in Seq(Commands) /\ Kept(call.out, Requests) \in Seq(Commands)
    BY <1>1, KeptType
  <2> QED
    BY <2>1 DEF Going
<1> HIDE DEF count, sent
<1> QED
  BY <1>3, <1>4, <1>5, <1>6, <1>7, <1>8, <1>9

\* With acknowledgements off, each reply is taken for the answer to its own
\* command: the session waits for exactly the commands and replies under way
\* (DebugArenaSession's outstanding).
THEOREM RepliesAreTheirCommands == Spec => []RepliesMatchCommands
<1>1. SessionInv => RepliesMatchCommands
  BY RepliesAreAwaited
<1> QED
  BY <1>1, ProgressIsVouched, PTL

-----------------------------------------------------------------------------
(* The session implements the abstract transaction.                        *)

LEMMA ReportConcludes ==
    ASSUME result = "none", NEW v \in {"prepared", "failedDetached", "uncertain"}, result' = v,
           UNCHANGED <<debugger, touched>>,
           v # "uncertain" => debugger = "gone", v = "prepared" => touched = Pages
    PROVE  Transaction!TransactionNext
BY DEF Transaction!TransactionNext, Transaction!Verdicts, Transaction!Conclude

LEMMA AnswerIsStep == ASSUME SessionInv, ServerAnswers PROVE [Transaction!TransactionNext]_<<debugger, touched, result>>
<1>0. PICK c : c = Head(toServer)
  OBVIOUS
<1>1. toServer # <<>> /\ toServer' = Tail(toServer) /\ call' = call /\ result' = result
  BY DEF ServerAnswers, ServerTakes, clientVars
<1>2. PICK text : Executes(c, text)
  BY <1>0 DEF ServerAnswers
<1>3. TypeOK /\ AttachesOnce /\ WritesAreHarmless
  BY DEF SessionInv
<1>4. /\ c \in Commands /\ Taken(Attaching, c, Attaching', Attaches) /\ Attaching' \in Seq(Commands)
  BY <1>0, <1>1, <1>3, CommandTaken
<1>5. c \in Harmless
  <2>1. toServer \in Seq(Harmless)
    BY <1>3 DEF WritesAreHarmless
  <2> QED
    BY <1>0, <1>1, <2>1
<1>6. c.op = "vAttach" => debugger = "none"
  <2>1. \/ debugger' = debugger
        \/ c.op = "vAttach" /\ debugger' = "attached"
        \/ c.op = "D" /\ debugger = "attached" /\ debugger' = "gone"
    BY <1>2, <1>4, <1>5, ExecutedFacts
  <2>2. c \in Attaches => debugger = "none"
    BY <1>3, <1>4, <2>1, AttachTaken DEF Attaches
  <2> QED
    BY <1>4, <2>2 DEF Attaches
<1>7. CASE Truth(c) # {} /\ text # "E" /\ c.op = "vAttach"
  <2>1. Transaction!Attach
    BY <1>1, <1>2, <1>6, <1>7 DEF Executes, Transaction!Attach
  <2> QED
    BY <2>1 DEF Transaction!TransactionNext
<1>8. CASE Truth(c) # {} /\ text # "E" /\ c.op = "D"
  <2>1. Transaction!Leave
    BY <1>1, <1>2, <1>8 DEF Executes, Truth, Transaction!Leave
  <2> QED
    BY <2>1 DEF Transaction!TransactionNext
<1>9. CASE Truth(c) # {} /\ text # "E" /\ c.op = "M"
  <2>1. <<c.r, c.at>> \in Pages
    BY <1>5, <1>9 DEF Harmless
  <2>2. Transaction!Touch(<<c.r, c.at>>)
    BY <1>1, <1>2, <1>9 DEF Executes, Truth, Transaction!Touch
  <2> QED
    BY <2>1, <2>2 DEF Transaction!TransactionNext
<1>10. CASE ~(Truth(c) # {} /\ text # "E") \/ c.op \notin {"vAttach", "D", "M"}
  BY <1>1, <1>2, <1>10 DEF Executes
<1> QED
  BY <1>7, <1>8, <1>9, <1>10

LEMMA StepIsStep ==
    ASSUME SessionInv, [Next]_vars
    PROVE  [Transaction!TransactionNext]_<<debugger, touched, result>>
<1>1. CASE OpenFails \/ Cancel \/ TimedOut \/ Disconnected
  <2>1. result = "none" /\ result' = "uncertain" /\ UNCHANGED <<debugger, touched>>
    BY <1>1 DEF OpenFails, Cancel, TimedOut, Disconnected, Abandon, Idle, Report, serverVars
  <2> QED
    BY <2>1, ReportConcludes
<1>2. CASE Begin \/ (\E n \in 1 .. Len(toClient) : BeginReceive(n)) \/ Done \/ UNCHANGED vars
  BY <1>2 DEF Begin, BeginReceive, Done, vars, serverVars, clientVars
<1>3. CASE ReceiveThrows \/ ReceiveAck \/ ReceiveNack \/ ReceiveDamaged \/ ReceiveConsole
  BY <1>3 DEF ReceiveThrows, ReceiveAck, ReceiveNack, ReceiveDamaged, ReceiveConsole, InLoop, serverVars
<1>4. CASE ReceiveReply
  BY <1>4 DEF ReceiveReply, ReplySupported, ReplyNoAck, ReplyDetachPolicy, ReplyAttach, ReplyProcess,
     ReplyFinalProcess, ReplyChallenge, ReplyFinalChallenge, ReplyRegion, ReplyWithinBatch,
     ReplyPreflight, ReplyPrepare, ReplyDetached, ReplyDraining, ReplyRefused, Accepted, InLoop, serverVars
<1>5. CASE EndReceive
  <2>1. /\ call.active /\ UNCHANGED <<debugger, touched>>
        /\ session.verdict = "none" => result' = result
        /\ session.verdict # "none" => result' = session.verdict
    BY <1>5 DEF EndReceive, Report, serverVars
  <2>2. result = "none"
    <3>1. call.active = TRUE
      BY <2>1, TypeFacts DEF SessionInv, Calls
    <3> QED
      BY <3>1 DEF SessionInv, CallIsPlaced
  <2>3. CASE session.verdict = "none"
    BY <2>1, <2>3
  <2>4. CASE session.verdict # "none"
    <3>1. session.verdict \in {"prepared", "failedDetached", "uncertain"}
      BY <2>4, TypeFacts DEF SessionInv, Sessions, Outcomes
    <3>2. /\ session.verdict # "uncertain" => debugger = "gone"
          /\ session.verdict = "prepared" => touched = Pages
      BY <3>1 DEF SessionInv, VerdictIsTrue
    <3> QED
      BY <2>1, <2>2, <2>4, <3>1, <3>2, ReportConcludes
  <2> QED
    BY <2>3, <2>4
<1>6. CASE WriteFails
  <2>1. call.active /\ UNCHANGED <<debugger, touched>> /\ result' = "uncertain"
    BY <1>6 DEF WriteFails, Report, serverVars
  <2>2. result = "none"
    <3>1. call.active = TRUE
      BY <2>1, TypeFacts DEF SessionInv, Calls
    <3> QED
      BY <3>1 DEF SessionInv, CallIsPlaced
  <2> QED
    BY <2>1, <2>2, ReportConcludes
<1>7. CASE ServerAnswers
  BY <1>7, AnswerIsStep
<1>8. CASE ServerNacks \/ ServerRepeats \/ ServerTakesAck \/ ServerConsole
  BY <1>8 DEF ServerNacks, ServerRepeats, ServerTakesAck, ServerConsole, ServerTakes, serverVars, clientVars
<1>9. CASE ServerLosesClient
  <2>1. UNCHANGED <<touched, result>> /\ debugger' = IF debugger = "attached" THEN "gone" ELSE debugger
    BY <1>9 DEF ServerLosesClient, clientVars
  <2> QED
    BY <2>1 DEF Transaction!TransactionNext, Transaction!Leave
<1> QED
  BY <1>1, <1>2, <1>3, <1>4, <1>5, <1>6, <1>7, <1>8, <1>9 DEF Next, Receive, InReceive, Server

\* A debugger attaches once at most, touches pages only while it is attached,
\* and the app is told prepared or failedDetached only when the debugger is gone
\* for good: every step of the session, its client and the server is one of the
\* abstract transaction or changes nothing of it (DebugArenaClient's finish).
THEOREM SessionIsTransaction == Spec => ImplementsTransaction
<1>1. Init => Transaction!TransactionInit
  BY DEF Init, Transaction!TransactionInit
<1>2. SessionInv /\ [Next]_vars => [Transaction!TransactionNext]_Transaction!transactionVars
  BY StepIsStep DEF Transaction!transactionVars
<1> QED
  BY <1>1, <1>2, ProgressIsVouched, PTL DEF Spec, ImplementsTransaction, Transaction!TransactionSpec
=============================================================================
