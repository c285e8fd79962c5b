---------------------------- MODULE ArenaSession ----------------------------
(***************************************************************************)
(* The debugserver transaction that prepares an arena: DebugArenaSession   *)
(* (the protocol), DebugArenaClient (its stream and timers) and, external  *)
(* to the repository, the debugserver and the app it attaches to.          *)
(*                                                                         *)
(* The stream is the tunnel's TCP: reliable and in order, it may break.    *)
(* The client runs on one serial queue, so nothing interrupts a call of    *)
(* receive; its loop takes one step per packet here, and no other client   *)
(* action is enabled until the call returns.  Addresses are offsets in an  *)
(* arena, counted in units smaller than a page.  Deadlines are abstracted: *)
(* one may have passed whenever the code looks.                            *)
(***************************************************************************)
EXTENDS Integers, Sequences, FiniteSets

CONSTANTS
    Size,            \* Size[r]: the size of arena r, in units
    Page,            \* units of a page
    Chunks,          \* read sizes the server's PacketSize may allow
    ReadsPerBatch,
    PagesPerBatch,
    MaxRetries,      \* resends after a nack, and damaged replies, allowed
    MaxConsole,      \* console packets tolerated
    ConsoleBudget,   \* console packets the modelled server may send
    Targets          \* the processes the server may find

Units == UNION {{r} \X (0 .. Size[r] - 1) : r \in DOMAIN Size}
Pages == {u \in Units : u[2] % Page = 0}

ASSUME SizesAssumption ==
    /\ Page \in Nat \ {0}
    /\ Size \in Seq(Nat \ {0}) /\ Size # <<>>
    /\ \A r \in DOMAIN Size : Size[r] % Page = 0
ASSUME LimitsAssumption ==
    /\ Chunks \subseteq Nat \ {0}
    /\ ReadsPerBatch \in Nat \ {0} /\ PagesPerBatch \in Nat \ {0}
    /\ MaxRetries \in Nat /\ MaxConsole \in Nat /\ ConsoleBudget \in Nat
\* What the server finds behind the pid: whether process information and
\* challenge match, the units that are not zero, the units that are not in an
\* anonymous readable and executable region.
ASSUME TargetsAssumption ==
    Targets \subseteq [process : BOOLEAN, challenge : BOOLEAN,
                       dirty : SUBSET Units, unsafe : SUBSET Units]

VARIABLES
    session,         \* DebugArenaSession
    call,            \* the call of receive under way: packets left, replies it
                     \* may still take, commands it has collected
    result,          \* what the client's completion was given
    link, toServer, toClient,
    target, debugger, touched, serverNoAck, lastReply, consoleSent

clientVars == <<session, call, result>>
linkVars == <<link, toServer, toClient>>
serverVars == <<target, debugger, touched, serverNoAck, lastReply, consoleSent>>
vars == <<clientVars, linkVars, serverVars>>

-----------------------------------------------------------------------------
(* Commands, packets, and the batches of commands.                         *)

Command(op, r, at, n) == [op |-> op, r |-> r, at |-> at, n |-> n]
Plain(op) == Command(op, 0, 0, 0)
Packet(kind) == [kind |-> kind, text |-> "none", value |-> 0]
Reply(text, value) == [kind |-> "reply", text |-> text, value |-> value]

Lesser(a, b) == IF a < b THEN a ELSE b

\* The reads of a preflight batch from offset o of arena r, size units each.
PreflightReads(r, o, size) ==
    LET count == Lesser((Size[r] - o + size - 1) \div size, ReadsPerBatch)
        from(j) == o + (j - 1) * size
    IN  [j \in 1 .. count |->
            Command("m", r, from(j), Lesser(size, Size[r] - from(j)))]

\* The page after page <<r, o>>; the first past the last arena ends the list.
PageAfter(page) ==
    IF page[2] + Page = Size[page[1]] THEN <<page[1] + 1, 0>>
    ELSE <<page[1], page[2] + Page>>

\* The next pages to prepare, from page on, and where the batch after starts.
PagesFrom(page) ==
    LET at[k \in 0 .. PagesPerBatch] ==
            IF k = 0 THEN page
            ELSE IF at[k - 1][1] > Len(Size) THEN at[k - 1] ELSE PageAfter(at[k - 1])
    IN  at
PreparePages(page) ==
    LET at == PagesFrom(page)
        count == Cardinality({k \in 0 .. PagesPerBatch - 1 : at[k][1] <= Len(Size)})
    IN  [k \in 1 .. count |-> at[k - 1]]

\* Each page is written and read back.
PrepareCommands(pages) ==
    [j \in 1 .. 2 * Len(pages) |->
        LET page == pages[(j + 1) \div 2]
        IN  Command(IF j % 2 = 1 THEN "M" ELSE "m", page[1], page[2], 1)]
PrepareReplies(pages) == [j \in 1 .. 2 * Len(pages) |-> IF j % 2 = 1 THEN "OK" ELSE "zeros"]

-----------------------------------------------------------------------------
(* The session.                                                            *)

Fresh == [phase |-> "idle", outstanding |-> 0, noAck |-> FALSE,
          acknowledged |-> FALSE, retries |-> 0, badPackets |-> 0,
          consolePackets |-> 0, lastPacket |-> <<>>, chunk |-> 0,
          index |-> 0, offset |-> 0, regionCursor |-> 0, replies |-> <<>>,
          attached |-> FALSE, pendingFailure |-> FALSE, verdict |-> "none"]
Quiet == [active |-> FALSE, rx |-> <<>>, answerable |-> 0, out |-> <<>>]

Terminal == session.phase \in {"complete", "failed"}

Sent(s, commands, phase) ==
    [s EXCEPT !.lastPacket = commands, !.outstanding = Len(commands),
              !.acknowledged = s.noAck, !.retries = 0, !.badPackets = 0,
              !.phase = phase]

Finished(s, phase, verdict) ==
    [s EXCEPT !.phase = phase, !.outstanding = 0, !.lastPacket = <<>>,
              !.verdict = verdict]
\* Wrong form: every failure is reported as detached.
FailedDetached(s) == Finished(s, "failed", "failedDetached")
Failed(s) == Finished(s, "failed", "uncertain")

\* The client reports once and closes its stream.
Report(outcome) == result' = outcome /\ link' = "cut"

Idle == result = "none" /\ ~call.active

\* manager.open throws, or there is no connection within 15 s.
OpenFails ==
    /\ Idle /\ session.phase = "idle"
    /\ Report("uncertain")
    /\ UNCHANGED <<session, call, toServer, toClient, serverVars>>

\* .connected: begin.
Begin ==
    /\ Idle /\ link = "opening"
    /\ session' = Sent(session, <<Plain("qSupported")>>, "supported")
    /\ toServer' = <<Plain("qSupported")>>
    /\ link' = "open"
    /\ UNCHANGED <<call, result, toClient, serverVars>>

\* tick, cancel and disconnected fail without a confirmed detach.
Abandon ==
    /\ Idle /\ ~Terminal
    /\ session' = Failed(session)
    /\ Report("uncertain")
    /\ UNCHANGED <<call, toServer, toClient, serverVars>>
\* Wrong form: the tick looks at the clock no longer once a failure is being
\* drained.
TimedOutUnlessDraining == session.phase \notin {"idle", "draining", "cleanup"} /\ Abandon
TimedOut == session.phase # "idle" /\ Abandon
Cancel == Abandon
Disconnected == link = "open" /\ Abandon

-----------------------------------------------------------------------------
(* receive.                                                                *)

BeginReceive(n) ==
    /\ Idle /\ ~Terminal /\ link = "open"
    /\ call' = [active |-> TRUE, rx |-> SubSeq(toClient, 1, n),
                answerable |-> session.outstanding, out |-> <<>>]
    /\ toClient' = SubSeq(toClient, n + 1, Len(toClient))
    /\ UNCHANGED <<session, result, link, toServer, serverVars>>

InLoop(kind) ==
    /\ call.active /\ call.rx # <<>> /\ Head(call.rx).kind = kind
    /\ UNCHANGED <<result, linkVars, serverVars>>

\* The guards of the loop, whose failure ends the session.
Unexpected(p) ==
    \/ call.answerable = 0
    \/ p.kind = "ack" /\ (session.noAck \/ session.acknowledged)
    \/ p.kind = "nack" /\ (\/ session.noAck \/ session.acknowledged
                           \/ session.retries = MaxRetries)
    \/ p.kind = "bad" /\ (session.noAck \/ session.badPackets = MaxRetries)
    \/ p.kind = "console" /\ session.consolePackets = MaxConsole
    \/ p.kind = "reply" /\ ~session.acknowledged

\* A throw drops what the call had collected.
ReceiveThrows ==
    /\ InLoop(Head(call.rx).kind) /\ Unexpected(Head(call.rx))
    /\ session' = Failed(session)
    /\ call' = [call EXCEPT !.rx = <<>>, !.out = <<>>]

\* The loop goes on with session s after collecting commands.
Proceed(s, commands) ==
    /\ ~Unexpected(Head(call.rx))
    /\ session' = s
    /\ call' = [call EXCEPT !.rx = Tail(@), !.out = @ \o commands,
                            !.answerable = @ - (IF Head(call.rx).kind = "reply" THEN 1 ELSE 0)]

ReceiveAck == InLoop("ack") /\ Proceed([session EXCEPT !.acknowledged = TRUE], <<>>)
ReceiveNack ==
    InLoop("nack") /\ Proceed([session EXCEPT !.retries = @ + 1], session.lastPacket)
ReceiveDamaged ==
    InLoop("bad") /\ Proceed([session EXCEPT !.badPackets = @ + 1], <<Plain("-")>>)

\* Packets are acknowledged until acknowledgements are off.
Acknowledgement == IF session.noAck THEN <<>> ELSE <<Plain("+")>>

ReceiveConsole ==
    InLoop("console") /\ Proceed([session EXCEPT !.consolePackets = @ + 1], Acknowledgement)

\* The reply the next outstanding command must have.
Expected ==
    CASE session.phase = "supported" -> "features"
      [] session.phase \in {"noAck", "detachPolicy", "detach", "cleanup"} -> "OK"
      [] session.phase = "attach" -> "stop"
      [] session.phase \in {"process", "finalProcess"} -> "process"
      [] session.phase \in {"challenge", "finalChallenge"} -> "challenge"
      [] session.phase = "region" -> "region"
      [] OTHER -> IF session.replies = <<>> THEN "none" ELSE Head(session.replies)

Accepted(phase) ==
    InLoop("reply") /\ session.phase = phase /\ Head(call.rx).text = Expected

\* A reply was dealt with and nothing is sent, or the next batch is.
Settle(s) == Proceed([s EXCEPT !.outstanding = @ - 1], Acknowledgement)
Continue(s, commands, phase) ==
    Proceed(Sent(s, commands, phase), Acknowledgement \o commands)
Ask(op, phase) == Continue(session, <<Plain(op)>>, phase)

ReplySupported ==
    /\ Accepted("supported")
    /\ Continue([session EXCEPT !.chunk = Head(call.rx).value],
                <<Plain("QStartNoAckMode")>>, "noAck")
ReplyNoAck ==
    /\ Accepted("noAck")
    /\ Continue([session EXCEPT !.noAck = TRUE], <<Plain("QSetDetachOnError")>>, "detachPolicy")
ReplyDetachPolicy == Accepted("detachPolicy") /\ Ask("vAttach", "attach")
ReplyAttach ==
    /\ Accepted("attach")
    /\ Continue([session EXCEPT !.attached = TRUE], <<Plain("qProcessInfo")>>, "process")
ReplyProcess == Accepted("process") /\ Ask("challenge", "challenge")
ReplyFinalProcess == Accepted("finalProcess") /\ Ask("challenge", "finalChallenge")
ReplyFinalChallenge == Accepted("finalChallenge") /\ Ask("D", "detach")

AskRegion(r, cursor) ==
    Continue([session EXCEPT !.index = r, !.regionCursor = cursor],
             <<Command("qMemoryRegionInfo", r, cursor, 0)>>, "region")
ReplyChallenge == Accepted("challenge") /\ AskRegion(1, 0)

PreflightBatch(o) ==
    LET reads == PreflightReads(session.index, o, session.chunk)
        last == reads[Len(reads)]
    IN  Continue([session EXCEPT !.offset = last.at + last.n,
                                 !.regionCursor = Size[session.index],
                                 !.replies = [j \in DOMAIN reads |-> "zeros"]],
                 reads, "preflight")
PrepareBatch(page) ==
    LET pages == PreparePages(page)
        next == PagesFrom(page)[PagesPerBatch]
    IN  Continue([session EXCEPT !.index = next[1], !.offset = next[2],
                                 !.replies = PrepareReplies(pages)],
                 PrepareCommands(pages), "prepare")

\* The server named the end of the region the cursor is in.
ReplyRegion ==
    /\ Accepted("region")
    /\ LET end == Lesser(Head(call.rx).value, Size[session.index])
       IN  IF end < Size[session.index] THEN AskRegion(session.index, end)
           ELSE PreflightBatch(0)

ReplyWithinBatch ==
    /\ Accepted("preflight") \/ Accepted("prepare")
    /\ session.outstanding > 1
    /\ Settle([session EXCEPT !.replies = Tail(@)])

\* Wrong form: one batch is taken for the whole arena.
ReplyPreflightOneBatch ==
    /\ Accepted("preflight") /\ session.outstanding = 1
    /\ \/ session.index < Len(Size) /\ AskRegion(session.index + 1, 0)
       \/ session.index = Len(Size) /\ PrepareBatch(<<1, 0>>)
\* The last reply of a preflight batch: the rest of this arena, the next
\* arena, or, when every arena has been read, the first pages to write.
ReplyPreflight ==
    /\ Accepted("preflight") /\ session.outstanding = 1
    /\ \/ /\ session.offset < Size[session.index]
          /\ PreflightBatch(session.offset)
       \/ /\ session.offset >= Size[session.index] /\ session.index < Len(Size)
          /\ AskRegion(session.index + 1, 0)
       \/ /\ session.offset >= Size[session.index] /\ session.index = Len(Size)
          /\ PrepareBatch(<<1, 0>>)

ReplyPrepare ==
    /\ Accepted("prepare") /\ session.outstanding = 1
    /\ \/ session.index <= Len(Size) /\ PrepareBatch(<<session.index, session.offset>>)
       \/ session.index > Len(Size) /\ Ask("qProcessInfo", "finalProcess")

\* The debugger is out: success, or the failure that waited for this.
ReplyDetached ==
    /\ Accepted("detach") \/ Accepted("cleanup")
    /\ LET s == [session EXCEPT !.attached = FALSE]
       IN  \/ ~session.pendingFailure
              /\ Proceed(Finished(s, "complete", "prepared"), Acknowledgement)
           \/ session.pendingFailure
              /\ Proceed(Finished(s, "failed", "failedDetached"), Acknowledgement)

\* Wrong form: the last reply of the batch is not followed by the detach.
ReplyDrainingForgets ==
    InLoop("reply") /\ session.phase = "draining" /\ Settle(session)
\* After a failure the rest of the batch is answered, then the session detaches.
ReplyDraining ==
    /\ InLoop("reply") /\ session.phase = "draining"
    /\ \/ session.outstanding > 1 /\ Settle(session)
       \/ session.outstanding = 1 /\ Ask("D", "cleanup")

\* Wrong form: the detach does not wait for the rest of the batch.
ReplyRefusedAtOnce ==
    /\ InLoop("reply")
    /\ session.phase # "draining" /\ Head(call.rx).text # Expected
    /\ LET detachable == session.attached /\ session.phase \notin {"detach", "cleanup"}
       IN  \/ detachable
              /\ Continue([session EXCEPT !.pendingFailure = TRUE], <<Plain("D")>>, "cleanup")
           \/ ~detachable /\ Proceed(Failed(session), Acknowledgement)
\* Not the reply expected.  An attached debugger is asked to detach first.
ReplyRefused ==
    /\ InLoop("reply")
    /\ session.phase # "draining" /\ Head(call.rx).text # Expected
    /\ LET s == [session EXCEPT !.pendingFailure = TRUE]
           detachable == session.attached /\ session.phase \notin {"detach", "cleanup"}
       IN  \/ detachable /\ session.outstanding > 1
              /\ Settle([s EXCEPT !.phase = "draining"])
           \/ detachable /\ session.outstanding = 1
              /\ Continue(s, <<Plain("D")>>, "cleanup")
           \/ ~detachable /\ Proceed(Failed(session), Acknowledgement)

ReceiveReply ==
    \/ ReplySupported \/ ReplyNoAck \/ ReplyDetachPolicy \/ ReplyAttach
    \/ ReplyProcess \/ ReplyFinalProcess \/ ReplyChallenge \/ ReplyFinalChallenge
    \/ ReplyRegion \/ ReplyWithinBatch \/ ReplyPreflight \/ ReplyPrepare
    \/ ReplyDetached \/ ReplyDraining \/ ReplyRefused

\* The call returns: the client writes what it collected, then reports.
EndReceive ==
    /\ call.active /\ call.rx = <<>>
    /\ call' = Quiet
    /\ toServer' = toServer \o call.out
    /\ IF session.verdict = "none" THEN UNCHANGED <<result, link>> ELSE Report(session.verdict)
    /\ UNCHANGED <<session, toClient, serverVars>>

\* A write that throws ends the client, with the session where it was.
WriteFails ==
    /\ call.active /\ call.rx = <<>> /\ call.out # <<>>
    /\ call' = Quiet
    /\ \E k \in 0 .. Len(call.out) - 1 : toServer' = toServer \o SubSeq(call.out, 1, k)
    /\ Report("uncertain")
    /\ UNCHANGED <<session, toClient, serverVars>>

InReceive ==
    \/ ReceiveThrows \/ ReceiveAck \/ ReceiveNack \/ ReceiveDamaged
    \/ ReceiveConsole \/ ReceiveReply \/ EndReceive
Receive == InReceive \/ \E n \in 1 .. Len(toClient) : BeginReceive(n)

-----------------------------------------------------------------------------
(* The debugserver and the target (external).                              *)

\* What an attached server finds when it does command c, as <<text, value>>.
Finds(c) ==
    CASE c.op = "qProcessInfo" -> {<<IF target.process THEN "process" ELSE "other", 0>>}
      [] c.op = "challenge" -> {<<IF target.challenge THEN "challenge" ELSE "other", 0>>}
      [] c.op = "qMemoryRegionInfo" ->
            {<<"region", e>> : e \in {e \in c.at + 1 .. Size[c.r] + 1 :
                \A u \in c.at .. e - 1 : <<c.r, u>> \notin target.unsafe}}
      [] c.op = "m" ->
            {<<IF \E u \in c.at .. c.at + c.n - 1 : <<c.r, u>> \in target.dirty
               THEN "other" ELSE "zeros", 0>>}
      [] c.op \in {"M", "D"} -> {<<"OK", 0>>}

\* The true answers to command c; none if it must fail.
Truth(c) ==
    CASE c.op = "qSupported" -> {<<"features", k>> : k \in Chunks}
      [] c.op \in {"QStartNoAckMode", "QSetDetachOnError"} -> {<<"OK", 0>>}
      [] c.op = "vAttach" -> IF debugger # "attached" THEN {<<"stop", 0>>} ELSE {}
      [] OTHER -> IF debugger = "attached" THEN Finds(c) ELSE {}

\* A command that is not refused takes effect, whatever its reply looks like.
Executes(c, text) ==
    LET done == Truth(c) # {} /\ text # "E"
    IN  /\ debugger' = CASE done /\ c.op = "vAttach" -> "attached"
                         [] done /\ c.op = "D" -> "gone"
                         [] OTHER -> debugger
        /\ touched' = IF done /\ c.op = "M" THEN touched \cup {<<c.r, c.at>>} ELSE touched
        /\ serverNoAck' = (serverNoAck \/ (done /\ c.op = "QStartNoAckMode"))

\* Packets reach a client that still has its stream.
Deliver(packets) == toClient' = IF link = "open" THEN toClient \o packets ELSE toClient

ServerTakes == toServer # <<>> /\ toServer' = Tail(toServer) /\ UNCHANGED <<clientVars, target, link>>
IsCommand == Head(toServer).op \notin {"+", "-"}

ServerAnswers ==
    /\ ServerTakes /\ IsCommand
    /\ \E answer \in Truth(Head(toServer)) \cup {<<"E", 0>>, <<"other", 0>>} :
          /\ Executes(Head(toServer), answer[1])
          /\ lastReply' = Reply(answer[1], answer[2])
          /\ \/ Deliver((IF serverNoAck THEN <<>> ELSE <<Packet("ack")>>) \o <<lastReply'>>)
             \/ ~serverNoAck /\ Deliver(<<Packet("ack"), Packet("bad")>>)
    /\ UNCHANGED consoleSent

\* The command arrived damaged.
ServerNacks ==
    /\ ServerTakes /\ IsCommand /\ ~serverNoAck
    /\ Deliver(<<Packet("nack")>>)
    /\ UNCHANGED serverVars

\* The client asks for the reply again, or acknowledges it.
ServerRepeats ==
    /\ ServerTakes /\ Head(toServer).op = "-"
    /\ \/ Deliver(<<lastReply>>)
       \/ Deliver(<<Packet("bad")>>)
    /\ UNCHANGED serverVars
ServerTakesAck ==
    /\ ServerTakes /\ Head(toServer).op = "+"
    /\ UNCHANGED <<toClient, serverVars>>

ServerConsole ==
    /\ consoleSent < ConsoleBudget /\ link = "open"
    /\ consoleSent' = consoleSent + 1
    /\ Deliver(<<Packet("console")>>)
    /\ UNCHANGED <<clientVars, link, toServer, target, debugger, touched, serverNoAck, lastReply>>

\* The server finds its connection closed: what it had not read is lost, and
\* QSetDetachOnError makes it detach.
ServerLosesClient ==
    /\ link = "cut" /\ (toServer # <<>> \/ debugger = "attached")
    /\ toServer' = <<>>
    /\ debugger' = IF debugger = "attached" THEN "gone" ELSE debugger
    /\ UNCHANGED <<clientVars, link, toClient, target, touched, serverNoAck, lastReply, consoleSent>>

Server ==
    \/ ServerAnswers \/ ServerNacks \/ ServerRepeats
    \/ ServerTakesAck \/ ServerConsole \/ ServerLosesClient

-----------------------------------------------------------------------------
Init ==
    /\ session = Fresh /\ call = Quiet /\ result = "none"
    /\ link = "opening" /\ toServer = <<>> /\ toClient = <<>>
    /\ target \in Targets /\ debugger = "none" /\ touched = {}
    /\ serverNoAck = FALSE /\ lastReply = Packet("none") /\ consoleSent = 0

\* The client reported and the server is rid of it.
Done ==
    /\ result # "none" /\ toServer = <<>> /\ debugger # "attached"
    /\ UNCHANGED vars

Next ==
    \/ OpenFails \/ Begin \/ Cancel \/ TimedOut \/ Disconnected
    \/ Receive \/ WriteFails \/ Server \/ Done

Spec == Init /\ [][Next]_vars

\* The client's queue and timers run, so a deadline that passed is noticed; a
\* server whose connection is closed notices it.
DeadlinesPass ==
    /\ WF_vars(OpenFails) /\ WF_vars(TimedOut) /\ WF_vars(InReceive)
    /\ WF_vars(ServerLosesClient)

\* The connection comes up and the server answers; no deadline has to pass, and
\* nothing has to be written to the console.
ServerResponds ==
    /\ WF_vars(Begin) /\ WF_vars(Receive)
    /\ WF_vars(ServerAnswers \/ ServerNacks \/ ServerRepeats \/ ServerTakesAck \/ ServerLosesClient)

-----------------------------------------------------------------------------
(* Properties.                                                             *)

Commands == [op : {"qSupported", "QStartNoAckMode", "QSetDetachOnError", "vAttach",
                   "qProcessInfo", "challenge", "qMemoryRegionInfo", "m", "M",
                   "D", "+", "-"},
             r : 0 .. Len(Size), at : Nat, n : Nat]
Packets == [kind : {"ack", "nack", "bad", "console", "reply", "none"},
            text : {"OK", "E", "features", "stop", "process", "challenge",
                    "region", "zeros", "other", "none"},
            value : Nat]
Outcomes == {"none", "prepared", "failedDetached", "uncertain"}

Phases == {"idle", "supported", "noAck", "detachPolicy", "attach", "process",
           "challenge", "region", "preflight", "prepare", "draining",
           "finalProcess", "finalChallenge", "detach", "cleanup", "complete", "failed"}
Sessions ==
    [phase : Phases,
     outstanding : Nat, noAck : BOOLEAN, acknowledged : BOOLEAN,
     retries : 0 .. MaxRetries, badPackets : 0 .. MaxRetries,
     consolePackets : 0 .. MaxConsole, lastPacket : Seq(Commands), chunk : Nat,
     index : 0 .. Len(Size) + 1, offset : Nat, regionCursor : Nat,
     replies : Seq({"OK", "zeros"}), attached : BOOLEAN,
     pendingFailure : BOOLEAN, verdict : Outcomes]

TypeOK ==
    /\ session \in Sessions
    /\ call \in [active : BOOLEAN, rx : Seq(Packets), answerable : Nat, out : Seq(Commands)]
    /\ result \in Outcomes
    /\ link \in {"opening", "open", "cut"}
    /\ toServer \in Seq(Commands) /\ toClient \in Seq(Packets)
    /\ target \in Targets /\ debugger \in {"none", "attached", "gone"}
    /\ touched \subseteq Pages /\ serverNoAck \in BOOLEAN
    /\ lastReply \in Packets /\ consoleSent \in 0 .. ConsoleBudget

\* Nothing is ever written into an app that is not the one that asked, or into
\* memory that is not all zero and anonymous readable-executable: every arena
\* passes the whole preflight before the first page is written.
WritesOnlyFreshArenas ==
    touched # {} => /\ target.process /\ target.challenge
                    /\ target.dirty = {} /\ target.unsafe = {}

\* Each reply is taken for the answer to its own command: with acknowledgements
\* off, the session waits for exactly the commands on their way to the server
\* and the replies on their way back.
RepliesMatchCommands ==
    LET count(s) == Cardinality({i \in DOMAIN s : s[i].kind = "reply"})
        sent(s) == Cardinality({i \in DOMAIN s : s[i].op # "+"})
    IN  (session.noAck /\ link = "open" /\ ~Terminal)
        => session.outstanding
             = sent(toServer) + sent(call.out) + count(toClient) + count(call.rx)

\* The abstract transaction, in the session's own variables.
Transaction == INSTANCE ArenaTransaction

\* One attach at most, pages touched only while attached, and a report of
\* prepared or failedDetached only once the debugger is gone for good.
ImplementsTransaction == Transaction!TransactionSpec

\* The client always reports: when the deadlines are noticed, and also when none
\* ever passes but the server answers.
Concludes == /\ DeadlinesPass => <>(result # "none")
             /\ ServerResponds => <>(result # "none")

\* The app that a debugger stopped always runs again, whatever the server does.
AppResumes == DeadlinesPass => (debugger = "attached") ~> (debugger = "gone")
=============================================================================
