---------------------------- MODULE ArenaHandoff ----------------------------
(***************************************************************************)
(* An app process asks the packet-tunnel provider to have an arena         *)
(* prepared, and acts on the answer: nc_create_managed, the publisher and  *)
(* the poller on the app's side; the provider's ArenaPreparationService;   *)
(* provider messages that may be lost, delayed and reordered; and one      *)
(* debugger transaction per service, as ArenaTransaction promises it.      *)
(*                                                                         *)
(* The app may die and be relaunched (a new process, a new arena), and the *)
(* tunnel may be stopped, restarted or killed (a new service), at any      *)
(* moment.  While a debugger is attached the app takes no step.            *)
(***************************************************************************)
EXTENDS Naturals, FiniteSets

CONSTANTS
    MaxHosts,       \* app processes started, one after the other
    MaxServices,    \* services the provider creates
    MaxSends        \* messages a poller sends

ASSUME BoundsAssumption ==
    /\ MaxHosts \in Nat \ {0} /\ MaxServices \in Nat \ {0} /\ MaxSends \in Nat

Hosts == 1 .. MaxHosts
Services == 1 .. MaxServices

VARIABLES
    host,           \* the running app process
    arena,          \* what it did with its arena
    publisher,      \* TKLocalArenaPublisher: "idle", "waiting", then its outcome
    poller,         \* TKLocalArenaPoller
    expired,        \* processes whose request is past its deadline
    requests,       \* provider messages on their way
    answers,        \* replies on their way to a poller
    current,        \* the service the provider has now
    service,        \* every service: what ArenaPreparationService keeps
    tx              \* every service's debugger transaction

hostVars == <<host, arena, publisher, poller>>
wireVars == <<requests, answers>>
providerVars == <<current, service, tx>>
vars == <<hostVars, expired, wireVars, providerVars>>

Replies == {"PREPARED", "REJECTED", "FAILED_DETACHED", "UNCERTAIN", "PENDING"}
Final == Replies \ {"PENDING"}

NoPoller == [state |-> "none", generation |-> 0]
NewService == [request |-> 0, preparing |-> FALSE, reply |-> "none",
               used |-> FALSE, closed |-> FALSE, ready |-> FALSE]
NoTransaction == [host |-> 0, debugger |-> "none", prepared |-> FALSE, result |-> "none"]

-----------------------------------------------------------------------------
(* The app.                                                                *)

\* The app's threads run unless a debugger holds the process.
Stopped(h) == \E s \in Services : tx[s].host = h /\ tx[s].debugger = "attached"
HostRuns == ~Stopped(host) /\ UNCHANGED <<host, expired, providerVars>>

\* nc_create_managed maps the arena and calls the publisher, whose transport
\* first loads the system's tunnel preferences.
StartPreparation ==
    /\ HostRuns
    /\ arena = "none"
    /\ arena' = "mapped"
    /\ publisher' = "waiting"
    /\ poller' = [poller EXCEPT !.state = "loading"]
    /\ UNCHANGED wireVars

\* The challenge cannot be mapped or the request not encoded: nothing was sent.
PreparationUnavailable ==
    /\ HostRuns
    /\ arena = "none"
    /\ arena' = "mapped"
    /\ publisher' = "rejected"
    /\ UNCHANGED <<poller, wireVars>>

\* Wrong form: a reply that is not a success lets the arena be freed.
PublishFreesUncertain(reply) ==
    publisher' = IF publisher # "waiting" THEN publisher
                 ELSE IF host \in expired THEN "uncertain"
                 ELSE IF reply = "PREPARED" THEN "prepared"
                 ELSE "rejected"
\* The publisher's completion counts only while prepare waits.
Publish(reply) ==
    publisher' = IF publisher # "waiting" THEN publisher
                 ELSE IF host \in expired THEN "uncertain"
                 ELSE IF reply = "PREPARED" THEN "prepared"
                 ELSE IF reply \in {"REJECTED", "FAILED_DETACHED"} THEN "rejected"
                 ELSE "uncertain"

\* send: the message leaves, or sendProviderMessage refuses it.
Send(command) ==
    LET generation == poller.generation + 1
    IN  /\ generation <= MaxSends
        /\ poller' = [state |-> "polling", generation |-> generation]
        /\ \/ requests' = requests \cup
                  {[host |-> host, command |-> command, generation |-> generation]}
           \/ UNCHANGED requests
        /\ UNCHANGED answers

\* The preferences are there.  Without a connected tunnel the request is turned
\* down here; otherwise the poller submits it, once.
TransportFindsNoTunnel ==
    /\ HostRuns /\ poller.state = "loading"
    /\ Publish("REJECTED")
    /\ poller' = [poller EXCEPT !.state = "finished"]
    /\ UNCHANGED <<arena, wireVars>>
PollerStarts ==
    /\ HostRuns /\ poller.state = "loading" /\ host \notin expired
    /\ Send("SUBMIT")
    /\ UNCHANGED <<arena, publisher>>

PollerFinishes(reply) ==
    /\ Publish(reply)
    /\ poller' = [poller EXCEPT !.state = "finished"]

\* Wrong form: the lost submission is repeated.
PollerTimerResubmits ==
    /\ HostRuns /\ poller.state = "polling"
    /\ \/ host \in expired /\ PollerFinishes("nil") /\ UNCHANGED wireVars
       \/ host \notin expired /\ Send("SUBMIT") /\ UNCHANGED publisher
    /\ UNCHANGED arena
\* The poller's timer: past the deadline it gives up; a message that was
\* answered, refused or is 5 s old (it may be, at any moment) is followed by a
\* status query.
PollerTimer ==
    /\ HostRuns /\ poller.state = "polling"
    /\ \/ host \in expired /\ PollerFinishes("nil") /\ UNCHANGED wireVars
       \/ host \notin expired /\ Send("POLL") /\ UNCHANGED publisher
    /\ UNCHANGED arena

\* A late start: the deadline passed while the preferences were loading.
PollerStartsLate ==
    /\ HostRuns /\ poller.state = "loading" /\ host \in expired
    /\ PollerFinishes("nil")
    /\ UNCHANGED <<arena, wireVars>>

\* A reply, or the system's nil for a message that got none.  Only a final
\* reply to the latest message counts.
PollerReceives(answer) ==
    /\ HostRuns
    /\ answers' = answers \ {answer}
    /\ IF /\ answer.host = host /\ poller.state = "polling"
          /\ answer.generation = poller.generation
          /\ answer.reply \in Final
       THEN PollerFinishes(answer.reply)
       ELSE UNCHANGED <<publisher, poller>>
    /\ UNCHANGED <<arena, requests>>

\* Wrong form: prepare waits for the poller to notice the deadline.
PublisherTimesOutAfterPoller ==
    /\ HostRuns /\ publisher = "waiting" /\ host \in expired /\ poller.state = "finished"
    /\ publisher' = "uncertain"
    /\ UNCHANGED <<arena, poller, wireVars>>
\* prepare stops waiting at the deadline.
PublisherTimesOut ==
    /\ HostRuns /\ publisher = "waiting" /\ host \in expired
    /\ publisher' = "uncertain"
    /\ UNCHANGED <<arena, poller, wireVars>>

\* nc_create_managed acts on the outcome.  Enabling the writable alias may fail.
FinishPreparation ==
    /\ HostRuns /\ arena = "mapped"
    /\ \/ publisher = "prepared" /\ arena' \in {"writable", "freed"}
       \/ publisher = "rejected" /\ arena' = "freed"
       \/ publisher = "uncertain" /\ arena' = "quarantined"
    /\ UNCHANGED <<publisher, poller, wireVars>>

\* The app ends, whether it was done, crashed or was killed, and is relaunched.
\* The system drops the handlers of its messages; a debugger loses its target.
Relaunch ==
    /\ host < MaxHosts
    /\ host' = host + 1
    /\ arena' = "none" /\ publisher' = "idle" /\ poller' = NoPoller
    /\ answers' = {}
    /\ tx' = [s \in Services |->
                IF tx[s].host = host /\ tx[s].debugger = "attached"
                THEN [tx[s] EXCEPT !.debugger = "gone"] ELSE tx[s]]
    /\ UNCHANGED <<expired, requests, current, service>>

DeadlinePasses(h) ==
    /\ h < host \/ (h = host /\ arena # "none")
    /\ h \notin expired
    /\ expired' = expired \cup {h}
    /\ UNCHANGED <<hostVars, wireVars, providerVars>>

-----------------------------------------------------------------------------
(* Provider messages.                                                      *)

Answered(request, reply) ==
    IF request.host = host
    THEN answers \cup {[host |-> request.host, generation |-> request.generation, reply |-> reply]}
    ELSE answers

\* A message, or its reply, is lost; the system may report that with nil.
LoseRequest(request) ==
    /\ requests' = requests \ {request}
    /\ answers' \in {answers, Answered(request, "nil")}
    /\ UNCHANGED <<hostVars, expired, providerVars>>
LoseAnswer(answer) ==
    /\ answers' = answers \ {answer}
    /\ UNCHANGED <<hostVars, expired, requests, providerVars>>

-----------------------------------------------------------------------------
(* The provider.                                                           *)

\* Wrong form: a query is answered without comparing the request.
HandleMessageAnyPoll(request, s) ==
    LET mine == service[s]
        accepted == request.command = "SUBMIT" /\ mine.request = 0
    IN  /\ s <= current
        /\ requests' = requests \ {request}
        /\ service' = IF ~accepted THEN service
                      ELSE [service EXCEPT ![s].request = request.host, ![s].preparing = TRUE]
        /\ answers' = Answered(request,
               IF accepted THEN "PENDING"
               ELSE IF request.command = "SUBMIT" THEN "UNCERTAIN"
               ELSE IF mine.reply = "none" THEN "PENDING" ELSE mine.reply)
        /\ UNCHANGED <<hostVars, expired, current, tx>>

\* handleAsync, of the service the provider had when the message came in: the
\* first submission is accepted and prepared by a later block of the queue;
\* anything else submitted or polled for is uncertain.
HandleMessage(request, s) ==
    LET mine == service[s]
        accepted == request.command = "SUBMIT" /\ mine.request = 0
    IN  /\ s <= current
        /\ requests' = requests \ {request}
        /\ service' = IF ~accepted THEN service
                      ELSE [service EXCEPT ![s].request = request.host, ![s].preparing = TRUE]
        /\ answers' = Answered(request,
               CASE accepted -> "PENDING"
                 [] ~accepted /\ (request.command = "SUBMIT" \/ mine.request # request.host) -> "UNCERTAIN"
                 [] OTHER -> IF mine.reply = "none" THEN "PENDING" ELSE mine.reply)
        /\ UNCHANGED <<hostVars, expired, current, tx>>

\* setVerifiedDebugService: the tunnel's discovery found the debugserver.
ServiceReady ==
    LET mine == service[current]
    IN  /\ ~mine.used /\ ~mine.closed /\ ~mine.ready
        /\ service' = [service EXCEPT ![current].ready = TRUE]
        /\ UNCHANGED <<hostVars, expired, wireVars, current, tx>>

\* prepare: one attempt per service, for a request whose time is not over.
Prepare(s) ==
    LET mine == service[s]
    IN  /\ mine.preparing
        /\ IF mine.used \/ mine.closed \/ ~mine.ready \/ mine.request \in expired
           THEN /\ service' = [service EXCEPT ![s].preparing = FALSE, ![s].reply = "REJECTED"]
                /\ UNCHANGED tx
           ELSE /\ service' = [service EXCEPT ![s].preparing = FALSE, ![s].used = TRUE]
                /\ tx' = [tx EXCEPT ![s].host = mine.request]
        /\ UNCHANGED <<hostVars, expired, wireVars, current>>

\* The client's completion, once per transaction.
Running(s) == tx[s].host # 0 /\ tx[s].result = "none"
Complete(s, verdict) ==
    /\ tx' = [tx EXCEPT ![s].result = verdict]
    /\ service' = [service EXCEPT ![s].reply =
          CASE verdict = "prepared" -> "PREPARED"
            [] verdict = "failedDetached" -> "FAILED_DETACHED"
            [] verdict = "uncertain" -> "UNCERTAIN"]

\* The transaction's own verdict; the deadline's timer cancels it.
TransactionEnds(s) ==
    /\ Running(s)
    /\ \/ tx[s].debugger = "gone" /\ tx[s].prepared /\ Complete(s, "prepared")
       \/ tx[s].debugger = "gone" /\ Complete(s, "failedDetached")
       \/ Complete(s, "uncertain")
    /\ UNCHANGED <<hostVars, expired, wireVars, current>>
\* Wrong form: the transaction is cancelled and nobody is told.
DeadlineCancelsSilently(s) ==
    /\ Running(s) /\ tx[s].host \in expired
    /\ tx' = [tx EXCEPT ![s].result = "uncertain"]
    /\ UNCHANGED <<hostVars, expired, wireVars, current, service>>
DeadlineCancels(s) ==
    /\ Running(s) /\ tx[s].host \in expired
    /\ Complete(s, "uncertain")
    /\ UNCHANGED <<hostVars, expired, wireVars, current>>

\* invalidate: closed for good, a running transaction cancelled.
Invalidated ==
    /\ service' = [service EXCEPT ![current].closed = TRUE, ![current].ready = FALSE,
                      ![current].reply = IF Running(current) THEN "UNCERTAIN" ELSE @]
    /\ tx' = [tx EXCEPT ![current].result = IF Running(current) THEN "uncertain" ELSE @]

\* stopTunnel, or a route that no longer takes packets.
StopTunnel ==
    /\ ~service[current].closed
    /\ Invalidated
    /\ UNCHANGED <<hostVars, expired, wireVars, current>>

\* startTunnel invalidates the service it finds and makes a new one.  A killed
\* provider process leaves the same behind: a service nobody will hear of.
StartTunnel ==
    /\ current < MaxServices
    /\ Invalidated
    /\ current' = current + 1
    /\ UNCHANGED <<hostVars, expired, wireVars>>

-----------------------------------------------------------------------------
(* The debugger (ArenaTransaction): an attach that was asked for may happen *)
(* long after the transaction was given up.                                *)

Alive(s) == tx[s].host = host
DebuggerAttaches(s) ==
    /\ tx[s].host # 0 /\ Alive(s) /\ tx[s].debugger = "none"
    /\ ~Stopped(host)
    /\ tx' = [tx EXCEPT ![s].debugger = "attached"]
    /\ UNCHANGED <<hostVars, expired, wireVars, current, service>>
DebuggerPrepares(s) ==
    /\ tx[s].debugger = "attached" /\ ~tx[s].prepared
    /\ tx' = [tx EXCEPT ![s].prepared = TRUE]
    /\ UNCHANGED <<hostVars, expired, wireVars, current, service>>
DebuggerLeaves(s) ==
    /\ tx[s].debugger = "attached"
    /\ tx' = [tx EXCEPT ![s].debugger = "gone"]
    /\ UNCHANGED <<hostVars, expired, wireVars, current, service>>

-----------------------------------------------------------------------------
Init ==
    /\ host = 1 /\ arena = "none" /\ publisher = "idle" /\ poller = NoPoller
    /\ expired = {} /\ requests = {} /\ answers = {}
    /\ current = 1
    /\ service = [s \in Services |-> NewService]
    /\ tx = [s \in Services |-> NoTransaction]

App ==
    \/ StartPreparation \/ PreparationUnavailable \/ TransportFindsNoTunnel \/ PollerStarts
    \/ PollerStartsLate \/ PollerTimer \/ PublisherTimesOut \/ FinishPreparation
    \/ \E answer \in answers : PollerReceives(answer)
Wire ==
    \/ \E request \in requests : LoseRequest(request)
    \/ \E request \in requests, s \in Services : HandleMessage(request, s)
    \/ \E answer \in answers : LoseAnswer(answer)
Provider ==
    \/ ServiceReady \/ StopTunnel \/ StartTunnel
    \/ \E s \in Services : Prepare(s) \/ TransactionEnds(s) \/ DeadlineCancels(s)
Debugger ==
    \E s \in Services : DebuggerAttaches(s) \/ DebuggerPrepares(s) \/ DebuggerLeaves(s)

Next ==
    \/ App \/ Wire \/ Provider \/ Debugger \/ Relaunch
    \/ \E h \in Hosts : DeadlinePasses(h)

Spec == Init /\ [][Next]_vars

\* Time passes, the app's threads are scheduled when nothing holds the process,
\* the service's queue and timer run, and a debugger does not stay for ever (AppResumes of ArenaSession).
FairSpec ==
    /\ Spec
    /\ \A h \in Hosts : WF_vars(DeadlinePasses(h))
    /\ WF_vars(PublisherTimesOut) /\ WF_vars(FinishPreparation)
    /\ \A s \in Services : /\ WF_vars(Prepare(s)) /\ WF_vars(DeadlineCancels(s))
                           /\ WF_vars(DebuggerLeaves(s))

-----------------------------------------------------------------------------
(* Properties.                                                             *)

Requests == [host : Hosts, command : {"SUBMIT", "POLL"}, generation : 1 .. MaxSends]
ServiceStates == [request : 0 .. MaxHosts, preparing : BOOLEAN, reply : Final \cup {"none"},
                  used : BOOLEAN, closed : BOOLEAN, ready : BOOLEAN]
Transactions == [host : 0 .. MaxHosts, debugger : {"none", "attached", "gone"},
                 prepared : BOOLEAN,
                 result : {"none", "prepared", "failedDetached", "uncertain"}]
Answers == [host : Hosts, generation : 1 .. MaxSends, reply : Replies \cup {"nil"}]

TypeOK ==
    /\ host \in Hosts
    /\ arena \in {"none", "mapped", "writable", "freed", "quarantined"}
    /\ publisher \in {"idle", "waiting", "prepared", "rejected", "uncertain"}
    /\ poller \in [state : {"none", "loading", "polling", "finished"},
                   generation : 0 .. MaxSends]
    /\ expired \subseteq Hosts
    /\ requests \subseteq Requests /\ answers \subseteq Answers
    /\ current \in Services
    /\ service \in [Services -> ServiceStates]
    /\ tx \in [Services -> Transactions]

\* A debugger is only ever in an app whose arena waits or is in quarantine:
\* never in one that enabled writing (and entered the guest), and never where
\* the arena's addresses were freed and may hold something else.
DebuggerFindsReservedArena ==
    \A s \in Services : tx[s].debugger = "attached" /\ Alive(s)
                        => arena \in {"mapped", "quarantined"}

\* Writing is enabled only on an arena that a debugger prepared for this very
\* process and then left.
WritableMeansPrepared ==
    arena = "writable" =>
        \E s \in Services : Alive(s) /\ tx[s].prepared /\ tx[s].debugger = "gone"

\* An app process is attached to at most once, whatever is lost or restarted.
AttachedOnce ==
    \A h \in Hosts : Cardinality({s \in Services : tx[s].host = h /\ tx[s].debugger # "none"}) <= 1

(* The inductive invariant behind the three.                                *)

\* A process's submission is in one place at most: not sent yet, on its way,
\* or with the one service that accepted it.
HasSent(h) == h < host \/ (h = host /\ poller.state \in {"polling", "finished"})
Submitting(h) == \E q \in requests : q.host = h /\ q.command = "SUBMIT"
SubmittedOnce ==
    /\ poller.state \in {"none", "loading"} => poller.generation = 0
    /\ \A q \in requests : q.command = "SUBMIT" => q.generation = 1
    /\ \A s \in Services : ~(service[s].request # 0 /\ Submitting(service[s].request))
    /\ \A s, t \in Services : service[s].request = service[t].request /\ s # t
                              => service[s].request = 0
    /\ \A q \in requests : HasSent(q.host)
    /\ \A s \in Services : service[s].request # 0 => HasSent(service[s].request)

\* A service attaches only for the request it accepted, and its reply says
\* what its transaction came to.
RepliesAreTrue ==
    \A s \in Services :
        /\ tx[s].host \in {0, service[s].request}
        /\ tx[s].host = 0 => tx[s].debugger = "none"
        /\ service[s].preparing =>
              service[s].request # 0 /\ tx[s].host = 0 /\ service[s].reply = "none"
        /\ service[s].reply # "none" => service[s].request # 0
        /\ service[s].reply = "REJECTED" => tx[s].host = 0
        /\ service[s].reply \in {"PREPARED", "FAILED_DETACHED"} =>
              tx[s].host # 0 /\ tx[s].debugger = "gone"
        /\ service[s].reply = "PREPARED" => tx[s].prepared
        /\ Running(s) => service[s].reply = "none"

\* No debugger is or ever will be in process h; one prepared its arena.
Safe(h) ==
    /\ ~Submitting(h)
    /\ h = host => poller.state # "loading"
    /\ \A s \in Services : service[s].request = h =>
          ~service[s].preparing /\ (tx[s].host = 0 \/ tx[s].debugger = "gone")
PreparedFor(h) ==
    \E s \in Services : tx[s].host = h /\ tx[s].prepared /\ tx[s].debugger = "gone"

\* What the app was told, and what it did, is justified.
AppIsJustified ==
    /\ arena = "none" => publisher = "idle" /\ poller.state = "none"
    /\ publisher \in {"prepared", "rejected"} => Safe(host)
    /\ publisher = "prepared" => PreparedFor(host)
    /\ arena \in {"writable", "freed"} => publisher \in {"prepared", "rejected"}
    /\ arena = "writable" => publisher = "prepared"
    /\ \A a \in answers :
          /\ a.host = host /\ HasSent(host)
          /\ a.reply \in {"PREPARED", "REJECTED", "FAILED_DETACHED"} => Safe(host)
          /\ a.reply = "PREPARED" => PreparedFor(host)

\* A submission is owned by one service, replies are true to the debugger, and
\* the app acts only on what is justified.
HandoffInv == SubmittedOnce /\ RepliesAreTrue /\ AppIsJustified

\* nc_create_managed returns.
PreparationReturns == arena = "mapped" ~> arena # "mapped"

\* A service that accepted a request comes to an answer for it.
AcceptedIsSettled ==
    \A s \in Services : service[s].request # 0 ~> service[s].reply # "none"
=============================================================================
