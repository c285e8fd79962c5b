------------------------- MODULE ArenaHandoffProofs -------------------------
(* Proofs about ArenaHandoff, for any number of app processes, services and  *)
(* messages.                                                                 *)
EXTENDS ArenaHandoff, FiniteSetTheorems, TLAPS

USE DEF Hosts, Services

(* What the operators several actions share return.                          *)

LEMMA SendTypes ==
    ASSUME TypeOK, NEW command \in {"SUBMIT", "POLL"}, Send(command)
    PROVE  /\ poller' \in [state : {"none", "loading", "polling", "finished"},
                            generation : 0 .. MaxSends]
           /\ requests' \subseteq Requests /\ answers' \subseteq Answers
<1>1. poller.generation \in Nat /\ poller.generation + 1 <= MaxSends
  BY BoundsAssumption DEF TypeOK, Send
<1>2. [host |-> host, command |-> command, generation |-> poller.generation + 1] \in Requests
  BY <1>1, BoundsAssumption DEF TypeOK, Requests
<1> QED
  BY <1>1, <1>2, BoundsAssumption DEF TypeOK, Send

LEMMA AnsweredTypes ==
    ASSUME TypeOK, NEW request \in requests, NEW reply \in Replies \cup {"nil"}
    PROVE  Answered(request, reply) \subseteq Answers
BY DEF TypeOK, Answered, Answers, Requests

LEMMA InvalidatedTypes ==
    ASSUME TypeOK, Invalidated
    PROVE  service' \in [Services -> ServiceStates] /\ tx' \in [Services -> Transactions]
<1>1. [service[current] EXCEPT !.closed = TRUE, !.ready = FALSE,
          !.reply = IF Running(current) THEN "UNCERTAIN" ELSE @] \in ServiceStates
  BY ZenonT(40) DEF TypeOK, ServiceStates, Final, Replies
<1>2. [tx[current] EXCEPT !.result = IF Running(current) THEN "uncertain" ELSE @]
        \in Transactions
  BY DEF TypeOK, Transactions
<1> QED
  BY <1>1, <1>2 DEF TypeOK, Invalidated

LEMMA CompleteTypes ==
    ASSUME TypeOK, NEW s \in Services,
           NEW verdict \in {"prepared", "failedDetached", "uncertain"}, Complete(s, verdict)
    PROVE  service' \in [Services -> ServiceStates] /\ tx' \in [Services -> Transactions]
BY DEF TypeOK, Complete, ServiceStates, Transactions, Final, Replies

\* Every step keeps the types.
LEMMA TypeStep == TypeOK /\ [Next]_vars => TypeOK'
<1> USE BoundsAssumption
<1> SUFFICES ASSUME TypeOK, [Next]_vars PROVE TypeOK'
  OBVIOUS
<1> USE DEF TypeOK, hostVars, wireVars, providerVars
<1>1. CASE StartPreparation
  BY <1>1 DEF StartPreparation, HostRuns
<1>2. CASE PreparationUnavailable
  BY <1>2 DEF PreparationUnavailable, HostRuns
<1>3. CASE TransportFindsNoTunnel
  BY <1>3 DEF TransportFindsNoTunnel, HostRuns, Publish
<1>4. CASE PollerStarts
  BY <1>4, SendTypes DEF PollerStarts, HostRuns
<1>5. CASE PollerStartsLate
  BY <1>5 DEF PollerStartsLate, HostRuns, PollerFinishes, Publish
<1>6. CASE PollerTimer
  BY <1>6, SendTypes DEF PollerTimer, HostRuns, PollerFinishes, Publish
<1>7. CASE PublisherTimesOut
  BY <1>7 DEF PublisherTimesOut, HostRuns
<1>8. CASE FinishPreparation
  BY <1>8 DEF FinishPreparation, HostRuns
<1>9. ASSUME NEW answer \in answers, PollerReceives(answer) PROVE TypeOK'
  BY <1>9 DEF PollerReceives, HostRuns, PollerFinishes, Publish
<1>10. ASSUME NEW request \in requests, LoseRequest(request) PROVE TypeOK'
  BY <1>10, AnsweredTypes DEF LoseRequest
<1>11. ASSUME NEW request \in requests, NEW s \in Services, HandleMessage(request, s)
       PROVE TypeOK'
  <2>0. service[s].reply = "none" \/ service[s].reply \in Replies
    BY DEF ServiceStates, Final
  <2>1. answers' \subseteq Answers
    <3>1. PICK reply \in Replies : answers' = Answered(request, reply)
      BY <1>11, <2>0 DEF HandleMessage, Replies
    <3> QED
      BY <3>1, AnsweredTypes
  <2>2. [service[s] EXCEPT !.request = request.host, !.preparing = TRUE] \in ServiceStates
    <3>1. request.host \in 0 .. MaxHosts /\ service[s] \in ServiceStates
      BY DEF Requests
    <3> QED
      BY <3>1 DEF ServiceStates
  <2> QED
    BY <1>11, <2>1, <2>2 DEF HandleMessage
<1>12. ASSUME NEW answer \in answers, LoseAnswer(answer) PROVE TypeOK'
  BY <1>12 DEF LoseAnswer
<1>13. CASE ServiceReady
  BY <1>13, ZenonT(40) DEF ServiceReady, ServiceStates
<1>14. CASE StopTunnel
  BY <1>14, InvalidatedTypes DEF StopTunnel
<1>15. CASE StartTunnel
  BY <1>15, InvalidatedTypes DEF StartTunnel
<1>16. ASSUME NEW s \in Services, Prepare(s) PROVE TypeOK'
  <2>1. /\ [service[s] EXCEPT !.preparing = FALSE, !.reply = "REJECTED"] \in ServiceStates
        /\ [service[s] EXCEPT !.preparing = FALSE, !.used = TRUE] \in ServiceStates
    BY ZenonT(40) DEF ServiceStates, Final, Replies
  <2>2. [tx[s] EXCEPT !.host = service[s].request] \in Transactions
    <3>1. service[s].request \in 0 .. MaxHosts /\ tx[s] \in Transactions
      BY DEF ServiceStates
    <3> QED
      BY <3>1 DEF Transactions
  <2> QED
    BY <1>16, <2>1, <2>2 DEF Prepare
<1>17. ASSUME NEW s \in Services, TransactionEnds(s) PROVE TypeOK'
  BY <1>17, CompleteTypes DEF TransactionEnds
<1>18. ASSUME NEW s \in Services, DeadlineCancels(s) PROVE TypeOK'
  BY <1>18, CompleteTypes DEF DeadlineCancels
<1>19. ASSUME NEW s \in Services, DebuggerAttaches(s) PROVE TypeOK'
  BY <1>19, ZenonT(40) DEF DebuggerAttaches, Transactions
<1>20. ASSUME NEW s \in Services, DebuggerPrepares(s) PROVE TypeOK'
  BY <1>20, ZenonT(40) DEF DebuggerPrepares, Transactions
<1>21. ASSUME NEW s \in Services, DebuggerLeaves(s) PROVE TypeOK'
  BY <1>21, ZenonT(40) DEF DebuggerLeaves, Transactions
<1>22. CASE Relaunch
  <2>1. tx' \in [Services -> Transactions]
    BY <1>22, ZenonT(40) DEF Relaunch, Transactions
  <2> QED
    BY <1>22, <2>1 DEF Relaunch, NoPoller
<1>23. ASSUME NEW h \in Hosts, DeadlinePasses(h) PROVE TypeOK'
  BY <1>23 DEF DeadlinePasses
<1>24. CASE UNCHANGED vars
  BY <1>24 DEF vars
<1> QED
  BY <1>1, <1>2, <1>3, <1>4, <1>5, <1>6, <1>7, <1>8, <1>9, <1>10, <1>11, <1>12,
     <1>13, <1>14, <1>15, <1>16, <1>17, <1>18, <1>19, <1>20, <1>21, <1>22, <1>23,
     <1>24 DEF Next, App, Wire, Provider, Debugger

\* Every state the handoff reaches is well typed.
THEOREM HandoffTypes == Spec => []TypeOK
<1>1. Init => TypeOK
  BY BoundsAssumption DEF Init, TypeOK, NoPoller, NewService, NoTransaction,
     Final, Replies, ServiceStates, Transactions
<1> QED
  BY <1>1, TypeStep, PTL DEF Spec

-----------------------------------------------------------------------------
(* The inductive invariant.                                                  *)

\* Types of the fields the invariant compares.
LEMMA FieldTypes ==
    ASSUME TypeOK
    PROVE  /\ host \in Nat /\ poller.generation \in Nat
           /\ \A q \in requests : q.host \in 1 .. MaxHosts /\ q.generation \in Nat
           /\ \A s \in Services : /\ service[s].request \in 0 .. MaxHosts
                                  /\ service[s].preparing \in BOOLEAN
                                  /\ tx[s].host \in 0 .. MaxHosts
BY BoundsAssumption DEF TypeOK, Requests, ServiceStates, Transactions

\* What another process or service does to its own request leaves this one safe:
\* Safe depends on nothing but the state it names.
LEMMA SafeFrame ==
    ASSUME NEW h, requests' \subseteq requests, host' = host,
           poller'.state = poller.state \/ poller'.state # "loading",
           service' = service, tx' = tx, Safe(h)
    PROVE  Safe(h)'
BY DEF Safe, Submitting

\* A step of the app that sends nothing keeps the invariant when its verdict is
\* one the invariant already justifies.
LEMMA QuietAppStep ==
    ASSUME TypeOK, HandoffInv, HostRuns,
           requests' = requests, answers' \subseteq answers,
           poller' \in {poller, [poller EXCEPT !.state = "finished"]},
           poller.state = "none" => poller' = poller,
           arena # "none", arena' # "none",
           publisher' \in {"prepared", "rejected"} =>
              (Safe(host) /\ (publisher' = "prepared" => PreparedFor(host)))
                 \/ (publisher' = "rejected" /\ poller.state = "loading" /\ poller'.state = "finished"),
           arena' \in {"writable", "freed"} => publisher' \in {"prepared", "rejected"},
           arena' = "writable" => publisher' = "prepared"
    PROVE  HandoffInv'
<1> USE FieldTypes DEF HostRuns, providerVars
<1>0. host' = host /\ service' = service /\ tx' = tx
  OBVIOUS
<1>1. SubmittedOnce'
  BY <1>0 DEF HandoffInv, SubmittedOnce, Submitting, TypeOK, HasSent
<1>2. RepliesAreTrue'
  BY <1>0 DEF HandoffInv, RepliesAreTrue, Running
<1>3. poller'.state = poller.state \/ poller'.state # "loading"
  BY DEF TypeOK
<1>4. \A h : Safe(h) => Safe(h)'
  BY <1>0, <1>3, SafeFrame
<1>5. \A h : PreparedFor(h) => PreparedFor(h)'
  BY <1>0 DEF PreparedFor
<1>6. poller.state = "loading" /\ poller'.state = "finished" => Safe(host)'
  BY <1>0 DEF HandoffInv, SubmittedOnce, Safe, Submitting, TypeOK, HasSent
<1>7. HasSent(host) => HasSent(host)'
  BY <1>0 DEF HasSent, TypeOK
<1>8. AppIsJustified'
  BY <1>0, <1>4, <1>5, <1>6, <1>7 DEF HandoffInv, AppIsJustified
<1> QED
  BY <1>1, <1>2, <1>8 DEF HandoffInv

\* A step of the app that sends: a submission only from a poller that has sent
\* nothing yet, status queries after it.
LEMMA SendStep ==
    ASSUME TypeOK, HandoffInv, HostRuns,
           NEW command \in {"SUBMIT", "POLL"}, Send(command),
           poller.state \in {"loading", "polling"},
           command = "SUBMIT" => poller.state = "loading",
           UNCHANGED <<arena, publisher>>
    PROVE  HandoffInv'
<1> USE FieldTypes DEF HostRuns, providerVars
<1>0. /\ host' = host /\ service' = service /\ tx' = tx
      /\ answers' = answers /\ poller'.state = "polling"
  BY DEF Send
<1>1. \A q \in requests' : q \in requests \/
          (q.host = host /\ q.command = command /\ q.generation = poller.generation + 1)
  BY DEF Send
<1>2. \A h : Submitting(h)' => Submitting(h) \/ (h = host /\ poller.state = "loading")
  BY <1>1 DEF Submitting
<1>3. SubmittedOnce'
  <2>1. \A q \in requests' : q.command = "SUBMIT" => q.generation = 1
    BY <1>1 DEF HandoffInv, SubmittedOnce
  <2>2. \A s \in Services : ~(service[s].request # 0 /\ Submitting(service[s].request)')
    BY <1>2 DEF HandoffInv, SubmittedOnce, HasSent
  <2>3. \A q \in requests' : HasSent(q.host)'
    BY <1>0, <1>1 DEF HandoffInv, SubmittedOnce, HasSent
  <2> QED
    BY <1>0, <2>1, <2>2, <2>3 DEF HandoffInv, SubmittedOnce, Submitting, HasSent
<1>4. RepliesAreTrue'
  BY <1>0 DEF HandoffInv, RepliesAreTrue, Running
<1>5. Safe(host) => Safe(host)'
  BY <1>0, <1>2 DEF Safe
<1>6. PreparedFor(host) => PreparedFor(host)'
  BY <1>0 DEF PreparedFor
<1>7. AppIsJustified'
  BY <1>0, <1>5, <1>6 DEF HandoffInv, AppIsJustified, HasSent
<1> QED
  BY <1>3, <1>4, <1>7 DEF HandoffInv

\* A reply that lets the app use or free its arena is given by the one service
\* that has the app's request, and says so truly: no debugger is in the app or
\* will be.
LEMMA ReplyIsSafe ==
    ASSUME TypeOK, HandoffInv, NEW s \in Services, service[s].request = host,
           service[s].reply \in {"PREPARED", "REJECTED", "FAILED_DETACHED"}
    PROVE  Safe(host) /\ (service[s].reply = "PREPARED" => PreparedFor(host))
<1> USE FieldTypes
<1>1. /\ ~Submitting(host)
      /\ \A t \in Services : service[t].request = host => t = s
      /\ poller.state # "loading"
  BY DEF HandoffInv, SubmittedOnce, TypeOK, HasSent
<1>2. /\ ~service[s].preparing /\ (tx[s].host = 0 \/ tx[s].debugger = "gone")
      /\ service[s].reply = "PREPARED" =>
            tx[s].host = host /\ tx[s].prepared /\ tx[s].debugger = "gone"
  BY DEF HandoffInv, RepliesAreTrue
<1> QED
  BY <1>1, <1>2 DEF Safe, PreparedFor

\* A message is taken from the wire; the answer says what its service knows.
LEMMA MessageStep ==
    ASSUME TypeOK, HandoffInv, NEW request \in requests, NEW s \in Services,
           HandleMessage(request, s)
    PROVE  HandoffInv'
<1> USE FieldTypes DEF hostVars
<1> DEFINE accepted == request.command = "SUBMIT" /\ service[s].request = 0
<1>0. /\ host' = host /\ tx' = tx /\ poller' = poller /\ publisher' = publisher /\ arena' = arena
      /\ requests' = requests \ {request}
  BY DEF HandleMessage
<1>1. \A t \in Services :
        /\ service'[t].reply = service[t].reply
        /\ service'[t].request = IF accepted /\ t = s THEN request.host ELSE service[t].request
        /\ service'[t].preparing = IF accepted /\ t = s THEN TRUE ELSE service[t].preparing
  BY DEF HandleMessage, TypeOK, ServiceStates
<1>2. \A h : Submitting(h)' => Submitting(h)
  BY <1>0 DEF Submitting
<1>3. accepted => ~Submitting(request.host)'
  <2>1. ASSUME accepted, NEW q \in requests, q.host = request.host, q.command = "SUBMIT"
        PROVE  q = request
    BY <2>1 DEF HandoffInv, SubmittedOnce, TypeOK, Requests
  <2> QED
    BY <1>0, <2>1 DEF Submitting
<1>4. SubmittedOnce'
  <2>1. Submitting(request.host) \/ ~accepted
    BY DEF Submitting
  <2>2. \A t \in Services, h \in Hosts : service'[t].request = h => ~Submitting(h)'
    <3>1. \A t \in Services, h \in Hosts : service[t].request = h => ~Submitting(h)
      BY DEF HandoffInv, SubmittedOnce
    <3> QED
      BY <1>1, <1>2, <1>3, <3>1, ZenonT(40)
  <2>5. ASSUME NEW t \in Services, service'[t].request # 0
        PROVE  ~Submitting(service[t].request)'
    <3>0. request.host \in 1 .. MaxHosts /\ service[t].request \in 0 .. MaxHosts
      OBVIOUS
    <3>1. service'[t].request \in Hosts
      <4>1. service'[t].request = request.host \/ service'[t].request = service[t].request
        BY <1>1
      <4> QED
        BY <2>5, <3>0, <4>1, BoundsAssumption
    <3>2. PICK h \in Hosts : h = service'[t].request
      BY <3>1
    <3> QED
      BY <2>2, <3>2 DEF Submitting
  <2>3. \A t, u \in Services : service'[t].request = service'[u].request /\ t # u
                               => service'[t].request = 0
    BY <1>1, <2>1, ZenonT(40) DEF HandoffInv, SubmittedOnce
  <2>4. \A t \in Services : service'[t].request # 0 => HasSent(service[t].request)'
    BY <1>0, <1>1 DEF HandoffInv, SubmittedOnce, HasSent
  <2>6. \A q \in requests' : HasSent(q.host)'
    BY <1>0 DEF HandoffInv, SubmittedOnce, HasSent
  <2> QED
    BY <1>0, <2>3, <2>4, <2>5, <2>6 DEF HandoffInv, SubmittedOnce
<1>5. RepliesAreTrue'
  <2>1. \A t \in Services : tx[t].host # 0 => service[t].request # 0
    BY DEF HandoffInv, RepliesAreTrue
  <2>2. accepted => tx[s].host = 0 /\ service[s].reply = "none"
    BY <2>1 DEF HandoffInv, RepliesAreTrue
  <2>3. request.host # 0
    OBVIOUS
  <2> QED
    BY <1>0, <1>1, <2>2, <2>3, ZenonT(40) DEF HandoffInv, RepliesAreTrue, Running
<1>6. Safe(host) => Safe(host)'
  <2>1. accepted /\ request.host = host => Submitting(host)
    BY DEF Submitting
  <2>2. ASSUME Safe(host), NEW t \in Services, service'[t].request = host
        PROVE  ~service'[t].preparing /\ (tx[t].host = 0 \/ tx[t].debugger = "gone")
    <3>1. ~(accepted /\ t = s)
      BY <1>1, <2>1, <2>2 DEF Safe
    <3> QED
      BY <1>1, <2>2, <3>1 DEF Safe
  <2>3. Safe(host) => ~Submitting(host)' /\ poller'.state # "loading"
    BY <1>0, <1>2 DEF Safe
  <2> QED
    BY <1>0, <2>2, <2>3 DEF Safe, Submitting
<1>7. PreparedFor(host) => PreparedFor(host)'
  BY <1>0 DEF PreparedFor
<1>8. \A a \in answers' : a \in answers \/
         /\ a.host = host /\ HasSent(host)
         /\ a.reply \in {"PREPARED", "REJECTED", "FAILED_DETACHED"} =>
               service[s].request = host /\ service[s].reply = a.reply
  BY DEF HandleMessage, Answered, TypeOK, Requests, Answers, HandoffInv, SubmittedOnce, HasSent
<1>9. AppIsJustified'
  <2>1. ASSUME NEW a \in answers' PROVE
          /\ a.host = host /\ HasSent(host)
          /\ a.reply \in {"PREPARED", "REJECTED", "FAILED_DETACHED"} => Safe(host)
          /\ a.reply = "PREPARED" => PreparedFor(host)
    BY <1>8, ReplyIsSafe DEF HandoffInv, AppIsJustified
  <2> QED
    BY <1>0, <1>6, <1>7, <2>1 DEF HandoffInv, AppIsJustified, HasSent
<1> QED
  BY <1>4, <1>5, <1>9 DEF HandoffInv

\* A step of the provider or of the debugger for service s: neither messages nor
\* requests change, and what it makes of s keeps the replies true and leaves a
\* process safe that was.
LEMMA ServiceStep ==
    ASSUME TypeOK, HandoffInv, NEW s \in Services,
           UNCHANGED <<hostVars, wireVars>>,
           \A t \in Services : service'[t].request = service[t].request,
           \A t \in Services : t # s => /\ service'[t].preparing = service[t].preparing
                                        /\ service'[t].reply = service[t].reply
                                        /\ tx'[t] = tx[t],
           RepliesAreTrue',
           service[s].request # 0 /\ ~service[s].preparing
             /\ (tx[s].host = 0 \/ tx[s].debugger = "gone") =>
               /\ ~service'[s].preparing
               /\ tx'[s].host = tx[s].host /\ tx'[s].debugger = tx[s].debugger
               /\ (tx[s].prepared => tx'[s].prepared)
    PROVE  HandoffInv'
<1> USE FieldTypes DEF hostVars, wireVars
<1>1. \A h : Submitting(h)' = Submitting(h)
  BY DEF Submitting
<1>2. SubmittedOnce'
  <2>1. \A t \in Services : Submitting(service[t].request)' <=> Submitting(service[t].request)
    BY DEF Submitting
  <2> QED
    BY <1>1, <2>1 DEF HandoffInv, SubmittedOnce, HasSent
<1>3. Safe(host) => Safe(host)'
  BY <1>1 DEF Safe, TypeOK, Submitting
<1>4. PreparedFor(host) => PreparedFor(host)'
  <2>1. ASSUME NEW t \in Services, tx[t].host = host, tx[t].prepared, tx[t].debugger = "gone"
        PROVE  tx'[t].host = host /\ tx'[t].prepared /\ tx'[t].debugger = "gone"
    <3>1. service[t].request = host /\ ~service[t].preparing
      BY <2>1 DEF HandoffInv, RepliesAreTrue, TypeOK
    <3> QED
      BY <2>1, <3>1 DEF TypeOK
  <2> QED
    BY <2>1 DEF PreparedFor
<1>5. AppIsJustified'
  BY <1>3, <1>4 DEF HandoffInv, AppIsJustified, HasSent
<1> QED
  BY <1>2, <1>5 DEF HandoffInv

LEMMA InvalidatedStep ==
    ASSUME TypeOK, HandoffInv, Invalidated, UNCHANGED <<hostVars, wireVars>>
    PROVE  HandoffInv'
<1> USE FieldTypes
<1>0. current \in Services
  BY DEF TypeOK
<1>1. \A t \in Services : /\ service'[t].request = service[t].request
                          /\ service'[t].preparing = service[t].preparing
                          /\ t # current => service'[t] = service[t] /\ tx'[t] = tx[t]
                          /\ tx'[t].host = tx[t].host /\ tx'[t].debugger = tx[t].debugger
                          /\ tx'[t].prepared = tx[t].prepared
  BY DEF Invalidated, TypeOK, ServiceStates, Transactions
<1>2. /\ Running(current) => service'[current].reply = "UNCERTAIN"
      /\ ~Running(current) => service'[current].reply = service[current].reply
      /\ tx'[current].result = IF Running(current) THEN "uncertain" ELSE tx[current].result
  BY DEF Invalidated, TypeOK, ServiceStates, Transactions
<1>3. RepliesAreTrue'
  BY <1>0, <1>1, <1>2 DEF HandoffInv, RepliesAreTrue, Running
<1> QED
  BY <1>0, <1>1, <1>3, ServiceStep

LEMMA CompleteStep ==
    ASSUME TypeOK, HandoffInv, NEW s \in Services, Running(s),
           NEW verdict \in {"prepared", "failedDetached", "uncertain"}, Complete(s, verdict),
           verdict # "uncertain" => tx[s].debugger = "gone",
           verdict = "prepared" => tx[s].prepared,
           UNCHANGED <<hostVars, wireVars>>
    PROVE  HandoffInv'
<1> USE FieldTypes
<1>1. \A t \in Services : /\ service'[t].request = service[t].request
                          /\ service'[t].preparing = service[t].preparing
                          /\ t # s => service'[t] = service[t] /\ tx'[t] = tx[t]
                          /\ tx'[t].host = tx[t].host /\ tx'[t].debugger = tx[t].debugger
                          /\ tx'[t].prepared = tx[t].prepared
  BY SMTT(40) DEF Complete, TypeOK, ServiceStates, Transactions
<1>2. /\ tx'[s].result = verdict
      /\ verdict = "prepared" => service'[s].reply = "PREPARED"
      /\ verdict = "failedDetached" => service'[s].reply = "FAILED_DETACHED"
      /\ verdict = "uncertain" => service'[s].reply = "UNCERTAIN"
  BY DEF Complete, TypeOK, ServiceStates, Transactions
<1>3. RepliesAreTrue'
  BY <1>1, <1>2 DEF HandoffInv, RepliesAreTrue, Running
<1> QED
  BY <1>1, <1>3, ServiceStep

\* Every step keeps the invariant.
LEMMA InvStep == TypeOK /\ HandoffInv /\ [Next]_vars => HandoffInv'
<1> SUFFICES ASSUME TypeOK, HandoffInv, [Next]_vars PROVE HandoffInv'
  OBVIOUS
<1> USE DEF hostVars, wireVars, providerVars
<1>1. CASE StartPreparation \/ PreparationUnavailable
  <2> USE <1>1, FieldTypes DEF StartPreparation, PreparationUnavailable, HostRuns
  <2>0. /\ host' = host /\ service' = service /\ tx' = tx
        /\ requests' = requests /\ answers' = answers
        /\ poller'.generation = poller.generation
        /\ poller.state = "none" /\ poller'.state \in {"none", "loading"}
        /\ arena' = "mapped" /\ publisher' \in {"waiting", "rejected"}
        /\ publisher' = "rejected" => poller' = poller
    BY DEF HandoffInv, AppIsJustified, TypeOK
  <2>1. SubmittedOnce'
    BY <2>0 DEF HandoffInv, SubmittedOnce, Submitting, HasSent
  <2>2. RepliesAreTrue'
    BY <2>0 DEF HandoffInv, RepliesAreTrue, Running
  <2>3. ~Submitting(host) /\ \A s \in Services : service[s].request # host
    BY <2>0 DEF HandoffInv, SubmittedOnce, Submitting, TypeOK, HasSent
  <2>4. Safe(host)
    BY <2>0, <2>3 DEF Safe
  <2>5. publisher' = "rejected" => Safe(host)'
    BY <2>0, <2>4 DEF Safe, Submitting
  <2>6. answers = {}
    BY <2>0 DEF HandoffInv, AppIsJustified, HasSent, TypeOK
  <2>7. AppIsJustified'
    BY <2>0, <2>5, <2>6 DEF HandoffInv, AppIsJustified
  <2> QED
    BY <2>1, <2>2, <2>7 DEF HandoffInv
<1>2. CASE TransportFindsNoTunnel \/ PollerStartsLate
  <2>1. poller.state = "loading" /\ poller' = [poller EXCEPT !.state = "finished"]
    BY <1>2 DEF TransportFindsNoTunnel, PollerStartsLate, PollerFinishes
  <2>2. publisher \in {"prepared", "rejected"} => Safe(host)
    BY DEF HandoffInv, AppIsJustified
  <2>3. publisher \notin {"prepared", "rejected"}
    BY <2>1, <2>2 DEF Safe
  <2>4. publisher' # "prepared"
    BY <1>2, <2>3 DEF TransportFindsNoTunnel, PollerStartsLate, PollerFinishes, Publish
  <2>5. HostRuns /\ requests' = requests /\ answers' = answers /\ arena' = arena
    BY <1>2 DEF TransportFindsNoTunnel, PollerStartsLate
  <2>6. arena \notin {"none", "writable", "freed"}
    BY <2>1, <2>3 DEF HandoffInv, AppIsJustified
  <2> QED
    BY <2>1, <2>4, <2>5, <2>6, QuietAppStep DEF TypeOK
<1>3. CASE PollerStarts
  BY <1>3, SendStep DEF PollerStarts
<1>4. CASE PollerTimer
  <2>1. CASE host \in expired /\ PollerFinishes("nil") /\ UNCHANGED wireVars
    BY <1>4, <2>1, QuietAppStep
       DEF PollerTimer, PollerFinishes, Publish, HandoffInv, AppIsJustified
  <2>2. CASE Send("POLL") /\ UNCHANGED publisher
    BY <1>4, <2>2, SendStep DEF PollerTimer
  <2> QED
    BY <1>4, <2>1, <2>2 DEF PollerTimer
<1>5. CASE PublisherTimesOut \/ FinishPreparation
  BY <1>5, QuietAppStep
     DEF PublisherTimesOut, FinishPreparation, HandoffInv, AppIsJustified
<1>6. ASSUME NEW answer \in answers, PollerReceives(answer) PROVE HandoffInv'
  <2>1. /\ HostRuns /\ requests' = requests /\ answers' \subseteq answers /\ arena' = arena
        /\ poller' \in {poller, [poller EXCEPT !.state = "finished"]}
        /\ poller.state = "none" => poller' = poller
        /\ publisher' = publisher \/ publisher' \in {"uncertain"}
             \/ (publisher' = "prepared" /\ answer.reply = "PREPARED")
             \/ (publisher' = "rejected" /\ answer.reply \in {"REJECTED", "FAILED_DETACHED"})
    BY <1>6 DEF PollerReceives, PollerFinishes, Publish
  <2>2. arena # "none"
    BY DEF HandoffInv, AppIsJustified, HasSent, TypeOK
  <2>3. /\ publisher' \in {"prepared", "rejected"} => Safe(host)
        /\ publisher' = "prepared" => PreparedFor(host)
    BY <2>1 DEF HandoffInv, AppIsJustified
  <2>4. publisher \in {"prepared", "rejected"} => publisher' = publisher
    BY <1>6 DEF PollerReceives, PollerFinishes, Publish
  <2>5. /\ arena' \in {"writable", "freed"} => publisher' \in {"prepared", "rejected"}
        /\ arena' = "writable" => publisher' = "prepared"
    BY <2>1, <2>4 DEF HandoffInv, AppIsJustified
  <2> QED
    BY <2>1, <2>2, <2>3, <2>5, QuietAppStep
<1>7. ASSUME NEW request \in requests, LoseRequest(request) PROVE HandoffInv'
  <2>0. UNCHANGED <<host, arena, publisher, poller, service, tx>> /\ requests' \subseteq requests
    BY <1>7 DEF LoseRequest
  <2>1. SubmittedOnce' /\ RepliesAreTrue'
    BY <2>0, FieldTypes DEF HandoffInv, SubmittedOnce, Submitting, HasSent, RepliesAreTrue, Running
  <2>2. \A h : Safe(h) => Safe(h)'
    BY <2>0, SafeFrame
  <2>3. \A a \in answers' : a \in answers \/ (a.host = host /\ a.reply = "nil" /\ HasSent(host))
    BY <1>7 DEF LoseRequest, Answered, TypeOK, Requests, HandoffInv, SubmittedOnce
  <2>4. AppIsJustified'
    BY <2>0, <2>2, <2>3 DEF HandoffInv, AppIsJustified, PreparedFor, HasSent
  <2> QED
    BY <2>1, <2>4 DEF HandoffInv
<1>8. ASSUME NEW request \in requests, NEW s \in Services, HandleMessage(request, s)
      PROVE HandoffInv'
  BY <1>8, MessageStep
<1>9. ASSUME NEW answer \in answers, LoseAnswer(answer) PROVE HandoffInv'
  BY <1>9 DEF LoseAnswer, HandoffInv, SubmittedOnce, Submitting, HasSent, RepliesAreTrue,
     Running, AppIsJustified, Safe, PreparedFor
<1>10. CASE ServiceReady
  <2>1. \A t \in Services : /\ service'[t].request = service[t].request
                            /\ service'[t].preparing = service[t].preparing
                            /\ service'[t].reply = service[t].reply
    BY <1>10 DEF ServiceReady, TypeOK, ServiceStates
  <2>2. RepliesAreTrue'
    BY <1>10, <2>1 DEF ServiceReady, HandoffInv, RepliesAreTrue, Running
  <2> QED
    BY <1>10, <2>1, <2>2, ServiceStep DEF ServiceReady, TypeOK
<1>11. CASE StopTunnel \/ StartTunnel
  BY <1>11, InvalidatedStep DEF StopTunnel, StartTunnel
<1>12. ASSUME NEW s \in Services, Prepare(s) PROVE HandoffInv'
  <2>0. service \in [Services -> ServiceStates] /\ tx \in [Services -> Transactions]
    BY DEF TypeOK
  <2> DEFINE
        rejected == /\ service' = [service EXCEPT ![s].preparing = FALSE, ![s].reply = "REJECTED"]
                    /\ tx' = tx
        started == /\ service' = [service EXCEPT ![s].preparing = FALSE, ![s].used = TRUE]
                   /\ tx' = [tx EXCEPT ![s].host = service[s].request]
        others == \A t \in Services :
                     /\ service'[t].request = service[t].request
                     /\ t # s => service'[t] = service[t] /\ tx'[t] = tx[t]
                     /\ tx'[t].debugger = tx[t].debugger /\ tx'[t].prepared = tx[t].prepared
        own == /\ ~service'[s].preparing
               /\ \/ service'[s].reply = "REJECTED" /\ tx'[s] = tx[s]
                  \/ service'[s].reply = service[s].reply /\ tx'[s].host = service[s].request
  <2>1. service[s].preparing /\ (rejected \/ started)
    BY <1>12 DEF Prepare
  <2>2. others /\ own
    <3>1. CASE rejected
      BY <2>0, <3>1 DEF ServiceStates, Transactions
    <3>2. CASE started
      <4>1. tx'[s].host = service[s].request
        BY <2>0, <3>2 DEF Transactions
      <4>2. \A t \in Services : /\ t # s => tx'[t] = tx[t]
                                /\ tx'[t].debugger = tx[t].debugger /\ tx'[t].prepared = tx[t].prepared
        BY <2>0, <3>2 DEF Transactions
      <4> QED
        BY <2>0, <3>2, <4>1, <4>2 DEF ServiceStates
    <3> QED
      BY <2>1, <3>1, <3>2
  <2>3. RepliesAreTrue'
    BY <2>1, <2>2, FieldTypes DEF HandoffInv, RepliesAreTrue, Running
  <2> QED
    BY <1>12, <2>1, <2>2, <2>3, ServiceStep DEF Prepare
<1>13. ASSUME NEW s \in Services, TransactionEnds(s) \/ DeadlineCancels(s) PROVE HandoffInv'
  BY <1>13, CompleteStep DEF TransactionEnds, DeadlineCancels
<1>14. ASSUME NEW s \in Services,
              DebuggerAttaches(s) \/ DebuggerPrepares(s) \/ DebuggerLeaves(s)
       PROVE HandoffInv'
  <2> USE DEF DebuggerAttaches, DebuggerPrepares, DebuggerLeaves
  <2>1. \A t \in Services : /\ t # s => tx'[t] = tx[t]
                            /\ tx'[t].host = tx[t].host /\ tx'[t].result = tx[t].result
                            /\ tx[t].prepared => tx'[t].prepared
    <3>0. tx \in [Services -> Transactions]
      BY DEF TypeOK
    <3>1. CASE DebuggerAttaches(s)
      BY <3>0, <3>1 DEF Transactions
    <3>2. CASE DebuggerPrepares(s)
      BY <3>0, <3>2 DEF Transactions
    <3>3. CASE DebuggerLeaves(s)
      BY <3>0, <3>3 DEF Transactions
    <3> QED
      BY <1>14, <3>1, <3>2, <3>3
  <2>2. /\ tx[s].host # 0 /\ tx[s].debugger # "gone"
        /\ service' = service
    BY <1>14 DEF HandoffInv, RepliesAreTrue
  <2>3. RepliesAreTrue'
    BY <2>1, <2>2, FieldTypes DEF HandoffInv, RepliesAreTrue, Running
  <2> QED
    BY <1>14, <2>1, <2>2, <2>3, ServiceStep
<1>15. CASE Relaunch
  <2>0. /\ host' = host + 1 /\ arena' = "none" /\ publisher' = "idle" /\ answers' = {}
        /\ poller'.state = "none" /\ poller'.generation = 0
        /\ requests' = requests /\ service' = service
    BY <1>15 DEF Relaunch, NoPoller
  <2>1. \A t \in Services : /\ tx'[t].host = tx[t].host /\ tx'[t].prepared = tx[t].prepared
                            /\ tx'[t].result = tx[t].result
                            /\ tx'[t].debugger = tx[t].debugger
                                 \/ (tx[t].debugger = "attached" /\ tx'[t].debugger = "gone")
    BY <1>15 DEF Relaunch, TypeOK, Transactions
  <2>2. SubmittedOnce'
    BY <2>0, FieldTypes DEF HandoffInv, SubmittedOnce, Submitting, HasSent
  <2>3. RepliesAreTrue'
    BY <2>0, <2>1 DEF HandoffInv, RepliesAreTrue, Running
  <2>4. AppIsJustified'
    BY <2>0 DEF AppIsJustified
  <2> QED
    BY <2>2, <2>3, <2>4 DEF HandoffInv
<1>16. CASE (\E h \in Hosts : DeadlinePasses(h)) \/ UNCHANGED vars
  BY <1>16 DEF DeadlinePasses, vars, HandoffInv, SubmittedOnce, Submitting, HasSent,
     RepliesAreTrue, Running, AppIsJustified, Safe, PreparedFor
<1> QED
  BY <1>1, <1>2, <1>3, <1>4, <1>5, <1>6, <1>7, <1>8, <1>9, <1>10, <1>11, <1>12,
     <1>13, <1>14, <1>15, <1>16 DEF Next, App, Wire, Provider, Debugger

-----------------------------------------------------------------------------
\* A submission is owned by one service, replies are true to the debugger, and
\* the app acts only on what is justified (handleAsync, prepare, the poller's
\* send and the publisher's completion).
THEOREM HandoffIsJustified == Spec => []HandoffInv
<1>1. Init => HandoffInv
  BY BoundsAssumption DEF Init, HandoffInv, SubmittedOnce, Submitting, HasSent, RepliesAreTrue,
     Running, AppIsJustified, NoPoller, NewService, NoTransaction
<1> QED
  BY <1>1, HandoffTypes, InvStep, PTL DEF Spec

\* No debugger is ever in an app whose arena was enabled for writing or freed
\* (nc_create_managed's reason to quarantine on NC_UNCERTAIN).
THEOREM DebuggerNeverSurprises == Spec => []DebuggerFindsReservedArena
<1>1. TypeOK /\ HandoffInv => DebuggerFindsReservedArena
  <2> SUFFICES ASSUME TypeOK, HandoffInv, NEW s \in Services,
                      tx[s].debugger = "attached", tx[s].host = host
               PROVE  arena \in {"mapped", "quarantined"}
    BY DEF DebuggerFindsReservedArena, Alive
  <2>1. service[s].request = host /\ host # 0
    BY FieldTypes DEF HandoffInv, RepliesAreTrue, TypeOK
  <2>2. arena # "none"
    BY <2>1, FieldTypes DEF HandoffInv, SubmittedOnce, HasSent, AppIsJustified
  <2>3. ~Safe(host)
    BY <2>1 DEF Safe
  <2> QED
    BY <2>2, <2>3 DEF HandoffInv, AppIsJustified, TypeOK
<1> QED
  BY <1>1, HandoffTypes, HandoffIsJustified, PTL

\* Writing is enabled only on an arena a debugger prepared for this process and
\* left (nc_create_managed after NC_PREPARED).
THEOREM WritingIsPrepared == Spec => []WritableMeansPrepared
<1>1. HandoffInv => WritableMeansPrepared
  BY DEF HandoffInv, AppIsJustified, PreparedFor, WritableMeansPrepared, Alive
<1> QED
  BY <1>1, HandoffIsJustified, PTL

\* An app process is attached to at most once: the submission is sent once and
\* each service tries once (used, pollingRequest).
THEOREM OneAttach == Spec => []AttachedOnce
<1>1. TypeOK /\ HandoffInv => AttachedOnce
  <2> SUFFICES ASSUME TypeOK, HandoffInv, NEW h \in Hosts
               PROVE  Cardinality({s \in Services : tx[s].host = h /\ tx[s].debugger # "none"}) <= 1
    BY DEF AttachedOnce
  <2> DEFINE A == {s \in Services : tx[s].host = h /\ tx[s].debugger # "none"}
  <2>1. \A s, t \in A : s = t
    BY FieldTypes DEF HandoffInv, RepliesAreTrue, SubmittedOnce
  <2>2. CASE A = {}
    BY <2>2, FS_EmptySet
  <2>3. CASE A # {}
    <3>1. PICK s \in A : TRUE
      BY <2>3
    <3>2. A = {s}
      BY <2>1, <3>1
    <3>3. Cardinality({s}) = 1
      BY FS_Singleton
    <3> QED
      BY <3>2, <3>3
  <2> QED
    BY <2>2, <2>3
<1> QED
  BY <1>1, HandoffTypes, HandoffIsJustified, PTL
=============================================================================
