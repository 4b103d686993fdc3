----------------------------- MODULE ControlServer -----------------------------
(***************************************************************************)
(* The control side of one process, the coordinator's: its control server  *)
(* (internal/committee/service.go: startControlServer, handleControlConn), *)
(* the clients of the command lines (sendControlRequest), the request that *)
(* the process submits by itself (runNode of cmd/committee-mvp), and the   *)
(* end of the process (Service.Stop).  Queries are left out: they change   *)
(* nothing.                                                                *)
(*                                                                         *)
(* A client dials, sends one request, waits for one response, and closes   *)
(* the connection, at the latest when its deadline expires.  The server    *)
(* has a goroutine for each connection, without a deadline, and Stop waits *)
(* for all of them.  An interrupted process closes its listener first,     *)
(* then the network, and only then waits: a goroutine that publishes after *)
(* that drops its envelope without an error, and one that was about to     *)
(* push it into the inbound channel may find that closed and panic.        *)
(***************************************************************************)
EXTENDS Naturals, FiniteSets

CONSTANTS
  Conn,          \* connections: each is one command given by an operator
  Action,        \* Action[k]: the action of the request on connection k
  SubmitAtStart, \* the process was started with -session and -message
  QueueCap       \* capacity of the inbound channel (512 in NewStaticNetwork)

ASSUME ControlAssumption ==
  /\ Action \in [Conn -> {"submit_sign_request", "sign_session",
                          "set_auto_sign"}]
  /\ SubmitAtStart \in BOOLEAN
  /\ QueueCap \in Nat \ {0}

VARIABLES
  phase,      \* "running", "interrupted", "listener closed", "network closing",
              \* "network stopped", and in the end "exited" or "panicked"
  dkgReady,   \* the channel is closed
  client,     \* client[k]: what the client does, or what it has reported
  request,    \* request[k]: the request is on its way to the server
  response,   \* response[k]: the response on its way to the client, or "none"
  handler,    \* handler[k]: what the server does with the connection
  executed,   \* the connections whose request has changed the state
  published,  \* those whose envelopes went into the channel or to the peers
  overflowed, \* those whose only envelope found the channel full
  auto,       \* what the goroutine that submits by itself does
  waiting,    \* how many envelopes wait in the inbound channel
  accepted    \* peers hold connections that this process has accepted

inbound == <<waiting, accepted>>

vars == <<phase, dkgReady, client, request, response, handler, executed,
          published, overflowed, auto, waiting, accepted>>

Over == phase \in {"exited", "panicked"}
Listening == phase \in {"running", "interrupted"}

\* The client has closed its end.
Reported == {"ok", "refused", "unreachable", "unknown"}

Init ==
  /\ phase = "running"
  /\ dkgReady = FALSE
  /\ client = [k \in Conn |-> "idle"]
  /\ request = [k \in Conn |-> FALSE]
  /\ response = [k \in Conn |-> "none"]
  /\ handler = [k \in Conn |-> "none"]
  /\ executed = {}
  /\ published = {}
  /\ overflowed = {}
  /\ waiting = 0
  /\ accepted = FALSE
  /\ auto = IF SubmitAtStart THEN "waiting" ELSE "returned"

------------------------------------------------------------------------------
(***************************************************************************)
(* The client: sendControlRequest, and the main function around it.        *)
(***************************************************************************)
\* DialTimeout.  The connection waits in the backlog of the listener.
Dial(k) ==
  /\ client[k] = "idle"
  /\ IF Listening
       THEN /\ client' = [client EXCEPT ![k] = "connected"]
            /\ handler' = [handler EXCEPT ![k] = "backlog"]
       ELSE /\ client' = [client EXCEPT ![k] = "unreachable"]
            /\ UNCHANGED handler
  /\ UNCHANGED <<phase, dkgReady, request, response, executed, published,
                 overflowed, auto, inbound>>

Send(k) ==
  /\ client[k] = "connected"
  /\ client' = [client EXCEPT ![k] = "sent"]
  /\ request' = [request EXCEPT ![k] = TRUE]
  /\ UNCHANGED <<phase, dkgReady, response, handler, executed, published,
                 overflowed, auto, inbound>>

\* A response: its ok field says what the client reports.
Receive(k) ==
  /\ client[k] = "sent" /\ response[k] # "none"
  /\ client' = [client EXCEPT ![k] = response[k]]
  /\ UNCHANGED <<phase, dkgReady, request, response, handler, executed,
                 published, overflowed, auto, inbound>>

(***************************************************************************)
(* The deadline expires, the operator interrupts the client, or the server *)
(* has closed the connection without a response: the command fails, and    *)
(* says nothing of the request.                                            *)
(***************************************************************************)
GiveUp(k) ==
  /\ client[k] \in {"connected", "sent"}
  /\ client' = [client EXCEPT ![k] = "unknown"]
  /\ UNCHANGED <<phase, dkgReady, request, response, handler, executed,
                 published, overflowed, auto, inbound>>

------------------------------------------------------------------------------
(***************************************************************************)
(* The server.                                                             *)
(***************************************************************************)
\* The accept loop of startControlServer.
Accept(k) ==
  /\ Listening
  /\ handler[k] = "backlog"
  /\ handler' = [handler EXCEPT ![k] = "reading"]
  /\ UNCHANGED <<phase, dkgReady, client, request, response, executed,
                 published, overflowed, auto, inbound>>

\* Mutant: only a request ends the read, not the end of the connection.
CanReadRequestOnly(k) == request[k]

\* ReadBytes returns: with the request, or since the client has closed.
CanRead(k) == request[k] \/ client[k] \in Reported

ReadRequest(k) ==
  /\ ~Over
  /\ handler[k] = "reading" /\ CanRead(k)
  /\ handler' = [handler EXCEPT ![k] = IF request[k] THEN "handling" ELSE "closed"]
  /\ UNCHANGED <<phase, dkgReady, client, request, response, executed,
                 published, overflowed, auto, inbound>>

\* The node is ready, or has the session queued, and the action succeeds.
Accepts(action) ==
  CASE action = "submit_sign_request" -> {dkgReady}
    [] action = "set_auto_sign" -> {TRUE}
    [] action = "sign_session" -> BOOLEAN

Publishes(action) == action \in {"submit_sign_request", "sign_session"}

\* Mutant: the response does not wait for the envelope to be published.
AfterExecutionEarly(action) == "ok"

\* What remains of an accepted request.
AfterExecution(action) == IF Publishes(action) THEN "publish" ELSE "ok"

\* handleControlConn up to the unlock in SubmitSignRequest, SubmitLocalSign or
\* setAutoSign.
Execute(k) ==
  /\ ~Over
  /\ handler[k] = "handling"
  /\ \E granted \in Accepts(Action[k]) :
       IF granted
         THEN /\ handler' = [handler EXCEPT ![k] = AfterExecution(Action[k])]
              /\ executed' = executed \cup {k}
         ELSE /\ handler' = [handler EXCEPT ![k] = "refused"]
              /\ UNCHANGED executed
  /\ UNCHANGED <<phase, dkgReady, client, request, response, published,
                 overflowed, auto, inbound>>

\* The check of n.closed with which Publish begins: a network that is closed
\* publishes nothing, and the caller learns nothing of that.
Closed == phase \in {"network closing", "network stopped"}

AfterCheck(done) == IF Closed THEN done ELSE "push"

(***************************************************************************)
(* pushInbound: the envelope is for the coordinator itself, too, and its   *)
(* own copy goes first.  The select takes any of its cases that is ready:  *)
(* n.closed, once that is closed, and the send, which panics if inCh is    *)
(* closed as well.  If none is, the channel is full, and the envelope is   *)
(* dropped without an error.                                               *)
(***************************************************************************)
PushInbound(pushed, full, closed) ==
  \/ /\ phase # "network stopped" /\ waiting < QueueCap
     /\ waiting' = waiting + 1
     /\ pushed /\ UNCHANGED phase
  \/ ~Closed /\ waiting = QueueCap /\ full /\ UNCHANGED <<phase, waiting>>
  \/ Closed /\ closed /\ UNCHANGED <<phase, waiting>>
  \/ /\ phase = "network stopped" /\ phase' = "panicked"
     /\ closed /\ UNCHANGED waiting

\* A sign request is for everybody, and also written to the connections of the
\* peers; a signature is for the coordinator alone.
Broadcasts(action) == action = "submit_sign_request"

CheckClosed(k) ==
  /\ ~Over
  /\ handler[k] = "publish"
  /\ handler' = [handler EXCEPT ![k] = AfterCheck("ok")]
  /\ UNCHANGED <<phase, dkgReady, client, request, response, executed,
                 published, overflowed, auto, inbound>>

\* The connections of the peers are gone when the network has stopped, and may
\* be before.
PublishEnvelope(k) ==
  /\ ~Over
  /\ handler[k] = "push"
  /\ LET out == published' = published \cup {k} /\ UNCHANGED overflowed
         lost == UNCHANGED <<published, overflowed>>
     IN  PushInbound(out,
                     IF Broadcasts(Action[k])
                       THEN out
                       ELSE overflowed' = overflowed \cup {k} /\ UNCHANGED published,
                     lost \/ (Broadcasts(Action[k]) /\ phase = "network closing" /\ out))
  /\ handler' = [handler EXCEPT ![k] = "ok"]
  /\ UNCHANGED <<dkgReady, client, request, response, executed, auto, accepted>>

\* The response is written, and the connection closed.
Respond(k) ==
  /\ ~Over
  /\ handler[k] \in {"ok", "refused"}
  /\ response' = [response EXCEPT ![k] = handler[k]]
  /\ handler' = [handler EXCEPT ![k] = "closed"]
  /\ UNCHANGED <<phase, dkgReady, client, request, executed, published,
                 overflowed, auto, inbound>>

------------------------------------------------------------------------------
(***************************************************************************)
(* The process.                                                            *)
(***************************************************************************)
\* finalizeDKG.
BecomeReady ==
  /\ ~Over /\ ~dkgReady
  /\ dkgReady' = TRUE
  /\ UNCHANGED <<phase, client, request, response, handler, executed,
                 published, overflowed, auto, inbound>>

\* Mutant: a failed attempt is not repeated.
AfterRefusalGiveUp == "returned"

\* One second of waiting, or the end of the context.
AfterRefusal == IF phase = "running" THEN "waiting" ELSE "returned"

(***************************************************************************)
(* The goroutine of runNode that submits a request: SubmitSignRequest      *)
(* until it succeeds.  Nothing waits for this goroutine.                   *)
(***************************************************************************)
AutoSubmit ==
  /\ ~Over
  /\ auto = "waiting"
  /\ auto' = IF dkgReady THEN "publish" ELSE AfterRefusal
  /\ UNCHANGED <<phase, dkgReady, client, request, response, handler, executed,
                 published, overflowed, inbound>>

AutoCheckClosed ==
  /\ ~Over
  /\ auto = "publish"
  /\ auto' = AfterCheck("dropped")
  /\ UNCHANGED <<phase, dkgReady, client, request, response, handler, executed,
                 published, overflowed, inbound>>

AutoPublish ==
  /\ ~Over
  /\ auto = "push"
  /\ PushInbound(auto' = "submitted", auto' = "submitted",
                 auto' = "dropped" \/ (phase = "network closing" /\ auto' = "submitted"))
  /\ UNCHANGED <<dkgReady, client, request, response, handler, executed,
                 published, overflowed, accepted>>

\* ctx.Done in a select of the goroutine.
AutoReturn ==
  /\ auto = "waiting" /\ phase # "running" /\ ~Over
  /\ auto' = "returned"
  /\ UNCHANGED <<phase, dkgReady, client, request, response, handler, executed,
                 published, overflowed, inbound>>

Interrupt ==
  /\ phase = "running"
  /\ phase' = "interrupted"
  /\ UNCHANGED <<dkgReady, client, request, response, handler, executed,
                 published, overflowed, auto, inbound>>

\* Service.Stop: controlL.Close.  Connections of the backlog are reset.
CloseListener ==
  /\ phase = "interrupted"
  /\ phase' = "listener closed"
  /\ handler' = [k \in Conn |-> IF handler[k] = "backlog" THEN "closed" ELSE handler[k]]
  /\ UNCHANGED <<dkgReady, client, request, response, executed, published,
                 overflowed, auto, inbound>>

(***************************************************************************)
(* net.Stop: it begins with close(n.closed), closes the listener and the   *)
(* connections it has dialled, waits for its goroutines, and ends with     *)
(* close(inCh).  Among the goroutines are those that read from the         *)
(* connections it has accepted, and these it does not close.               *)
(***************************************************************************)
BeginStopNetwork ==
  /\ phase = "listener closed"
  /\ phase' = "network closing"
  /\ UNCHANGED <<dkgReady, client, request, response, handler, executed,
                 published, overflowed, auto, inbound>>

EndStopNetwork ==
  /\ phase = "network closing" /\ ~accepted
  /\ phase' = "network stopped"
  /\ UNCHANGED <<dkgReady, client, request, response, handler, executed,
                 published, overflowed, auto, inbound>>

\* wg.Wait, and the end of main.
Exit ==
  /\ phase = "network stopped"
  /\ \A k \in Conn : handler[k] \in {"none", "closed"}
  /\ phase' = "exited"
  /\ UNCHANGED <<dkgReady, client, request, response, handler, executed,
                 published, overflowed, auto, inbound>>

------------------------------------------------------------------------------
(***************************************************************************)
(* The peers and the main loop, as far as this process notices them.       *)
(***************************************************************************)
\* A dial loop of a peer, or its end.
PeersConnect ==
  /\ phase \in {"running", "interrupted", "listener closed"}
  /\ accepted' = TRUE
  /\ UNCHANGED <<phase, dkgReady, client, request, response, handler, executed,
                 published, overflowed, auto, waiting>>

PeersLeave ==
  /\ accepted' = FALSE
  /\ UNCHANGED <<phase, dkgReady, client, request, response, handler, executed,
                 published, overflowed, auto, waiting>>

\* An envelope of a peer, or one of the main loop for the node itself.
Arrive ==
  /\ ~Over /\ phase # "network stopped" /\ waiting < QueueCap
  /\ waiting' = waiting + 1
  /\ UNCHANGED <<phase, dkgReady, client, request, response, handler, executed,
                 published, overflowed, auto, accepted>>

\* The main loop of Start.
TakeEnvelope ==
  /\ ~Over /\ waiting > 0
  /\ waiting' = waiting - 1
  /\ UNCHANGED <<phase, dkgReady, client, request, response, handler, executed,
                 published, overflowed, auto, accepted>>

Serve(k) ==
  \/ Accept(k) \/ ReadRequest(k) \/ Execute(k)
  \/ CheckClosed(k) \/ PublishEnvelope(k) \/ Respond(k)

Next ==
  \/ \E k \in Conn : \/ Dial(k) \/ Send(k) \/ Receive(k) \/ GiveUp(k)
                     \/ Serve(k)
  \/ BecomeReady \/ Interrupt
  \/ AutoSubmit \/ AutoCheckClosed \/ AutoPublish \/ AutoReturn
  \/ CloseListener \/ BeginStopNetwork \/ EndStopNetwork \/ Exit
  \/ PeersConnect \/ PeersLeave \/ Arrive \/ TakeEnvelope

Spec == Init /\ [][Next]_vars

(***************************************************************************)
(* The goroutines of the process go on.  A client gives up, at the latest  *)
(* at its deadline, or is done before.  Nobody has to give a command or to *)
(* interrupt the process, and peers need not close their connections.      *)
(***************************************************************************)
Fairness ==
  /\ \A k \in Conn : WF_vars(Serve(k)) /\ WF_vars(GiveUp(k))
  /\ WF_vars(AutoSubmit) /\ WF_vars(AutoCheckClosed) /\ WF_vars(AutoPublish)
  /\ WF_vars(CloseListener) /\ WF_vars(BeginStopNetwork)
  /\ WF_vars(EndStopNetwork) /\ WF_vars(Exit)

FairSpec == Spec /\ Fairness

------------------------------------------------------------------------------
(***************************************************************************)
(* Properties.                                                             *)
(***************************************************************************)
\* What a command reports is true and stays true: after a success the request
\* has been executed, and, if it is one for the committee, its envelope is on its
\* way, unless the process is on its way down, or it is a signature of the
\* coordinator itself that found the channel full.  After a refusal or a failed
\* dial the request has not been executed and will not be.  Only a command that has
\* timed out, was interrupted or lost its connection leaves that open.
ReportsAreTrue ==
  \A k \in Conn :
    /\ client[k] = "ok" =>
         /\ k \in executed
         /\ Publishes(Action[k]) =>
              \/ k \in published
              \/ k \in overflowed /\ ~Broadcasts(Action[k])
              \/ phase # "running"
    /\ client[k] \in {"refused", "unreachable"} =>
         k \notin executed \cup published \cup overflowed

\* net.Stop waits for peers to close their connections.
WaitsForPeers == phase = "network closing" /\ accepted

\* An interrupted process ends, or waits for ever for peers that keep their
\* connections: for nothing else, although its goroutines wait for clients
\* without a deadline, and whatever clients do in the meantime.
InterruptedProcessEnds ==
  [](phase = "interrupted" => <>(Over \/ []WaitsForPeers))

\* The request given with -session and -message is submitted when the key is
\* ready, however long that takes, unless the process is interrupted before.
AutoRequestIsSubmitted ==
  (SubmitAtStart /\ dkgReady) ~> auto = "submitted" \/ phase # "running"
================================================================================
