------------------------------- MODULE Signing -------------------------------
(***************************************************************************)
(* The signing rounds of the committee (internal/committee/service.go:     *)
(* SubmitSignRequest, onSignRequest, publishSignResponse, SubmitLocalSign, *)
(* setAutoSign, onSignResponse, storeAggregateResult, onAggResult).        *)
(*                                                                         *)
(* A process runs one main loop, which handles one envelope after the      *)
(* other, and one goroutine per control connection.  Every atomic step of  *)
(* the model is what one of them does between two points where another     *)
(* could intervene: a section under s.mu, an atomic load or store, or the  *)
(* call of Publish.                                                        *)
(*                                                                         *)
(* Data.  The key of a node is the set of dealings it sums (see DKG),      *)
(* here one value per committee key; a signature share is the message it   *)
(* signs together with that key, and shares combine to a signature of the  *)
(* committee when all of them belong to the committee key.  A request is   *)
(* named by its number (the code's nonce), which every envelope it leads   *)
(* to carries on, so that no two envelopes are taken for one another.      *)
(***************************************************************************)
EXTENDS Transport, FiniteSets

CONSTANTS
  CommitteeSize,  \* cfg.CommitteeSize
  Threshold,      \* cfg.Threshold
  Coordinator,    \* cfg.CoordinatorID
  KeyOf,          \* KeyOf[n]: the committee key the key generation gives n
  AlreadyReady,   \* nodes whose key generation is complete in the beginning
  Session,        \* session identifiers
  Message,        \* messages to sign
  Submitted,      \* the messages the operator of the coordinator submits
  Manual,         \* the nodes whose operator uses auto-sign and sign
  Override,       \* the message overrides these operators give
  MayCrash,       \* the nodes whose process may end
  MaxRequests,    \* bound: how many requests are submitted
  MaxOverrides,   \* bound: how many local signs are given a message
  None            \* no value; of a message: the empty message

\* A node that has no committee key.
NoKey == 0

ASSUME SigningAssumption ==
  /\ CommitteeSize \in Nat \ {0}
  /\ Threshold \in 1 .. CommitteeSize
  /\ Coordinator \in Node
  /\ KeyOf \in [Node -> Nat \ {NoKey}]
  /\ AlreadyReady \subseteq Node
  /\ None \notin Session \cup Message
  /\ Submitted \subseteq Message \cup {None}
  /\ Override \subseteq Message \cup {None}
  /\ Manual \subseteq Node
  /\ MayCrash \subseteq Node
  /\ MaxRequests \in Nat
  /\ MaxOverrides \in Nat

VARIABLES
  key,         \* key[n]: s.bls and s.committeePubKey of node n
  ready,       \* ready[n]: the channel dkgReady is closed
  autoSign,    \* autoSign[n]
  pending,     \* pending[n][s]: request queued for the operator, or None
  sessions,    \* sessions[s] of the coordinator, or None
  aggResults,  \* aggResults[n][s]: result stored at node n, or None
  lastAgg,     \* lastAgg[n]: lastAggSessionID, or None
  requests,    \* requests submitted so far, as a sequence (s.nonce)
  loop,        \* loop[n]: what the main loop has left to do, or None
  submitting,  \* requests whose session is set and which are not published
  signing,     \* signing[n]: local signs taken and not yet published
  overrides    \* local signs given a message so far

nodeVars == <<key, ready, autoSign, pending, aggResults, lastAgg>>
roundVars == <<sessions, requests, submitting, signing, overrides>>
vars == <<transportVars, nodeVars, roundVars, loop>>

Member == 0 .. CommitteeSize - 1

SignRequest(s, m, r) ==
  [type |-> "SignRequest", sid |-> s, message |-> m, request |-> r]

SignResponse(s, m, r, signer, k) ==
  [type |-> "SignResponse", sid |-> s, message |-> m, request |-> r,
   signer |-> signer, key |-> k]

AggResult(s, m, r, signers, k) ==
  [type |-> "AggResult", sid |-> s, message |-> m, request |-> r,
   signers |-> signers, key |-> k]

\* A new signSession: no responses, not aggregated.
NewSession(m, r) ==
  [message |-> m, request |-> r, responses |-> [i \in Member |-> None],
   aggregated |-> FALSE]

\* The members whose response the session holds.
Responders(session) == {i \in Member : session.responses[i] # None}

------------------------------------------------------------------------------
Init ==
  /\ up = [n \in Node |-> TRUE]
  /\ net = {}
  /\ inCh = [n \in Node |-> <<>>]
  /\ key = [n \in Node |-> IF n \in AlreadyReady THEN KeyOf[n] ELSE NoKey]
  /\ ready = [n \in Node |-> n \in AlreadyReady]
  /\ autoSign = [n \in Node |-> TRUE]
  /\ pending = [n \in Node |-> [s \in Session |-> None]]
  /\ sessions = [s \in Session |-> None]
  /\ aggResults = [n \in Node |-> [s \in Session |-> None]]
  /\ lastAgg = [n \in Node |-> None]
  /\ requests = <<>>
  /\ loop = [n \in Node |-> None]
  /\ submitting = {}
  /\ signing = [n \in Node |-> {}]
  /\ overrides = 0

(***************************************************************************)
(* The key generation, as CommitteeKey abstracts it: a member learns its   *)
(* key, and reports that it is ready.                                      *)
(***************************************************************************)
LearnKey(n) ==
  /\ up[n] /\ n \in Member
  /\ key[n] = NoKey
  /\ key' = [key EXCEPT ![n] = KeyOf[n]]
  /\ UNCHANGED <<transportVars, ready, autoSign, pending, aggResults, lastAgg,
                 roundVars, loop>>

BecomeReady(n) ==
  /\ up[n] /\ ~ready[n]
  /\ key[n] # NoKey
  /\ ready' = [ready EXCEPT ![n] = TRUE]
  /\ UNCHANGED <<transportVars, key, autoSign, pending, aggResults, lastAgg,
                 roundVars, loop>>

------------------------------------------------------------------------------
(***************************************************************************)
(* Control goroutines.                                                     *)
(***************************************************************************)
\* SubmitSignRequest up to its unlock.  A session of the same identifier is
\* replaced by a new one.
SubmitSignRequest(s, m) ==
  /\ up[Coordinator] /\ ready[Coordinator]
  /\ Len(requests) < MaxRequests
  /\ requests' = Append(requests, [sid |-> s, message |-> m])
  /\ sessions' = [sessions EXCEPT ![s] = NewSession(m, Len(requests'))]
  /\ submitting' = submitting \cup {Len(requests')}
  /\ UNCHANGED <<transportVars, nodeVars, signing, overrides, loop>>

\* The rest of SubmitSignRequest: the request is broadcast.
PublishSignRequest(r) ==
  /\ r \in submitting
  /\ submitting' = submitting \ {r}
  /\ Publish(Coordinator, Node,
             SignRequest(requests[r].sid, requests[r].message, r))
  /\ UNCHANGED <<up, nodeVars, sessions, requests, signing, overrides, loop>>

\* setAutoSign.
SetAutoSign(n) ==
  /\ up[n]
  /\ autoSign' = [autoSign EXCEPT ![n] = ~@]
  /\ UNCHANGED <<transportVars, key, ready, pending, aggResults, lastAgg,
                 roundVars, loop>>

(***************************************************************************)
(* SubmitLocalSign up to its unlock: the queued request is taken off the   *)
(* queue, and the message given with the call, if any, wins over it.       *)
(***************************************************************************)
SubmitLocalSign(n, s, override) ==
  LET queued == pending[n][s]
      hasQueued == queued # None
      message == IF override # None THEN override
                 ELSE IF hasQueued THEN queued.message ELSE None
      request == IF hasQueued THEN queued.request ELSE 0
  IN  /\ up[n]
      /\ message # None
      /\ override # None => overrides < MaxOverrides
      /\ overrides' = IF override = None THEN overrides ELSE overrides + 1
      /\ pending' = [pending EXCEPT ![n][s] = None]
      /\ signing' = [signing EXCEPT ![n] =
           @ \cup {[sid |-> s, message |-> message, request |-> request]}]
      /\ UNCHANGED <<transportVars, key, ready, autoSign, aggResults, lastAgg,
                     sessions, requests, submitting, loop>>

\* Mutant: auto-sign is looked at again before the response is published.
PublishSignResponseIfAuto(n, job) ==
  IF key[n] # NoKey /\ autoSign[n]
    THEN Publish(n, {Coordinator},
                 SignResponse(job.sid, job.message, job.request, n, key[n]))
    ELSE UNCHANGED <<net, inCh>>

\* publishSignResponse: nothing is sent by a node that has no key to sign
\* with.
PublishSignResponse(n, job) ==
  IF key[n] # NoKey
    THEN Publish(n, {Coordinator},
                 SignResponse(job.sid, job.message, job.request, n, key[n]))
    ELSE UNCHANGED <<net, inCh>>

\* The rest of SubmitLocalSign.
PublishLocalSign(n, job) ==
  /\ job \in signing[n]
  /\ signing' = [signing EXCEPT ![n] = @ \ {job}]
  /\ PublishSignResponse(n, job)
  /\ UNCHANGED <<up, nodeVars, sessions, requests, submitting, overrides, loop>>

------------------------------------------------------------------------------
(***************************************************************************)
(* The main loop.  It takes an envelope only when it has finished with the *)
(* one before, and with finalizeDKG.                                       *)
(***************************************************************************)
Handles(n, type) ==
  /\ Received(n)
  /\ loop[n] = None
  /\ key[n] # NoKey => ready[n]
  /\ Head(inCh[n]).type = type

\* onSignRequest up to the load of autoSign.
OnSignRequest(n) ==
  LET m == Head(inCh[n])
      job == [sid |-> m.sid, message |-> m.message, request |-> m.request]
  IN  /\ Handles(n, "SignRequest")
      /\ inCh' = Consume(n)
      /\ IF ready[n] /\ m.message # None
           THEN /\ sessions' =
                     IF n = Coordinator /\ sessions[m.sid] = None
                       THEN [sessions EXCEPT ![m.sid] =
                               NewSession(m.message, m.request)]
                       ELSE sessions
                /\ loop' = [loop EXCEPT ![n] =
                     [do |-> IF autoSign[n] THEN "respond" ELSE "queue",
                      job |-> job]]
           ELSE UNCHANGED <<sessions, loop>>
      /\ UNCHANGED <<up, net, nodeVars, requests, submitting, signing,
                 overrides>>

\* The rest of onSignRequest with auto-sign off: the request is queued.
QueueRequest(n) ==
  /\ loop[n] # None /\ loop[n].do = "queue"
  /\ pending' = [pending EXCEPT ![n][loop[n].job.sid] =
       [message |-> loop[n].job.message, request |-> loop[n].job.request]]
  /\ loop' = [loop EXCEPT ![n] = None]
  /\ UNCHANGED <<transportVars, key, ready, autoSign, aggResults, lastAgg,
                 roundVars>>

\* The rest of onSignRequest with auto-sign on.
RespondToRequest(n) ==
  /\ loop[n] # None /\ loop[n].do = "respond"
  /\ PublishSignResponse(n, loop[n].job)
  /\ loop' = [loop EXCEPT ![n] = None]
  /\ UNCHANGED <<up, nodeVars, roundVars>>

\* Mutant: any signature passes.
VerifyShareAny(m, message) == TRUE

\* VerifyShare, with the key the response itself names.
VerifyShare(m, message) == m.message = message

\* Mutant: an aggregated session goes on accepting responses.
AcceptsAfterAggregation(session, m) ==
  /\ session # None
  /\ m.signer \in Member
  /\ session.responses[m.signer] = None
  /\ VerifyShare(m, session.message)

\* Mutant: the first member's response is refused.
AcceptsFromOthers(session, m) ==
  /\ session # None
  /\ ~session.aggregated
  /\ m.signer \in Member \ {0}
  /\ session.responses[m.signer] = None
  /\ VerifyShare(m, session.message)

\* The checks of onSignResponse before the response is added.
Accepts(session, m) ==
  /\ session # None
  /\ ~session.aggregated
  /\ m.signer \in Member
  /\ session.responses[m.signer] = None
  /\ VerifyShare(m, session.message)

\* Mutant: one response more than the threshold is waited for.
EnoughPlusOne(session) == Cardinality(Responders(session)) > Threshold

\* The session has reached the threshold.
Enough(session) == Cardinality(Responders(session)) >= Threshold

(***************************************************************************)
(* onSignResponse up to its unlock.  When there are enough responses the   *)
(* loop goes on with a copy of what the session holds then.                *)
(***************************************************************************)
OnSignResponse(n) ==
  LET m == Head(inCh[n])
      session == sessions[m.sid]
      response == [message |-> m.message, key |-> m.key]
      added == [session EXCEPT !.responses[m.signer] = response]
  IN  /\ Handles(n, "SignResponse")
      /\ inCh' = Consume(n)
      /\ IF n = Coordinator /\ Accepts(session, m)
           THEN /\ sessions' = [sessions EXCEPT ![m.sid] = added]
                /\ loop' =
                     IF Enough(added)
                       THEN [loop EXCEPT ![n] = [do |-> "aggregate",
                                                 sid |-> m.sid,
                                                 session |-> added]]
                       ELSE loop
           ELSE UNCHANGED <<sessions, loop>>
      /\ UNCHANGED <<up, net, nodeVars, requests, submitting, signing,
                 overrides>>

\* Mutant: the combined signature is not verified.
VerifyAggregateSkipped(session, k) == TRUE

\* AggregateThresholdSignatures over all responses, and VerifyAggregate: the
\* signature verifies under the key k when every share belongs to k.
VerifyAggregate(session, k) ==
  \A i \in Responders(session) :
    session.responses[i] = [message |-> session.message, key |-> k]

\* Mutant: the flag goes to the session of that name in the map.
MarkCurrent(s, state) == [sessions EXCEPT ![s].aggregated = TRUE]

\* state.aggregated = true, where state is the session the response was added
\* to: it may not be the one that is in the map any more.
MarkAggregated(s, state) ==
  IF sessions[s].request = state.request
    THEN [sessions EXCEPT ![s].aggregated = TRUE]
    ELSE sessions

\* onSignResponse from the aggregation to state.aggregated = true.
Aggregate(n) ==
  /\ loop[n] # None /\ loop[n].do = "aggregate"
  /\ LET s == loop[n].sid
         state == loop[n].session
     IN  IF VerifyAggregate(state, key[n])
           THEN /\ sessions' = MarkAggregated(s, state)
                /\ loop' = [loop EXCEPT ![n] =
                     [do |-> "store",
                      result |-> AggResult(s, state.message, state.request,
                                           Responders(state), key[n])]]
           ELSE /\ loop' = [loop EXCEPT ![n] = None]
                /\ UNCHANGED sessions
  /\ UNCHANGED <<transportVars, nodeVars, requests, submitting, signing,
                 overrides>>

\* Mutant: a result of a session that has one already is ignored.
StoreFirstResult(n, result) ==
  IF aggResults[n][result.sid] = None
    THEN /\ aggResults' = [aggResults EXCEPT ![n][result.sid] = result]
         /\ lastAgg' = [lastAgg EXCEPT ![n] = result.sid]
    ELSE UNCHANGED <<aggResults, lastAgg>>

\* storeAggregateResult.
StoreAggregateResult(n, result) ==
  /\ aggResults' = [aggResults EXCEPT ![n][result.sid] = result]
  /\ lastAgg' = [lastAgg EXCEPT ![n] = result.sid]

\* onSignResponse: the result is stored, then broadcast.
StoreResult(n) ==
  /\ loop[n] # None /\ loop[n].do = "store"
  /\ StoreAggregateResult(n, loop[n].result)
  /\ loop' = [loop EXCEPT ![n].do = "broadcast"]
  /\ UNCHANGED <<transportVars, key, ready, autoSign, pending, roundVars>>

BroadcastResult(n) ==
  /\ loop[n] # None /\ loop[n].do = "broadcast"
  /\ Publish(n, Node, loop[n].result)
  /\ loop' = [loop EXCEPT ![n] = None]
  /\ UNCHANGED <<up, nodeVars, roundVars>>

\* onAggResult.  The result verifies under the key it names, whatever node
\* receives it and whether that node has a key or not.
OnAggResult(n) ==
  /\ Handles(n, "AggResult")
  /\ inCh' = Consume(n)
  /\ StoreAggregateResult(n, Head(inCh[n]))
  /\ UNCHANGED <<up, net, key, ready, autoSign, pending, roundVars, loop>>

------------------------------------------------------------------------------
\* The process of a node ends and is not started again.  Only the memory of
\* the others remains.
Crash(n) ==
  /\ n \in MayCrash
  /\ StopProcess(n)
  /\ key' = [key EXCEPT ![n] = NoKey]
  /\ ready' = [ready EXCEPT ![n] = FALSE]
  /\ autoSign' = [autoSign EXCEPT ![n] = TRUE]
  /\ pending' = [pending EXCEPT ![n] = [s \in Session |-> None]]
  /\ aggResults' = [aggResults EXCEPT ![n] = [s \in Session |-> None]]
  /\ lastAgg' = [lastAgg EXCEPT ![n] = None]
  /\ loop' = [loop EXCEPT ![n] = None]
  /\ signing' = [signing EXCEPT ![n] = {}]
  /\ IF n = Coordinator
       THEN /\ sessions' = [s \in Session |-> None]
            /\ submitting' = {}
       ELSE UNCHANGED <<sessions, submitting>>
  /\ UNCHANGED <<requests, overrides>>

Transfer ==
  /\ \E f \in net : ReadLoop(f)
  /\ UNCHANGED <<nodeVars, roundVars, loop>>

Loss ==
  /\ \E f \in net : LoseFrame(f)
  /\ UNCHANGED <<nodeVars, roundVars, loop>>

\* What the goroutines of the processes do by themselves.
MainLoop(n) ==
  \/ OnSignRequest(n)
  \/ QueueRequest(n)
  \/ RespondToRequest(n)
  \/ OnSignResponse(n)
  \/ Aggregate(n)
  \/ StoreResult(n)
  \/ BroadcastResult(n)
  \/ OnAggResult(n)

\* What operators do.
Operator ==
  \/ \E s \in Session, m \in Submitted : SubmitSignRequest(s, m)
  \/ \E n \in Manual : SetAutoSign(n)
  \/ \E n \in Manual, s \in Session, m \in Override : SubmitLocalSign(n, s, m)

Next ==
  \/ Operator
  \/ \E r \in submitting : PublishSignRequest(r)
  \/ \E n \in Node : \/ MainLoop(n)
                     \/ \E job \in signing[n] : PublishLocalSign(n, job)
                     \/ LearnKey(n)
                     \/ BecomeReady(n)
                     \/ Crash(n)
  \/ Transfer
  \/ Loss

Spec == Init /\ [][Next]_vars

(***************************************************************************)
(* Every goroutine that can go on does: the main loops, the control        *)
(* goroutines in the middle of a call, and the readLoops.                  *)
(***************************************************************************)
Fairness ==
  /\ WF_vars(\E r \in submitting : PublishSignRequest(r))
  /\ \A n \in Node : /\ WF_vars(MainLoop(n))
                     /\ WF_vars(\E job \in signing[n] : PublishLocalSign(n, job))
  /\ WF_vars(Transfer)

FairSpec == Spec /\ Fairness

------------------------------------------------------------------------------
(***************************************************************************)
(* Properties.                                                             *)
(***************************************************************************)
Request == 0 .. MaxRequests
Payload == Message \cup {None}
KeyValue == {KeyOf[n] : n \in Node}
Response == [message : Message, key : KeyValue]
Job == [sid : Session, message : Message, request : Request]

SessionState ==
  [message : Payload, request : Request,
   responses : [Member -> Response \cup {None}], aggregated : BOOLEAN]

\* A session is something else than no session.
ASSUME NoneIsNoSession == None \notin SessionState

Result ==
  [type : {"AggResult"}, sid : Session, message : Message, request : Request,
   signers : SUBSET Member, key : KeyValue]

RequestEnvelope ==
  [type : {"SignRequest"}, sid : Session, message : Payload, request : Request]

ResponseEnvelope ==
  [type : {"SignResponse"}, sid : Session, message : Message, request : Request,
   signer : Node, key : KeyValue]

Envelope == RequestEnvelope \cup ResponseEnvelope \cup Result

LoopJob ==
       [do : {"respond", "queue"}, job : Job]
  \cup [do : {"aggregate"}, sid : Session, session : SessionState]
  \cup [do : {"store", "broadcast"}, result : Result]

Queued == [message : Message, request : Request]

\* Nor is a response, a result, a job of a main loop or a queued request nothing.
ASSUME NoneIsNoJob == None \notin Response \cup Result \cup LoopJob \cup Queued

\* Type correctness.  A queued request and a response name a real message,
\* never the empty one.
TypeOK ==
  /\ up \in [Node -> BOOLEAN]
  /\ net \subseteq [dst : Node, env : Envelope]
  /\ inCh \in [Node -> Seq(Envelope)]
  /\ \A n \in Node : Len(inCh[n]) <= QueueCap
  /\ key \in [Node -> KeyValue \cup {NoKey}]
  /\ ready \in [Node -> BOOLEAN]
  /\ autoSign \in [Node -> BOOLEAN]
  /\ pending \in [Node -> [Session -> Queued \cup {None}]]
  /\ sessions \in [Session -> SessionState \cup {None}]
  /\ aggResults \in [Node -> [Session -> Result \cup {None}]]
  /\ lastAgg \in [Node -> Session \cup {None}]
  /\ requests \in Seq([sid : Session, message : Payload])
  /\ Len(requests) <= MaxRequests
  /\ loop \in [Node -> LoopJob \cup {None}]
  /\ submitting \subseteq 1 .. MaxRequests
  /\ signing \in [Node -> SUBSET Job]
  /\ overrides \in 0 .. MaxOverrides

\* The envelopes on their way to node n, or waiting there.
Inbound(n) ==
  {f.env : f \in {g \in net : g.dst = n}} \cup {inCh[n][i] : i \in DOMAIN inCh[n]}

\* Every aggregate result there is: on its way, stored, or about to be.
Results ==
       {e \in UNION {Inbound(n) : n \in Node} : e.type = "AggResult"}
  \cup ((UNION {{aggResults[n][s] : s \in Session} : n \in Node}) \ {None})
  \cup {loop[n].result : n \in {p \in Node : loop[p] # None
                                         /\ loop[p].do \in {"store", "broadcast"}}}

\* A result is one the operator of the coordinator asked for, with that very
\* message under that session, and at least Threshold members whose share
\* belongs to the coordinator's committee key signed it: no override, late
\* response, replaced session or member with another key gets anything else
\* signed, or counted.
ResultsAreRequestedAndSigned ==
  \A x \in Results :
    /\ x.request \in DOMAIN requests
    /\ requests[x.request] = [sid |-> x.sid, message |-> x.message]
    /\ Cardinality(x.signers) >= Threshold
    /\ x.key = KeyOf[Coordinator]
    /\ \A i \in x.signers : i \in Node /\ KeyOf[i] = x.key

\* All nodes that have a result of a request have the same one: a request is
\* aggregated at most once, whatever responses come later.
OneResultPerRequest ==
  \A x, y \in Results : x.request = y.request => x = y

\* The requests that may still be signed: those whose session is not aggregated,
\* and the one the main loop is about to aggregate a copy of.
Open ==
       {sessions[s].request : s \in {t \in Session : sessions[t] # None
                                                  /\ ~sessions[t].aggregated}}
  \cup {loop[n].session.request : n \in {p \in {Coordinator} :
                                          loop[p] # None /\ loop[p].do = "aggregate"}}

\* The members whose shares make a signature of the coordinator's committee key.
Signatories ==
  {Q \in SUBSET (Member \cap Node) :
     /\ Cardinality(Q) >= Threshold
     /\ \A i \in Q : KeyOf[i] = KeyOf[Coordinator]}

Round == INSTANCE SigningRound
           WITH asked <- requests, open <- Open, results <- Results,
                stored <- aggResults, Quorum <- Signatories,
                CommitteeKey <- KeyOf[Coordinator]

\* Under loss, overflow, overrides, replaced sessions and crashes, what the
\* service does is a signing round: until the coordinator ends, a request stays
\* open until it is signed, once and by a quorum, or replaced, and the nodes
\* store only what was signed.
ImplementsSigningRound == Round!Spec

\* Request r was replaced by a later one for the same session.
Superseded(r) ==
  \E q \in DOMAIN requests : q > r /\ requests[q].sid = requests[r].sid

\* Node n has not dealt with request r yet, or its answer is on its way.
Underway(r, n) ==
  \/ r \in submitting
  \/ \E e \in Inbound(n) : e.type = "SignRequest" /\ e.request = r
  \/ loop[n] # None /\ loop[n].do \in {"respond", "queue"} /\ loop[n].job.request = r
  \/ \E s \in Session : pending[n][s] # None /\ pending[n][s].request = r
  \/ \E job \in signing[n] : job.request = r
  \/ \E e \in Inbound(Coordinator) :
       e.type = "SignResponse" /\ e.request = r /\ e.signer = n

\* With reliable connections and no overrides no member loses a request: until
\* it is replaced, the request waits for the operator, is being handled, its
\* response is on its way, or the coordinator has counted it or needs it no
\* more.  Auto-sign may be switched at any moment.  A node with auto-sign off
\* is spared a session that is submitted twice: Publish runs after the unlock
\* in SubmitSignRequest, so the older of two requests may come last, and then
\* takes the place of the newer one in pending.
NoRequestIsForgotten ==
  \A r \in DOMAIN requests, n \in Member \cap AlreadyReady :
    /\ requests[r].message # None
    /\ up[n] /\ up[Coordinator]
    /\ ~Superseded(r)
    /\ n \in Manual => \A q \in 1 .. r - 1 : requests[q].sid # requests[r].sid
    => \/ Underway(r, n)
       \/ sessions[requests[r].sid].aggregated
       \/ n \in Responders(sessions[requests[r].sid])

\* When the coordinator has nothing left to handle, the result it stores for
\* an aggregated session is the result of the request that session was
\* created for, although results of a replaced session of the same name are
\* stored, and echoed, too.
QuietCoordinatorIsCurrent ==
  (loop[Coordinator] = None /\ Inbound(Coordinator) = {})
    => \A s \in Session :
         (sessions[s] # None /\ sessions[s].aggregated)
           => /\ aggResults[Coordinator][s] # None
              /\ aggResults[Coordinator][s].request = sessions[s].request

\* README.md: "result [session]" without a session returns the newest result.
\* So, at the node that makes the results, the latest session moves only to
\* a session that had no result before, while no session is submitted twice.
LatestResultMovesForward ==
  [][LET latest == lastAgg'[Coordinator]
     IN  latest \notin {None, lastAgg[Coordinator]}
           => aggResults[Coordinator][latest] = None]_lastAgg

\* The coordinator stores a result of the message of request r, and every
\* other running node one of its session (results of a session submitted
\* twice may overtake each other on their way).
KnownEverywhere(r) ==
  LET s == requests[r].sid
  IN  /\ \A n \in Node : up[n] => aggResults[n][s] # None
      /\ aggResults[Coordinator][s].message = requests[r].message

\* A request that is not replaced gets its result to every running node, when
\* the connections are reliable, Threshold members with the coordinator's key
\* keep running and nobody switches auto-sign off.
SubmittedRequestIsSigned ==
  \A r \in 1 .. MaxRequests :
    (r \in DOMAIN requests /\ requests[r].message # None)
      ~> r \in DOMAIN requests /\ (Superseded(r) \/ KnownEverywhere(r))
==============================================================================
