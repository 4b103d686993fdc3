---------------------------- MODULE Signing_proofs -----------------------------
(***************************************************************************)
(* Proofs about Signing, for every committee, threshold and assignment of  *)
(* keys, any number of requests and overrides, with or without loss.       *)
(***************************************************************************)
EXTENDS Signing, Transport_proofs, FiniteSetTheorems

\* Request r asks for message m under session s.
Requested(s, m, r) ==
  r \in DOMAIN requests /\ requests[r] = [sid |-> s, message |-> m]

\* Every response carries the key of the member it is counted for.
OwnKeys(responses) ==
  \A i \in Member : responses[i] # None => i \in Node /\ responses[i].key = KeyOf[i]

\* A session of identifier s that belongs to a request.
GoodSession(s) ==
  {x \in SessionState : Requested(s, x.message, x.request) /\ OwnKeys(x.responses)}

\* A result that was requested, and signed by a threshold of members.
GoodResult ==
  {x \in Result : /\ Requested(x.sid, x.message, x.request)
                  /\ Cardinality(x.signers) >= Threshold
                  /\ x.key = KeyOf[Coordinator]
                  /\ \A i \in x.signers : i \in Node /\ KeyOf[i] = x.key}

GoodRequest ==
  {e \in RequestEnvelope : Requested(e.sid, e.message, e.request)}

GoodResponse == {e \in ResponseEnvelope : e.key = KeyOf[e.signer]}

GoodEnvelope == GoodRequest \cup GoodResponse \cup GoodResult

\* What the main loop may have left to do.
Answering == [do : {"respond", "queue"}, job : Job]

Aggregating ==
  {l \in [do : {"aggregate"}, sid : Session, session : SessionState] :
     /\ l.session \in GoodSession(l.sid)
     /\ Cardinality(Responders(l.session)) >= Threshold
     /\ sessions[l.sid] \in GoodSession(l.sid)}

Concluding == [do : {"store", "broadcast"}, result : GoodResult]

RequestsOK ==
  /\ requests \in Seq([sid : Session, message : Payload])
  /\ Len(requests) <= MaxRequests
  /\ submitting \subseteq DOMAIN requests
  /\ overrides \in 0 .. MaxOverrides

KeysOK ==
  /\ key \in [Node -> KeyValue \cup {NoKey}]
  /\ \A n \in Node : key[n] \in {NoKey, KeyOf[n]}
  /\ ready \in [Node -> BOOLEAN]
  /\ autoSign \in [Node -> BOOLEAN]

QueuesOK ==
  /\ pending \in [Node -> [Session -> Queued \cup {None}]]
  /\ signing \in [Node -> SUBSET Job]

ResultsOK ==
  /\ aggResults \in [Node -> [Session -> GoodResult \cup {None}]]
  /\ lastAgg \in [Node -> Session \cup {None}]

SessionsOK ==
  /\ sessions \in [Session -> SessionState \cup {None}]
  /\ \A s \in Session : sessions[s] # None => sessions[s] \in GoodSession(s)

LoopsOK ==
  /\ loop \in [Node -> Answering \cup Aggregating \cup Concluding \cup {None}]
  /\ \A n \in Node \ {Coordinator} :
       loop[n] \in Answering \cup Concluding \cup {None}

\* The inductive invariant.
IInv ==
  /\ ChannelsCarry(GoodEnvelope)
  /\ RequestsOK
  /\ KeysOK
  /\ QueuesOK
  /\ ResultsOK
  /\ SessionsOK
  /\ LoopsOK

LEMMA InitEstablishesIInv == Init => IInv
<1> SUFFICES ASSUME Init PROVE IInv
  OBVIOUS
<1>1. ChannelsCarry(GoodEnvelope)
  BY TransportAssumption DEF Init, ChannelsCarry
<1>2. RequestsOK
  BY SigningAssumption DEF Init, RequestsOK
<1>3. KeysOK
  BY SigningAssumption DEF Init, KeysOK, KeyValue
<1>4. QueuesOK
  BY DEF Init, QueuesOK
<1>5. ResultsOK
  BY DEF Init, ResultsOK
<1>6. SessionsOK
  BY DEF Init, SessionsOK
<1>7. LoopsOK
  BY DEF Init, LoopsOK
<1>8. QED
  BY <1>1, <1>2, <1>3, <1>4, <1>5, <1>6, <1>7 DEF IInv

LEMMA IInvImpliesTypeOK == IInv => TypeOK
<1> SUFFICES ASSUME IInv PROVE TypeOK
  OBVIOUS
<1>1. ChannelsCarry(Envelope)
  <2>1. GoodEnvelope \subseteq Envelope
    BY DEF GoodEnvelope, GoodRequest, GoodResponse, GoodResult, Envelope
  <2>2. QED
    BY <2>1, ChannelsMonotone DEF IInv
<1>2. submitting \subseteq 1 .. MaxRequests
  BY SigningAssumption DEF IInv, RequestsOK
<1>3. GoodResult \subseteq Result
  BY DEF GoodResult
<1>4. aggResults \in [Node -> [Session -> Result \cup {None}]]
  BY <1>3 DEF IInv, ResultsOK
<1>5. loop \in [Node -> LoopJob \cup {None}]
  <2>1. Concluding \subseteq [do : {"store", "broadcast"}, result : Result]
    BY <1>3 DEF Concluding
  <2>2. QED
    BY <2>1 DEF IInv, LoopsOK, LoopJob, Answering, Aggregating
<1>6. QED
  BY <1>1, <1>2, <1>4, <1>5
     DEF IInv, TypeOK, ChannelsCarry, RequestsOK, KeysOK, QueuesOK, ResultsOK,
         SessionsOK

\* What is good stays good when requests are only added.
LEMMA GoodStaysGood ==
  ASSUME \A s, m, r : Requested(s, m, r) => Requested(s, m, r)'
  PROVE  /\ GoodEnvelope \subseteq GoodEnvelope'
         /\ GoodResult \subseteq GoodResult'
         /\ \A s : GoodSession(s) \subseteq GoodSession(s)'
<1>1. GoodResult \subseteq GoodResult'
  BY DEF GoodResult
<1>2. GoodRequest \subseteq GoodRequest'
  BY DEF GoodRequest
<1>3. \A s : GoodSession(s) \subseteq GoodSession(s)'
  BY DEF GoodSession, OwnKeys
<1>4. QED
  BY <1>1, <1>2, <1>3 DEF GoodEnvelope, GoodResponse

LEMMA RequestsStay ==
  ASSUME UNCHANGED requests
  PROVE  \A s, m, r : Requested(s, m, r) => Requested(s, m, r)'
  BY DEF Requested

\* A loop keeps its job while a session is neither lost nor of another request.
LEMMA LoopsStay ==
  ASSUME UNCHANGED requests,
         \A s \in Session : sessions[s] \in GoodSession(s)
                              => sessions'[s] \in GoodSession(s)
  PROVE  Aggregating \subseteq Aggregating' /\ Concluding \subseteq Concluding'
<1>1. /\ GoodResult \subseteq GoodResult'
      /\ \A s : GoodSession(s) \subseteq GoodSession(s)'
  BY GoodStaysGood, RequestsStay
<1>2. QED
  BY <1>1 DEF Aggregating, Concluding, Responders

------------------------------------------------------------------------------
\* Every action preserves the invariant.

\* What a step leaves good that submits nothing and keeps the sessions.
LEMMA QuietStep ==
  ASSUME IInv, UNCHANGED <<requests, sessions, submitting, overrides>>
  PROVE  /\ RequestsOK' /\ SessionsOK'
         /\ GoodEnvelope \subseteq GoodEnvelope'
         /\ GoodResult \subseteq GoodResult'
         /\ Aggregating \subseteq Aggregating' /\ Concluding \subseteq Concluding'
         /\ UNCHANGED <<aggResults, lastAgg>> => ResultsOK'
         /\ UNCHANGED loop => LoopsOK'
         /\ UNCHANGED transportVars => ChannelsCarry(GoodEnvelope)'
<1>1. /\ GoodEnvelope \subseteq GoodEnvelope'
      /\ GoodResult \subseteq GoodResult'
      /\ \A s : GoodSession(s) \subseteq GoodSession(s)'
  BY GoodStaysGood, RequestsStay
<1>2. Aggregating \subseteq Aggregating' /\ Concluding \subseteq Concluding'
  BY LoopsStay
<1>3. RequestsOK' /\ SessionsOK'
  BY <1>1 DEF IInv, RequestsOK, SessionsOK
<1>4. UNCHANGED <<aggResults, lastAgg>> => ResultsOK'
  BY <1>1 DEF IInv, ResultsOK
<1>5. UNCHANGED loop => LoopsOK'
  BY <1>2 DEF IInv, LoopsOK, Answering
<1>6. UNCHANGED transportVars => ChannelsCarry(GoodEnvelope)'
  BY <1>1 DEF IInv, ChannelsCarry, transportVars
<1>7. QED
  BY <1>1, <1>2, <1>3, <1>4, <1>5, <1>6

LEMMA LearnKeyPreserves ==
  ASSUME IInv, NEW n \in Node, LearnKey(n)
  PROVE  IInv'
<1>1. KeysOK'
  BY SigningAssumption DEF IInv, KeysOK, LearnKey, KeyValue
<1>2. QueuesOK'
  BY DEF IInv, QueuesOK, LearnKey, roundVars
<1>3. QED
  BY <1>1, <1>2, QuietStep DEF IInv, LearnKey, roundVars

LEMMA BecomeReadyPreserves ==
  ASSUME IInv, NEW n \in Node, BecomeReady(n)
  PROVE  IInv'
<1>1. KeysOK'
  BY DEF IInv, KeysOK, BecomeReady
<1>2. QueuesOK'
  BY DEF IInv, QueuesOK, BecomeReady, roundVars
<1>3. QED
  BY <1>1, <1>2, QuietStep DEF IInv, BecomeReady, roundVars

LEMMA SetAutoSignPreserves ==
  ASSUME IInv, NEW n \in Node, SetAutoSign(n)
  PROVE  IInv'
<1>1. KeysOK'
  BY DEF IInv, KeysOK, SetAutoSign
<1>2. QueuesOK'
  BY DEF IInv, QueuesOK, SetAutoSign, roundVars
<1>3. QED
  BY <1>1, <1>2, QuietStep DEF IInv, SetAutoSign, roundVars

LEMMA SubmitSignRequestPreserves ==
  ASSUME IInv, NEW s \in Session, NEW m \in Submitted, SubmitSignRequest(s, m)
  PROVE  IInv'
<1>1. PICK r \in 1 .. MaxRequests :
             /\ r = Len(requests) + 1
             /\ requests' = Append(requests, [sid |-> s, message |-> m])
             /\ Len(requests') = r
             /\ m \in Payload
  BY SigningAssumption DEF IInv, RequestsOK, SubmitSignRequest, Payload
<1>2. \A t, x, q : Requested(t, x, q) => Requested(t, x, q)'
  BY <1>1 DEF IInv, RequestsOK, Requested
<1>3. /\ GoodEnvelope \subseteq GoodEnvelope'
      /\ GoodResult \subseteq GoodResult'
      /\ \A t : GoodSession(t) \subseteq GoodSession(t)'
  BY <1>2, GoodStaysGood
<1>4. NewSession(m, r) \in GoodSession(s)'
  <2>1. Requested(s, m, r)'
    BY <1>1 DEF IInv, RequestsOK, Requested
  <2>2. NewSession(m, r) \in SessionState
    BY <1>1, SigningAssumption DEF NewSession, SessionState, Request
  <2>3. OwnKeys(NewSession(m, r).responses)
    BY DEF NewSession, OwnKeys
  <2>4. NewSession(m, r).message = m /\ NewSession(m, r).request = r
    BY DEF NewSession
  <2>5. QED
    BY <2>1, <2>2, <2>3, <2>4 DEF GoodSession, OwnKeys
<1>5. sessions' = [sessions EXCEPT ![s] = NewSession(m, r)]
  BY <1>1 DEF SubmitSignRequest
<1>6. ChannelsCarry(GoodEnvelope)'
  BY <1>3 DEF IInv, ChannelsCarry, SubmitSignRequest, transportVars
<1>7. RequestsOK'
  <2>1. requests' \in Seq([sid : Session, message : Payload])
    BY <1>1 DEF IInv, RequestsOK
  <2>2. submitting' \subseteq DOMAIN requests'
    BY <1>1 DEF IInv, RequestsOK, SubmitSignRequest
  <2>3. QED
    BY <1>1, <2>1, <2>2, SigningAssumption
       DEF IInv, RequestsOK, SubmitSignRequest
<1>8. KeysOK' /\ QueuesOK'
  BY DEF IInv, KeysOK, QueuesOK, SubmitSignRequest, nodeVars
<1>9. ResultsOK'
  BY <1>3 DEF IInv, ResultsOK, SubmitSignRequest, nodeVars
<1>10. SessionsOK'
  BY <1>3, <1>4, <1>5 DEF IInv, SessionsOK, GoodSession
<1>11. LoopsOK'
  <2>1. Aggregating \subseteq Aggregating'
    BY <1>3, <1>4, <1>5 DEF IInv, SessionsOK, Aggregating, Responders
  <2>2. Concluding \subseteq Concluding'
    BY <1>3 DEF Concluding
  <2>3. QED
    BY <2>1, <2>2 DEF IInv, LoopsOK, SubmitSignRequest, Answering
<1>12. QED
  BY <1>6, <1>7, <1>8, <1>9, <1>10, <1>11 DEF IInv

------------------------------------------------------------------------------
\* A step that moves envelopes and makes none.
LEMMA ChannelsStay ==
  ASSUME IInv, UNCHANGED requests, \A M : ChannelsCarry(M) => ChannelsCarry(M)'
  PROVE  ChannelsCarry(GoodEnvelope)'
<1>1. GoodEnvelope \subseteq GoodEnvelope'
  BY GoodStaysGood, RequestsStay
<1>2. QED
  BY <1>1 DEF IInv, ChannelsCarry

LEMMA PublishGood ==
  ASSUME IInv, UNCHANGED <<requests, up>>, NEW n \in Node, NEW to \in SUBSET Node,
         NEW env \in GoodEnvelope, Publish(n, to, env)
  PROVE  ChannelsCarry(GoodEnvelope)'
<1>1. GoodEnvelope \subseteq GoodEnvelope'
  BY GoodStaysGood, RequestsStay
<1>2. \A M : ChannelsCarry(M) /\ env \in M => ChannelsCarry(M)'
  BY PublishType
<1>3. QED
  BY <1>1, <1>2 DEF IInv, ChannelsCarry

LEMMA PublishSignResponseGood ==
  ASSUME IInv, UNCHANGED <<requests, up>>, NEW n \in Node, NEW job \in Job,
         PublishSignResponse(n, job)
  PROVE  ChannelsCarry(GoodEnvelope)'
<1>1. CASE key[n] # NoKey
  <2> DEFINE env == SignResponse(job.sid, job.message, job.request, n, key[n])
  <2>1. key[n] = KeyOf[n] /\ key[n] \in KeyValue
    BY <1>1 DEF IInv, KeysOK, KeyValue
  <2>2. env \in GoodEnvelope
    BY <2>1 DEF SignResponse, Job, GoodEnvelope, GoodResponse, ResponseEnvelope
  <2>3. Publish(n, {Coordinator}, env)
    BY <1>1 DEF PublishSignResponse
  <2>4. QED
    BY <2>2, <2>3, PublishGood, SigningAssumption
<1>2. CASE key[n] = NoKey
  BY <1>2, ChannelsStay DEF PublishSignResponse, ChannelsCarry
<1>3. QED
  BY <1>1, <1>2

LEMMA PublishSignRequestPreserves ==
  ASSUME IInv, NEW r \in submitting, PublishSignRequest(r)
  PROVE  IInv'
<1> DEFINE env == SignRequest(requests[r].sid, requests[r].message, r)
<1>1. /\ r \in DOMAIN requests
      /\ r \in Request
      /\ requests[r] \in [sid : Session, message : Payload]
  <2>1. r \in DOMAIN requests
    BY DEF IInv, RequestsOK
  <2>2. requests[r] \in [sid : Session, message : Payload]
    <3>1. \A R : requests \in Seq(R) => requests[r] \in R
      BY <2>1
    <3>2. QED
      BY <3>1 DEF IInv, RequestsOK
  <2>3. r \in Request
    BY <2>1, SigningAssumption DEF IInv, RequestsOK, Request
  <2>4. QED
    BY <2>1, <2>2, <2>3
<1>2. env \in GoodEnvelope
  <2>1. env \in RequestEnvelope
    BY <1>1 DEF SignRequest, RequestEnvelope
  <2>2. Requested(env.sid, env.message, env.request)
    BY <1>1 DEF SignRequest, Requested
  <2>3. QED
    BY <2>1, <2>2 DEF GoodEnvelope, GoodRequest
<1>3. ChannelsCarry(GoodEnvelope)'
  BY <1>2, PublishGood, SigningAssumption DEF PublishSignRequest
<1>4. /\ GoodResult \subseteq GoodResult'
      /\ \A s : GoodSession(s) \subseteq GoodSession(s)'
  BY GoodStaysGood, RequestsStay DEF PublishSignRequest
<1>5. RequestsOK' /\ SessionsOK'
  BY <1>4 DEF IInv, RequestsOK, SessionsOK, PublishSignRequest
<1>6. KeysOK' /\ QueuesOK' /\ ResultsOK'
  BY <1>4 DEF IInv, KeysOK, QueuesOK, ResultsOK, PublishSignRequest, nodeVars
<1>7. LoopsOK'
  BY LoopsStay DEF IInv, LoopsOK, PublishSignRequest, Answering
<1>8. QED
  BY <1>3, <1>5, <1>6, <1>7 DEF IInv

LEMMA SubmitLocalSignPreserves ==
  ASSUME IInv, NEW n \in Node, NEW s \in Session, NEW m \in Override,
         SubmitLocalSign(n, s, m)
  PROVE  IInv'
<1>1. /\ ChannelsCarry(GoodEnvelope)' /\ KeysOK' /\ SessionsOK' /\ ResultsOK' /\ LoopsOK'
  <2>1. /\ GoodEnvelope \subseteq GoodEnvelope'
        /\ GoodResult \subseteq GoodResult'
        /\ \A t : GoodSession(t) \subseteq GoodSession(t)'
    BY GoodStaysGood, RequestsStay DEF SubmitLocalSign
  <2>2. Aggregating \subseteq Aggregating' /\ Concluding \subseteq Concluding'
    BY LoopsStay DEF SubmitLocalSign
  <2>3. ChannelsCarry(GoodEnvelope)'
    BY <2>1 DEF IInv, ChannelsCarry, SubmitLocalSign, transportVars
  <2>4. LoopsOK'
    BY <2>2 DEF IInv, LoopsOK, SubmitLocalSign, Answering
  <2>5. KeysOK' /\ SessionsOK' /\ ResultsOK'
    BY <2>1 DEF IInv, KeysOK, SessionsOK, ResultsOK, SubmitLocalSign
  <2>6. QED
    BY <2>3, <2>4, <2>5
<1>2. RequestsOK'
  BY SigningAssumption DEF IInv, RequestsOK, SubmitLocalSign
<1>3. QueuesOK'
  <2>1. PICK job : /\ signing' = [signing EXCEPT ![n] = @ \cup {job}]
                   /\ job = [sid |-> s,
                             message |-> IF m # None THEN m
                                         ELSE pending[n][s].message,
                             request |-> IF pending[n][s] # None
                                           THEN pending[n][s].request ELSE 0]
                   /\ m # None \/ pending[n][s] # None
    BY DEF SubmitLocalSign
  <2>2. pending[n][s] \in Queued \cup {None}
    BY DEF IInv, QueuesOK
  <2>3. job \in Job
    BY <2>1, <2>2, SigningAssumption DEF Job, Request, Queued
  <2>4. signing' \in [Node -> SUBSET Job]
    BY <2>1, <2>3 DEF IInv, QueuesOK
  <2>5. pending' = [pending EXCEPT ![n][s] = None]
    BY DEF SubmitLocalSign
  <2>6. QED
    BY <2>4, <2>5 DEF IInv, QueuesOK
<1>4. QED
  BY <1>1, <1>2, <1>3 DEF IInv

LEMMA PublishLocalSignPreserves ==
  ASSUME IInv, NEW n \in Node, NEW job \in signing[n], PublishLocalSign(n, job)
  PROVE  IInv'
<1>1. job \in Job
  BY DEF IInv, QueuesOK
<1>2. ChannelsCarry(GoodEnvelope)'
  BY <1>1, PublishSignResponseGood DEF PublishLocalSign
<1>3. KeysOK' /\ QueuesOK'
  BY DEF IInv, KeysOK, QueuesOK, PublishLocalSign, nodeVars
<1>4. QED
  BY <1>2, <1>3, QuietStep DEF IInv, PublishLocalSign, nodeVars

------------------------------------------------------------------------------
\* The main loop takes an envelope.
LEMMA TakeEnvelope ==
  ASSUME IInv, NEW n \in Node, Received(n), inCh' = Consume(n),
         UNCHANGED <<up, net, requests>>
  PROVE  /\ ChannelsCarry(GoodEnvelope)'
         /\ Head(inCh[n]) \in GoodEnvelope
<1>1. \A M : ChannelsCarry(M) => ChannelsCarry(M)' /\ Head(inCh[n]) \in M
  BY ConsumeType DEF Received
<1>2. QED
  BY <1>1, ChannelsStay DEF IInv

LEMMA OnSignRequestPreserves ==
  ASSUME IInv, NEW n \in Node, OnSignRequest(n)
  PROVE  IInv'
<1> DEFINE m == Head(inCh[n])
           job == [sid |-> m.sid, message |-> m.message, request |-> m.request]
           session == NewSession(m.message, m.request)
<1>1. ChannelsCarry(GoodEnvelope)' /\ m \in GoodRequest
  <2>1. ChannelsCarry(GoodEnvelope)' /\ m \in GoodEnvelope
    BY TakeEnvelope DEF OnSignRequest, Handles
  <2>2. m.type = "SignRequest"
    BY DEF OnSignRequest, Handles
  <2>3. QED
    BY <2>1, <2>2
       DEF GoodEnvelope, GoodResponse, GoodResult, ResponseEnvelope, Result
<1>2. /\ m.sid \in Session /\ m.message \in Payload /\ m.request \in Request
      /\ Requested(m.sid, m.message, m.request)
  BY <1>1 DEF GoodRequest, RequestEnvelope
<1>3. /\ GoodResult \subseteq GoodResult'
      /\ \A s : GoodSession(s) \subseteq GoodSession(s)'
  BY GoodStaysGood, RequestsStay DEF OnSignRequest
<1>4. session \in GoodSession(m.sid)
  <2>1. session \in SessionState
    BY <1>2 DEF NewSession, SessionState
  <2>2. OwnKeys(session.responses)
    BY DEF NewSession, OwnKeys
  <2>3. session.message = m.message /\ session.request = m.request
    BY DEF NewSession
  <2>4. QED
    BY <1>2, <2>1, <2>2, <2>3 DEF GoodSession
<1>5. \/ sessions' = sessions
      \/ sessions' = [sessions EXCEPT ![m.sid] = session]
  BY DEF OnSignRequest
<1>6. SessionsOK'
  BY <1>2, <1>3, <1>4, <1>5 DEF IInv, SessionsOK, GoodSession
<1>7. Aggregating \subseteq Aggregating' /\ Concluding \subseteq Concluding'
  BY <1>2, <1>4, <1>5, LoopsStay DEF IInv, SessionsOK, OnSignRequest
<1>8. LoopsOK'
  <2>1. \/ loop' = loop
        \/ /\ m.message # None
           /\ \E do \in {"respond", "queue"} :
                loop' = [loop EXCEPT ![n] = [do |-> do, job |-> job]]
    BY DEF OnSignRequest
  <2>2. m.message # None => job \in Job
    BY <1>2 DEF Job, Payload
  <2>3. QED
    BY <1>7, <2>1, <2>2 DEF IInv, LoopsOK, Answering
<1>9. RequestsOK' /\ KeysOK' /\ QueuesOK' /\ ResultsOK'
  BY <1>3
     DEF IInv, RequestsOK, KeysOK, QueuesOK, ResultsOK, OnSignRequest, nodeVars
<1>10. QED
  BY <1>1, <1>6, <1>8, <1>9 DEF IInv

\* The main loop has finished with what it did.
LEMMA LoopIsDone ==
  ASSUME IInv, NEW n \in Node, UNCHANGED <<requests, sessions>>,
         loop' = [loop EXCEPT ![n] = None]
  PROVE  LoopsOK'
<1>1. Aggregating \subseteq Aggregating' /\ Concluding \subseteq Concluding'
  BY LoopsStay
<1>2. QED
  BY <1>1 DEF IInv, LoopsOK, Answering

LEMMA JobIsAnswer ==
  ASSUME IInv, NEW n \in Node, loop[n] # None, loop[n].do \in {"respond", "queue"}
  PROVE  loop[n].job \in Job
  BY DEF IInv, LoopsOK, Answering, Aggregating, Concluding

LEMMA QueueRequestPreserves ==
  ASSUME IInv, NEW n \in Node, QueueRequest(n)
  PROVE  IInv'
<1>1. loop[n].job \in Job
  BY JobIsAnswer DEF QueueRequest
<1>2. QueuesOK'
  BY <1>1 DEF IInv, QueuesOK, Queued, QueueRequest, roundVars, Job
<1>3. KeysOK'
  BY DEF IInv, KeysOK, QueueRequest
<1>4. LoopsOK'
  BY LoopIsDone DEF QueueRequest, roundVars
<1>5. QED
  BY <1>2, <1>3, <1>4, QuietStep DEF IInv, QueueRequest, roundVars

LEMMA RespondToRequestPreserves ==
  ASSUME IInv, NEW n \in Node, RespondToRequest(n)
  PROVE  IInv'
<1>1. loop[n].job \in Job
  BY JobIsAnswer DEF RespondToRequest
<1>2. ChannelsCarry(GoodEnvelope)'
  BY <1>1, PublishSignResponseGood DEF RespondToRequest, roundVars
<1>3. KeysOK' /\ QueuesOK'
  BY DEF IInv, KeysOK, QueuesOK, RespondToRequest, nodeVars, roundVars
<1>4. LoopsOK'
  BY LoopIsDone DEF RespondToRequest, roundVars
<1>5. QED
  BY <1>2, <1>3, <1>4, QuietStep DEF IInv, RespondToRequest, nodeVars, roundVars

------------------------------------------------------------------------------
\* A session that accepts a response goes on belonging to its request.
LEMMA AcceptedIsGood ==
  ASSUME NEW s, NEW session \in GoodSession(s), NEW m \in GoodResponse,
         Accepts(session, m)
  PROVE  [session EXCEPT !.responses[m.signer] = [message |-> m.message, key |-> m.key]]
           \in GoodSession(s)
<1> DEFINE response == [message |-> m.message, key |-> m.key]
           added == [session EXCEPT !.responses[m.signer] = response]
<1>1. /\ m.signer \in Member /\ m.signer \in Node
      /\ response \in Response
      /\ response.key = KeyOf[m.signer]
  BY DEF Accepts, GoodResponse, ResponseEnvelope, Response
<1>2. session \in SessionState /\ OwnKeys(session.responses)
  BY DEF GoodSession
<1>3. added.responses = [session.responses EXCEPT ![m.signer] = response]
      /\ added.message = session.message /\ added.request = session.request
  BY <1>2 DEF SessionState
<1>4. session.responses \in [Member -> Response \cup {None}]
  BY <1>2 DEF SessionState
<1>5. added.responses \in [Member -> Response \cup {None}]
  BY <1>1, <1>3, <1>4
<1>6. added \in SessionState
  BY <1>2, <1>5 DEF SessionState
<1>7. OwnKeys(added.responses)
  BY <1>1, <1>2, <1>3, <1>4 DEF OwnKeys
<1>8. QED
  BY <1>3, <1>6, <1>7 DEF GoodSession

LEMMA OnSignResponsePreserves ==
  ASSUME IInv, NEW n \in Node, OnSignResponse(n)
  PROVE  IInv'
<1> DEFINE m == Head(inCh[n])
           session == sessions[m.sid]
           response == [message |-> m.message, key |-> m.key]
           added == [session EXCEPT !.responses[m.signer] = response]
<1>1. ChannelsCarry(GoodEnvelope)' /\ m \in GoodResponse
  <2>1. ChannelsCarry(GoodEnvelope)' /\ m \in GoodEnvelope
    BY TakeEnvelope DEF OnSignResponse, Handles
  <2>2. m.type = "SignResponse"
    BY DEF OnSignResponse, Handles
  <2>3. QED
    BY <2>1, <2>2
       DEF GoodEnvelope, GoodRequest, GoodResult, RequestEnvelope, Result
<1>2. m.sid \in Session
  BY <1>1 DEF GoodResponse, ResponseEnvelope
<1>3. /\ GoodResult \subseteq GoodResult'
      /\ \A s : GoodSession(s) \subseteq GoodSession(s)'
  BY GoodStaysGood, RequestsStay DEF OnSignResponse
<1>4. RequestsOK' /\ KeysOK' /\ QueuesOK' /\ ResultsOK'
  BY <1>3
     DEF IInv, RequestsOK, KeysOK, QueuesOK, ResultsOK, OnSignResponse, nodeVars
<1>5. CASE n = Coordinator /\ Accepts(session, m)
  <2>1. added \in GoodSession(m.sid)
    <3>1. session \in GoodSession(m.sid)
      BY <1>2, <1>5 DEF IInv, SessionsOK, Accepts
    <3>2. QED
      BY <1>1, <1>5, <3>1, AcceptedIsGood
  <2>2. sessions' = [sessions EXCEPT ![m.sid] = added]
    BY <1>5 DEF OnSignResponse
  <2>3. SessionsOK'
    BY <1>2, <1>3, <2>1, <2>2 DEF IInv, SessionsOK, GoodSession
  <2>4. Aggregating \subseteq Aggregating' /\ Concluding \subseteq Concluding'
    BY <1>2, <2>1, <2>2, LoopsStay DEF IInv, SessionsOK, OnSignResponse
  <2>5. CASE Enough(added)
    <3> DEFINE l == [do |-> "aggregate", sid |-> m.sid, session |-> added]
    <3>1. loop' = [loop EXCEPT ![n] = l]
      BY <1>5, <2>5 DEF OnSignResponse
    <3>2. l \in Aggregating'
      <4>1. sessions'[m.sid] = added
        BY <1>2, <2>2 DEF IInv, SessionsOK
      <4>2. l.do = "aggregate" /\ l.sid = m.sid /\ l.session = added
        OBVIOUS
      <4>3. added \in SessionState /\ \A s : GoodSession(s) \subseteq GoodSession(s)'
        BY <1>3, <2>1 DEF GoodSession
      <4>4. PICK s, x : s = m.sid /\ x = added
        OBVIOUS
      <4>5. x \in GoodSession(s)' /\ sessions'[s] = x
        BY <2>1, <4>1, <4>3, <4>4
      <4>6. [do |-> "aggregate", sid |-> s, session |-> x] \in Aggregating'
        BY <1>2, <2>5, <4>3, <4>4, <4>5 DEF Aggregating, Enough, Responders
      <4>7. QED
        BY <4>4, <4>6
    <3>3. QED
      BY <1>1, <1>4, <1>5, <2>3, <2>4, <3>1, <3>2 DEF IInv, LoopsOK, Answering
  <2>6. CASE ~Enough(added)
    <3>1. loop' = loop
      BY <1>5, <2>6 DEF OnSignResponse
    <3>2. QED
      BY <1>1, <1>4, <2>3, <2>4, <3>1 DEF IInv, LoopsOK, Answering
  <2>7. QED
    BY <2>5, <2>6
<1>6. CASE ~(n = Coordinator /\ Accepts(session, m))
  <2>1. UNCHANGED <<requests, sessions, loop, submitting, overrides>>
    BY <1>6 DEF OnSignResponse
  <2>2. QED
    BY <1>1, <1>4, <2>1, QuietStep DEF IInv
<1>7. QED
  BY <1>5, <1>6

LEMMA JobIsAggregation ==
  ASSUME IInv, NEW n \in Node, loop[n] # None, loop[n].do = "aggregate"
  PROVE  n = Coordinator /\ loop[n] \in Aggregating
  BY DEF IInv, LoopsOK, Answering, Concluding

LEMMA JobIsConclusion ==
  ASSUME IInv, NEW n \in Node, loop[n] # None, loop[n].do \in {"store", "broadcast"}
  PROVE  loop[n] \in Concluding
  BY DEF IInv, LoopsOK, Answering, Aggregating

\* A session verified under the key of the coordinator gives a good result.
LEMMA AggregateIsGood ==
  ASSUME IInv, NEW s \in Session, NEW state \in GoodSession(s),
         Cardinality(Responders(state)) >= Threshold,
         VerifyAggregate(state, key[Coordinator])
  PROVE  AggResult(s, state.message, state.request, Responders(state),
                   key[Coordinator]) \in GoodResult
<1> DEFINE k == key[Coordinator]
           result == AggResult(s, state.message, state.request, Responders(state), k)
<1>1. state \in SessionState /\ OwnKeys(state.responses)
      /\ Requested(s, state.message, state.request)
  BY DEF GoodSession
<1>2. PICK j \in Responders(state) : TRUE
  <2>1. Responders(state) # {}
    BY SigningAssumption, FS_EmptySet
  <2>2. QED
    BY <2>1
<1>3. ASSUME NEW i \in Responders(state)
      PROVE  /\ i \in Node /\ KeyOf[i] = k
             /\ state.responses[i] \in Response
             /\ state.responses[i].message = state.message
  <2>1. i \in Member /\ state.responses[i] # None
    BY DEF Responders
  <2>2. state.responses[i] \in Response
    BY <1>1, <2>1 DEF SessionState
  <2>3. state.responses[i] = [message |-> state.message, key |-> k]
    BY DEF VerifyAggregate
  <2>4. i \in Node /\ state.responses[i].key = KeyOf[i]
    BY <1>1, <2>1 DEF OwnKeys
  <2>5. state.responses[i].key = k /\ state.responses[i].message = state.message
    BY <2>3
  <2>6. QED
    BY <2>2, <2>4, <2>5
<1>4. k \in KeyValue /\ k = KeyOf[Coordinator]
  <2>1. KeyOf[j] = k /\ j \in Node
    BY <1>3
  <2>2. k # NoKey /\ k \in KeyValue
    BY <2>1, SigningAssumption DEF KeyValue
  <2>3. QED
    BY <2>2, SigningAssumption DEF IInv, KeysOK
<1>5. state.message \in Message
  <2>1. state.responses[j] \in Response /\ state.responses[j].message = state.message
    BY <1>3
  <2>2. QED
    BY <2>1 DEF Response
<1>6. result \in Result
  BY <1>1, <1>4, <1>5 DEF AggResult, Result, SessionState, Responders
<1>7. /\ result.sid = s /\ result.message = state.message
      /\ result.request = state.request /\ result.signers = Responders(state)
      /\ result.key = k
  BY DEF AggResult
<1>8. QED
  BY <1>1, <1>3, <1>4, <1>6, <1>7 DEF GoodResult

LEMMA AggregatePreserves ==
  ASSUME IInv, NEW n \in Node, Aggregate(n)
  PROVE  IInv'
<1> DEFINE s == loop[n].sid
           state == loop[n].session
           result == AggResult(s, state.message, state.request,
                               Responders(state), key[n])
<1>1. n = Coordinator /\ loop[n] \in Aggregating
  BY JobIsAggregation DEF Aggregate
<1>2. /\ s \in Session /\ state \in GoodSession(s)
      /\ Cardinality(Responders(state)) >= Threshold
      /\ sessions[s] \in GoodSession(s)
  BY <1>1 DEF Aggregating
<1>3. /\ GoodResult \subseteq GoodResult'
      /\ GoodEnvelope \subseteq GoodEnvelope'
      /\ \A t : GoodSession(t) \subseteq GoodSession(t)'
  BY GoodStaysGood, RequestsStay DEF Aggregate
<1>4. /\ RequestsOK' /\ KeysOK' /\ QueuesOK' /\ ResultsOK'
      /\ ChannelsCarry(GoodEnvelope)'
  BY <1>3
     DEF IInv, RequestsOK, KeysOK, QueuesOK, ResultsOK, ChannelsCarry, Aggregate,
         nodeVars, transportVars
<1>5. CASE VerifyAggregate(state, key[n])
  <2>1. result \in GoodResult
    BY <1>1, <1>2, <1>5, AggregateIsGood
  <2>2. loop' = [loop EXCEPT ![n] = [do |-> "store", result |-> result]]
    BY <1>5 DEF Aggregate
  <2>3. \/ sessions' = sessions
        \/ sessions' = [sessions EXCEPT ![s].aggregated = TRUE]
    BY <1>5 DEF Aggregate, MarkAggregated
  <2>4. [sessions[s] EXCEPT !.aggregated = TRUE] \in GoodSession(s)
    BY <1>2 DEF GoodSession, SessionState
  <2>5. SessionsOK'
    BY <1>2, <1>3, <2>3, <2>4 DEF IInv, SessionsOK, GoodSession
  <2>6. Aggregating \subseteq Aggregating' /\ Concluding \subseteq Concluding'
    BY <1>2, <2>3, <2>4, LoopsStay DEF IInv, SessionsOK, Aggregate
  <2>7. [do |-> "store", result |-> result] \in Concluding
    BY <2>1 DEF Concluding
  <2>8. LoopsOK'
    BY <1>1, <2>2, <2>6, <2>7 DEF IInv, LoopsOK, Answering
  <2>9. QED
    BY <1>4, <2>5, <2>8 DEF IInv
<1>6. CASE ~VerifyAggregate(state, key[n])
  <2>1. UNCHANGED <<requests, sessions>> /\ loop' = [loop EXCEPT ![n] = None]
    BY <1>6 DEF Aggregate
  <2>2. LoopsOK'
    BY <2>1, LoopIsDone
  <2>3. SessionsOK'
    BY <1>3, <2>1 DEF IInv, SessionsOK
  <2>4. QED
    BY <1>4, <2>2, <2>3 DEF IInv
<1>7. QED
  BY <1>5, <1>6

\* Storing a good result.
LEMMA StoreGood ==
  ASSUME IInv, UNCHANGED requests, NEW n \in Node, NEW result \in GoodResult,
         StoreAggregateResult(n, result)
  PROVE  ResultsOK'
<1>1. GoodResult \subseteq GoodResult'
  BY GoodStaysGood, RequestsStay
<1>2. result.sid \in Session
  BY DEF GoodResult, Result
<1>3. QED
  BY <1>1, <1>2 DEF IInv, ResultsOK, StoreAggregateResult

LEMMA StoreResultPreserves ==
  ASSUME IInv, NEW n \in Node, StoreResult(n)
  PROVE  IInv'
<1>1. loop[n] \in Concluding
  BY JobIsConclusion DEF StoreResult
<1>2. ResultsOK'
  BY <1>1, StoreGood DEF StoreResult, Concluding, roundVars
<1>3. KeysOK' /\ QueuesOK'
  BY DEF IInv, KeysOK, QueuesOK, StoreResult, roundVars
<1>4. LoopsOK'
  <2>1. Aggregating \subseteq Aggregating' /\ Concluding \subseteq Concluding'
    BY LoopsStay DEF StoreResult, roundVars
  <2>2. loop' = [loop EXCEPT ![n] = [loop[n] EXCEPT !.do = "broadcast"]]
    BY DEF StoreResult
  <2>3. [loop[n] EXCEPT !.do = "broadcast"] \in Concluding
    BY <1>1 DEF Concluding
  <2>4. QED
    BY <2>1, <2>2, <2>3 DEF IInv, LoopsOK, Answering
<1>5. QED
  BY <1>2, <1>3, <1>4, QuietStep DEF IInv, StoreResult, roundVars

LEMMA BroadcastResultPreserves ==
  ASSUME IInv, NEW n \in Node, BroadcastResult(n)
  PROVE  IInv'
<1>1. loop[n].result \in GoodResult
  BY JobIsConclusion DEF BroadcastResult, Concluding
<1>2. ChannelsCarry(GoodEnvelope)'
  BY <1>1, PublishGood DEF BroadcastResult, roundVars, GoodEnvelope
<1>3. KeysOK' /\ QueuesOK'
  BY DEF IInv, KeysOK, QueuesOK, BroadcastResult, nodeVars, roundVars
<1>4. LoopsOK'
  BY LoopIsDone DEF BroadcastResult, roundVars
<1>5. QED
  BY <1>2, <1>3, <1>4, QuietStep DEF IInv, BroadcastResult, nodeVars, roundVars

LEMMA OnAggResultPreserves ==
  ASSUME IInv, NEW n \in Node, OnAggResult(n)
  PROVE  IInv'
<1>1. ChannelsCarry(GoodEnvelope)' /\ Head(inCh[n]) \in GoodResult
  <2>1. ChannelsCarry(GoodEnvelope)' /\ Head(inCh[n]) \in GoodEnvelope
    BY TakeEnvelope DEF OnAggResult, Handles, roundVars
  <2>2. Head(inCh[n]).type = "AggResult"
    BY DEF OnAggResult, Handles
  <2>3. QED
    BY <2>1, <2>2
       DEF GoodEnvelope, GoodRequest, GoodResponse, RequestEnvelope, ResponseEnvelope
<1>2. ResultsOK'
  BY <1>1, StoreGood DEF OnAggResult, roundVars
<1>3. KeysOK' /\ QueuesOK'
  BY DEF IInv, KeysOK, QueuesOK, OnAggResult, roundVars
<1>4. QED
  BY <1>1, <1>2, <1>3, QuietStep DEF IInv, OnAggResult, roundVars

LEMMA CrashPreserves ==
  ASSUME IInv, NEW n \in Node, Crash(n)
  PROVE  IInv'
<1>1. ChannelsCarry(GoodEnvelope)'
  <2>1. \A M : ChannelsCarry(M) => ChannelsCarry(M)'
    BY StopProcessType DEF Crash
  <2>2. QED
    BY <2>1, ChannelsStay DEF Crash
<1>2. /\ GoodResult \subseteq GoodResult'
      /\ \A s : GoodSession(s) \subseteq GoodSession(s)'
  BY GoodStaysGood, RequestsStay DEF Crash
<1>3. RequestsOK'
  BY DEF IInv, RequestsOK, Crash
<1>4. KeysOK' /\ QueuesOK'
  BY DEF IInv, KeysOK, QueuesOK, Crash
<1>5. ResultsOK'
  BY <1>2 DEF IInv, ResultsOK, Crash
<1>6. SessionsOK'
  BY <1>2 DEF IInv, SessionsOK, Crash
<1>7. LoopsOK'
  <2>1. Concluding \subseteq Concluding'
    BY <1>2 DEF Concluding
  <2>2. CASE n = Coordinator
    <3>1. loop' \in [Node -> Answering \cup Concluding \cup {None}]
      BY <2>1, <2>2 DEF IInv, LoopsOK, Crash
    <3>2. QED
      BY <3>1, <2>1 DEF LoopsOK, Answering, Concluding
  <2>3. CASE n # Coordinator
    <3>1. UNCHANGED <<requests, sessions>> /\ loop' = [loop EXCEPT ![n] = None]
      BY <2>3 DEF Crash
    <3>2. QED
      BY <3>1, LoopIsDone
  <2>4. QED
    BY <2>2, <2>3
<1>8. QED
  BY <1>1, <1>3, <1>4, <1>5, <1>6, <1>7 DEF IInv

LEMMA NextPreservesIInv == IInv /\ [Next]_vars => IInv'
<1> SUFFICES ASSUME IInv, [Next]_vars PROVE IInv'
  OBVIOUS
<1>1. CASE Operator
  <2>1. ASSUME NEW s \in Session, NEW m \in Submitted, SubmitSignRequest(s, m)
        PROVE  IInv'
    BY <2>1, SubmitSignRequestPreserves
  <2>2. ASSUME NEW n \in Manual, SetAutoSign(n)
        PROVE  IInv'
    BY <2>2, SetAutoSignPreserves, SigningAssumption
  <2>3. ASSUME NEW n \in Manual, NEW s \in Session, NEW m \in Override,
               SubmitLocalSign(n, s, m)
        PROVE  IInv'
    BY <2>3, SubmitLocalSignPreserves, SigningAssumption
  <2>4. QED
    BY <1>1, <2>1, <2>2, <2>3 DEF Operator
<1>2. ASSUME NEW r \in submitting, PublishSignRequest(r)
      PROVE  IInv'
  BY <1>2, PublishSignRequestPreserves
<1>3. ASSUME NEW n \in Node, MainLoop(n)
      PROVE  IInv'
  BY <1>3, OnSignRequestPreserves, QueueRequestPreserves, RespondToRequestPreserves,
     OnSignResponsePreserves, AggregatePreserves, StoreResultPreserves,
     BroadcastResultPreserves, OnAggResultPreserves DEF MainLoop
<1>4. ASSUME NEW n \in Node, NEW job \in signing[n], PublishLocalSign(n, job)
      PROVE  IInv'
  BY <1>4, PublishLocalSignPreserves
<1>5. ASSUME NEW n \in Node, LearnKey(n) \/ BecomeReady(n) \/ Crash(n)
      PROVE  IInv'
  BY <1>5, LearnKeyPreserves, BecomeReadyPreserves, CrashPreserves
<1>6. CASE Transfer \/ Loss
  <2>1. \A M : ChannelsCarry(M) => ChannelsCarry(M)'
    BY <1>6, ReadLoopType, LoseFrameType DEF Transfer, Loss
  <2>2. UNCHANGED <<nodeVars, roundVars, loop>>
    BY <1>6 DEF Transfer, Loss
  <2>3. ChannelsCarry(GoodEnvelope)'
    BY <2>1, <2>2, ChannelsStay DEF roundVars
  <2>4. KeysOK' /\ QueuesOK'
    BY <2>2 DEF IInv, KeysOK, QueuesOK, nodeVars, roundVars
  <2>5. QED
    BY <2>2, <2>3, <2>4, QuietStep DEF IInv, nodeVars, roundVars
<1>7. CASE UNCHANGED vars
  <2>1. KeysOK' /\ QueuesOK'
    BY <1>7 DEF IInv, KeysOK, QueuesOK, vars, nodeVars, roundVars
  <2>2. QED
    BY <1>7, <2>1, QuietStep DEF IInv, vars, nodeVars, roundVars
<1>8. QED
  BY <1>1, <1>2, <1>3, <1>4, <1>5, <1>6, <1>7 DEF Next

\* The invariant the other results follow from: every envelope, session, result
\* and job of a main loop stems from a request and carries its signer's own key
\* (SubmitSignRequest, onSignRequest, onSignResponse, onAggResult).
THEOREM IInvIsInvariant == Spec => []IInv
  BY InitEstablishesIInv, NextPreservesIInv, PTL DEF Spec

\* Type correctness: what the main loops, the control goroutines and the channels
\* hold is what the code puts there, and no inbound channel is over capacity.
THEOREM TypeCorrect == Spec => []TypeOK
  BY IInvIsInvariant, IInvImpliesTypeOK, PTL

LEMMA IInvImpliesResultsAreGood == IInv => Results \subseteq GoodResult
<1> SUFFICES ASSUME IInv PROVE Results \subseteq GoodResult
  OBVIOUS
<1>1. ASSUME NEW n \in Node, NEW e \in Inbound(n), e.type = "AggResult"
      PROVE  e \in GoodResult
  <2>1. e \in GoodEnvelope
    <3>1. CASE e \in {f.env : f \in {g \in net : g.dst = n}}
      BY <3>1 DEF IInv, ChannelsCarry
    <3>2. CASE \E i \in DOMAIN inCh[n] : e = inCh[n][i]
      <4>1. inCh[n] \in Seq(GoodEnvelope)
        BY DEF IInv, ChannelsCarry
      <4>2. QED
        BY <3>2, <4>1
    <3>3. QED
      BY <3>1, <3>2 DEF Inbound
  <2>2. QED
    BY <1>1, <2>1
       DEF GoodEnvelope, GoodRequest, GoodResponse, RequestEnvelope, ResponseEnvelope
<1>2. ASSUME NEW n \in Node, NEW s \in Session, aggResults[n][s] # None
      PROVE  aggResults[n][s] \in GoodResult
  BY <1>2 DEF IInv, ResultsOK
<1>3. ASSUME NEW n \in Node, loop[n] # None, loop[n].do \in {"store", "broadcast"}
      PROVE  loop[n].result \in GoodResult
  BY <1>3, JobIsConclusion DEF Concluding
<1>4. {e \in UNION {Inbound(n) : n \in Node} : e.type = "AggResult"} \subseteq GoodResult
  BY <1>1
<1>5. (UNION {{aggResults[n][s] : s \in Session} : n \in Node}) \ {None}
        \subseteq GoodResult
  BY <1>2
<1>6. {loop[n].result : n \in {p \in Node : loop[p] # None
                                      /\ loop[p].do \in {"store", "broadcast"}}}
        \subseteq GoodResult
  BY <1>3
<1>7. QED
  BY <1>4, <1>5, <1>6 DEF Results

\* Every result, on its way, stored or about to be, is one the operator of the
\* coordinator asked for (SubmitSignRequest), combined from the shares of at least
\* Threshold members that hold shares of the coordinator's key (onSignResponse).
THEOREM ResultsAreGood == Spec => []ResultsAreRequestedAndSigned
<1>1. IInv => ResultsAreRequestedAndSigned
  BY IInvImpliesResultsAreGood
     DEF ResultsAreRequestedAndSigned, GoodResult, Requested
<1>2. QED
  BY <1>1, IInvIsInvariant, PTL

------------------------------------------------------------------------------
(***************************************************************************)
(* A request has at most one result.                                       *)
(***************************************************************************)
\* Envelopes that carry no result but one of R.
Carrying(R) == RequestEnvelope \cup ResponseEnvelope \cup R

\* No result exists but those of R.
HoldsOnly(R) ==
  /\ ChannelsCarry(Carrying(R))
  /\ \A n \in Node, s \in Session : aggResults[n][s] \in R \cup {None}
  /\ \A n \in Node :
       loop[n] # None /\ loop[n].do \in {"store", "broadcast"} => loop[n].result \in R

LEMMA HoldsItsResults ==
  ASSUME IInv
  PROVE  HoldsOnly(Results)
<1>1. ASSUME NEW n \in Node, NEW e \in Inbound(n)
      PROVE  e \in GoodEnvelope => e \in Carrying(Results)
  <2>1. e.type = "AggResult" => e \in Results
    BY DEF Results
  <2>2. e \in GoodResult => e.type = "AggResult"
    BY DEF GoodResult, Result
  <2>3. QED
    BY <2>1, <2>2 DEF GoodEnvelope, GoodRequest, GoodResponse, Carrying
<1>2. \A f \in net : f.env \in Carrying(Results)
  BY <1>1 DEF IInv, ChannelsCarry, Inbound
<1>3. ASSUME NEW n \in Node
      PROVE  inCh[n] \in Seq(Carrying(Results))
  <2>1. inCh[n] \in Seq(GoodEnvelope)
    BY DEF IInv, ChannelsCarry
  <2>2. \A i \in DOMAIN inCh[n] : inCh[n][i] \in Carrying(Results)
    BY <1>1, <2>1 DEF Inbound
  <2>3. QED
    BY <2>1, <2>2
<1>4. ChannelsCarry(Carrying(Results))
  BY <1>2, <1>3 DEF IInv, ChannelsCarry
<1>5. \A n \in Node, s \in Session : aggResults[n][s] \in Results \cup {None}
  BY DEF Results
<1>6. ASSUME NEW n \in Node, loop[n] # None, loop[n].do \in {"store", "broadcast"}
      PROVE  loop[n].result \in Results
  BY <1>6 DEF Results
<1>7. QED
  BY <1>4, <1>5, <1>6 DEF HoldsOnly

LEMMA ResultsAreHeld == \A R : HoldsOnly(R) => Results \subseteq R
<1> SUFFICES ASSUME NEW R, HoldsOnly(R)
             PROVE  Results \subseteq R
  OBVIOUS
<1>1. ASSUME NEW n \in Node, NEW e \in Inbound(n), e.type = "AggResult"
      PROVE  e \in R
  <2>1. e \in Carrying(R)
    <3>1. CASE e \in {f.env : f \in {g \in net : g.dst = n}}
      BY <3>1 DEF HoldsOnly, ChannelsCarry
    <3>2. CASE \E i \in DOMAIN inCh[n] : e = inCh[n][i]
      <4>1. inCh[n] \in Seq(Carrying(R))
        BY DEF HoldsOnly, ChannelsCarry
      <4>2. QED
        BY <3>2, <4>1
    <3>3. QED
      BY <3>1, <3>2 DEF Inbound
  <2>2. QED
    BY <1>1, <2>1 DEF Carrying, RequestEnvelope, ResponseEnvelope
<1>2. {e \in UNION {Inbound(n) : n \in Node} : e.type = "AggResult"} \subseteq R
  BY <1>1
<1>3. (UNION {{aggResults[n][s] : s \in Session} : n \in Node}) \ {None} \subseteq R
  BY DEF HoldsOnly
<1>4. {loop[n].result : n \in {p \in Node : loop[p] # None
                                      /\ loop[p].do \in {"store", "broadcast"}}}
        \subseteq R
  BY DEF HoldsOnly
<1>5. QED
  BY <1>2, <1>3, <1>4 DEF Results

LEMMA ResultsAreHeldNext == (\A R : HoldsOnly(R) => Results \subseteq R)'
  BY ResultsAreHeld, PTL

\* A step that moves envelopes, and publishes none but requests, responses and
\* results of R, does not add a result.
LEMMA HeldChannels ==
  ASSUME NEW R, HoldsOnly(R), UNCHANGED aggResults,
         ChannelsCarry(Carrying(R))',
         \A n \in Node : \/ loop'[n] = loop[n]
                        \/ loop'[n] = None
                        \/ loop'[n].do \notin {"store", "broadcast"}
  PROVE  HoldsOnly(R)'
  BY DEF HoldsOnly, Carrying

LEMMA PublishedIsHeld ==
  ASSUME NEW R, HoldsOnly(R), NEW n \in Node, NEW to \in SUBSET Node,
         NEW env \in Carrying(R), Publish(n, to, env), up' = up
  PROVE  ChannelsCarry(Carrying(R))'
<1>1. \A M : ChannelsCarry(M) /\ env \in M => ChannelsCarry(M)'
  BY PublishType
<1>2. PICK M : M = Carrying(R)
  OBVIOUS
<1>3. ChannelsCarry(M)'
  BY <1>1, <1>2 DEF HoldsOnly
<1>4. QED
  BY <1>2, <1>3 DEF Carrying

LEMMA MovedIsHeld ==
  ASSUME NEW R, HoldsOnly(R), \A M : ChannelsCarry(M) => ChannelsCarry(M)'
  PROVE  ChannelsCarry(Carrying(R))'
<1>1. PICK M : M = Carrying(R)
  OBVIOUS
<1>2. ChannelsCarry(M)'
  BY <1>1 DEF HoldsOnly
<1>3. QED
  BY <1>1, <1>2 DEF Carrying

LEMMA TakenIsHeld ==
  ASSUME NEW R, HoldsOnly(R), NEW n \in Node, Received(n), inCh' = Consume(n),
         UNCHANGED <<up, net>>
  PROVE  ChannelsCarry(Carrying(R))' /\ Head(inCh[n]) \in Carrying(R)
<1>1. \A M : ChannelsCarry(M) => ChannelsCarry(M)' /\ Head(inCh[n]) \in M
  BY ConsumeType DEF Received
<1>2. QED
  BY <1>1, MovedIsHeld DEF HoldsOnly

\* A response carries no result.
LEMMA ResponseIsHeld ==
  ASSUME IInv, NEW R, HoldsOnly(R), NEW n \in Node, NEW job \in Job, up' = up,
         PublishSignResponse(n, job)
  PROVE  ChannelsCarry(Carrying(R))'
<1>1. CASE key[n] # NoKey
  <2> DEFINE env == SignResponse(job.sid, job.message, job.request, n, key[n])
  <2>1. key[n] \in KeyValue
    BY <1>1 DEF IInv, KeysOK
  <2>2. env \in Carrying(R)
    BY <2>1 DEF SignResponse, Job, Carrying, ResponseEnvelope
  <2>3. Publish(n, {Coordinator}, env)
    BY <1>1 DEF PublishSignResponse
  <2>4. QED
    BY <2>2, <2>3, PublishedIsHeld, SigningAssumption
<1>2. CASE key[n] = NoKey
  BY <1>2 DEF PublishSignResponse, HoldsOnly, ChannelsCarry, Carrying
<1>3. QED
  BY <1>1, <1>2

\* A main loop that handles an envelope adds no result, but for Aggregate.
LEMMA MainLoopAddsNoResult ==
  ASSUME IInv, NEW R, HoldsOnly(R), NEW n \in Node, MainLoop(n), ~Aggregate(n)
  PROVE  HoldsOnly(R)'
<1>1. CASE OnSignRequest(n)
  <2>1. ChannelsCarry(Carrying(R))'
    BY <1>1, TakenIsHeld DEF OnSignRequest, Handles
  <2>2. \A p \in Node : \/ loop'[p] = loop[p]
                       \/ loop'[p].do \notin {"store", "broadcast"}
    BY <1>1 DEF OnSignRequest, IInv, LoopsOK
  <2>3. UNCHANGED aggResults
    BY <1>1 DEF OnSignRequest, nodeVars
  <2>4. QED
    BY <2>1, <2>2, <2>3, HeldChannels
<1>2. CASE QueueRequest(n)
  <2>1. /\ UNCHANGED <<aggResults, up, net, inCh>>
        /\ \A p \in Node : loop'[p] = loop[p] \/ loop'[p] = None
    BY <1>2 DEF QueueRequest, IInv, LoopsOK, transportVars
  <2>2. ChannelsCarry(Carrying(R))'
    BY <2>1 DEF HoldsOnly, ChannelsCarry, Carrying
  <2>3. QED
    BY <2>1, <2>2, HeldChannels
<1>3. CASE RespondToRequest(n)
  <2>1. loop[n].job \in Job
    BY <1>3, JobIsAnswer DEF RespondToRequest
  <2>2. ChannelsCarry(Carrying(R))'
    BY <1>3, <2>1, ResponseIsHeld DEF RespondToRequest
  <2>3. /\ UNCHANGED aggResults
        /\ \A p \in Node : loop'[p] = loop[p] \/ loop'[p] = None
    BY <1>3 DEF RespondToRequest, nodeVars, IInv, LoopsOK
  <2>4. QED
    BY <2>2, <2>3, HeldChannels
<1>4. CASE OnSignResponse(n)
  <2>1. ChannelsCarry(Carrying(R))'
    BY <1>4, TakenIsHeld DEF OnSignResponse, Handles
  <2>2. \A p \in Node : \/ loop'[p] = loop[p]
                       \/ loop'[p].do \notin {"store", "broadcast"}
    BY <1>4 DEF OnSignResponse, IInv, LoopsOK
  <2>3. UNCHANGED aggResults
    BY <1>4 DEF OnSignResponse, nodeVars
  <2>4. QED
    BY <2>1, <2>2, <2>3, HeldChannels
<1>5. CASE StoreResult(n)
  <2>1. loop[n].result \in R /\ loop[n] \in Concluding
    BY <1>5, JobIsConclusion DEF HoldsOnly, StoreResult
  <2>2. \A p \in Node, s \in Session : aggResults'[p][s] \in R \cup {None}
    BY <1>5, <2>1 DEF StoreResult, StoreAggregateResult, HoldsOnly, IInv, ResultsOK
  <2>3. ASSUME NEW p \in Node, loop'[p] # None, loop'[p].do \in {"store", "broadcast"}
        PROVE  loop'[p].result \in R
    <3>1. CASE p = n
      BY <1>5, <2>1, <3>1 DEF StoreResult, IInv, LoopsOK, Concluding
    <3>2. CASE p # n
      BY <1>5, <2>3, <3>2 DEF StoreResult, HoldsOnly, IInv, LoopsOK
    <3>3. QED
      BY <3>1, <3>2
  <2>4. ChannelsCarry(Carrying(R))'
    BY <1>5 DEF StoreResult, transportVars, HoldsOnly, ChannelsCarry, Carrying
  <2>5. QED
    BY <2>2, <2>3, <2>4 DEF HoldsOnly, Carrying
<1>6. CASE BroadcastResult(n)
  <2>1. loop[n].result \in Carrying(R)
    BY <1>6 DEF HoldsOnly, BroadcastResult, Carrying
  <2>2. ChannelsCarry(Carrying(R))'
    BY <1>6, <2>1, PublishedIsHeld DEF BroadcastResult
  <2>3. /\ UNCHANGED aggResults
        /\ \A p \in Node : loop'[p] = loop[p] \/ loop'[p] = None
    BY <1>6 DEF BroadcastResult, nodeVars, IInv, LoopsOK
  <2>4. QED
    BY <2>2, <2>3, HeldChannels
<1>7. CASE OnAggResult(n)
  <2>1. ChannelsCarry(Carrying(R))' /\ Head(inCh[n]) \in Carrying(R)
    BY <1>7, TakenIsHeld DEF OnAggResult, Handles
  <2>2. Head(inCh[n]) \in R
    BY <1>7, <2>1 DEF OnAggResult, Handles, Carrying, RequestEnvelope, ResponseEnvelope
  <2>3. \A p \in Node, s \in Session : aggResults'[p][s] \in R \cup {None}
    BY <1>7, <2>2 DEF OnAggResult, StoreAggregateResult, HoldsOnly, IInv, ResultsOK
  <2>4. UNCHANGED loop
    BY <1>7 DEF OnAggResult
  <2>5. QED
    BY <2>1, <2>3, <2>4 DEF HoldsOnly, Carrying
<1>8. QED
  BY <1>1, <1>2, <1>3, <1>4, <1>5, <1>6, <1>7 DEF MainLoop

\* Nobody else adds a result.
LEMMA OthersAddNoResult ==
  ASSUME IInv, NEW R, HoldsOnly(R), [Next]_vars, \A n \in Node : ~MainLoop(n)
  PROVE  HoldsOnly(R)'
<1>1. CASE UNCHANGED <<transportVars, aggResults, loop>>
  <2>1. ChannelsCarry(Carrying(R))'
    BY <1>1 DEF transportVars, HoldsOnly, ChannelsCarry, Carrying
  <2>2. QED
    BY <1>1, <2>1, HeldChannels
<1>2. ASSUME NEW r \in submitting, PublishSignRequest(r)
      PROVE  HoldsOnly(R)'
  <2> DEFINE env == SignRequest(requests[r].sid, requests[r].message, r)
  <2>1. /\ requests[r] \in [sid : Session, message : Payload]
        /\ r \in Request
    <3>1. r \in DOMAIN requests
      BY DEF IInv, RequestsOK
    <3>2. \A S : requests \in Seq(S) => requests[r] \in S
      BY <3>1
    <3>3. r \in Request
      BY <3>1, SigningAssumption DEF IInv, RequestsOK, Request
    <3>4. QED
      BY <3>2, <3>3 DEF IInv, RequestsOK
  <2>2. env \in Carrying(R)
    BY <2>1 DEF SignRequest, RequestEnvelope, Carrying
  <2>3. ChannelsCarry(Carrying(R))'
    BY <1>2, <2>2, PublishedIsHeld, SigningAssumption DEF PublishSignRequest
  <2>4. UNCHANGED <<aggResults, loop>>
    BY <1>2 DEF PublishSignRequest, nodeVars
  <2>5. QED
    BY <2>3, <2>4, HeldChannels
<1>3. ASSUME NEW n \in Node, NEW job \in signing[n], PublishLocalSign(n, job)
      PROVE  HoldsOnly(R)'
  <2>1. job \in Job
    BY DEF IInv, QueuesOK
  <2>2. ChannelsCarry(Carrying(R))'
    BY <1>3, <2>1, ResponseIsHeld DEF PublishLocalSign
  <2>3. UNCHANGED <<aggResults, loop>>
    BY <1>3 DEF PublishLocalSign, nodeVars
  <2>4. QED
    BY <2>2, <2>3, HeldChannels
<1>4. ASSUME NEW n \in Node, Crash(n)
      PROVE  HoldsOnly(R)'
  <2>1. \A M : ChannelsCarry(M) => ChannelsCarry(M)'
    BY <1>4, StopProcessType DEF Crash
  <2>2. ChannelsCarry(Carrying(R))'
    BY <2>1, MovedIsHeld
  <2>3. \A p \in Node, s \in Session : aggResults'[p][s] \in R \cup {None}
    BY <1>4 DEF Crash, HoldsOnly, IInv, ResultsOK
  <2>4. \A p \in Node : loop'[p] = loop[p] \/ loop'[p] = None
    BY <1>4 DEF Crash, IInv, LoopsOK
  <2>5. QED
    BY <2>2, <2>3, <2>4 DEF HoldsOnly, Carrying
<1>5. CASE Transfer \/ Loss
  <2>1. \A M : ChannelsCarry(M) => ChannelsCarry(M)'
    BY <1>5, ReadLoopType, LoseFrameType DEF Transfer, Loss
  <2>2. ChannelsCarry(Carrying(R))'
    BY <2>1, MovedIsHeld
  <2>3. UNCHANGED <<aggResults, loop>>
    BY <1>5 DEF Transfer, Loss, nodeVars
  <2>4. QED
    BY <2>2, <2>3, HeldChannels
<1>6. CASE Operator
  <2>1. UNCHANGED <<transportVars, aggResults, loop>>
    BY <1>6 DEF Operator, SubmitSignRequest, SetAutoSign, SubmitLocalSign, nodeVars
  <2>2. QED
    BY <1>1, <2>1
<1>7. ASSUME NEW n \in Node, LearnKey(n) \/ BecomeReady(n)
      PROVE  HoldsOnly(R)'
  BY <1>1, <1>7 DEF LearnKey, BecomeReady
<1>8. CASE UNCHANGED vars
  BY <1>1, <1>8 DEF vars, nodeVars
<1>9. QED
  BY <1>2, <1>3, <1>4, <1>5, <1>6, <1>7, <1>8 DEF Next

\* No step but Aggregate adds a result.
LEMMA ResultsStay ==
  ASSUME IInv, [Next]_vars, \A n \in Node : ~Aggregate(n)
  PROVE  Results' \subseteq Results
<1>1. PICK R : R = Results
  OBVIOUS
<1>2. HoldsOnly(R)
  BY <1>1, HoldsItsResults
<1>3. HoldsOnly(R)'
  <2>1. CASE \E n \in Node : MainLoop(n)
    BY <1>2, <2>1, MainLoopAddsNoResult
  <2>2. CASE \A n \in Node : ~MainLoop(n)
    BY <1>2, <2>2, OthersAddNoResult
  <2>3. QED
    BY <2>1, <2>2
<1>4. HoldsOnly(R)' => Results' \subseteq R
  BY ResultsAreHeldNext
<1>5. QED
  BY <1>1, <1>3, <1>4

\* The result an aggregation leads to.
Aggregated(n) ==
  AggResult(loop[n].sid, loop[n].session.message, loop[n].session.request,
            Responders(loop[n].session), key[n])

\* Aggregate adds one result, if any.
LEMMA AggregateAddsOne ==
  ASSUME IInv, NEW n \in Node, Aggregate(n)
  PROVE  \/ Results' \subseteq Results
         \/ /\ VerifyAggregate(loop[n].session, key[n])
            /\ Results' \subseteq Results \cup {Aggregated(n)}
<1>1. PICK R, x : R = Results /\ x = Aggregated(n)
  OBVIOUS
<1>2. HoldsOnly(R)
  BY <1>1, HoldsItsResults
<1>3. UNCHANGED aggResults /\ ChannelsCarry(Carrying(R))'
  BY <1>2
     DEF Aggregate, nodeVars, transportVars, HoldsOnly, ChannelsCarry, Carrying
<1>4. CASE VerifyAggregate(loop[n].session, key[n])
  <2>1. loop' = [loop EXCEPT ![n] = [do |-> "store", result |-> x]]
    BY <1>1, <1>4 DEF Aggregate, Aggregated
  <2> DEFINE S == R \cup {x}
  <2>2. ChannelsCarry(Carrying(S))'
    <3>1. Carrying(R) \subseteq Carrying(S)
      BY DEF Carrying
    <3>2. ASSUME NEW M, NEW L, M \subseteq L, ChannelsCarry(M)'
          PROVE  ChannelsCarry(L)'
      BY <3>2 DEF ChannelsCarry
    <3>3. PICK M, L : M = Carrying(R) /\ L = Carrying(S)
      OBVIOUS
    <3>4. ChannelsCarry(L)'
      BY <1>3, <3>1, <3>2, <3>3 DEF Carrying
    <3>5. QED
      BY <3>3, <3>4 DEF Carrying
  <2>3. \A p \in Node, s \in Session : aggResults'[p][s] \in S \cup {None}
    BY <1>2, <1>3 DEF HoldsOnly
  <2>4. ASSUME NEW p \in Node, loop'[p] # None, loop'[p].do \in {"store", "broadcast"}
        PROVE  loop'[p].result \in S
    BY <1>2, <2>1, <2>4 DEF HoldsOnly, IInv, LoopsOK
  <2>5. HoldsOnly(S)'
    BY <2>2, <2>3, <2>4 DEF HoldsOnly, Carrying
  <2>6. Results' \subseteq S
    BY <2>5, ResultsAreHeldNext
  <2>7. QED
    BY <1>1, <1>4, <2>6
<1>5. CASE ~VerifyAggregate(loop[n].session, key[n])
  <2>1. \A p \in Node : loop'[p] = loop[p] \/ loop'[p] = None
    BY <1>5 DEF Aggregate, IInv, LoopsOK
  <2>2. HoldsOnly(R)'
    BY <1>2, <1>3, <2>1, HeldChannels
  <2>3. QED
    BY <1>1, <2>2, ResultsAreHeldNext
<1>6. QED
  BY <1>4, <1>5

\* The coordinator, while it runs, has a session for every request; a session
\* that has a result of its request is aggregated, and one that the main loop is
\* about to aggregate has no result.
OnceInv ==
  /\ up[Coordinator] =>
       \A r \in DOMAIN requests : sessions[requests[r].sid] # None
  /\ \A x \in Results :
       (sessions[x.sid] # None /\ sessions[x.sid].request = x.request)
         => sessions[x.sid].aggregated
  /\ (loop[Coordinator] # None /\ loop[Coordinator].do = "aggregate")
       => \A x \in Results : x.request # loop[Coordinator].session.request
  /\ OneResultPerRequest

LEMMA InitEstablishesOnceInv == Init => OnceInv
<1> SUFFICES ASSUME Init PROVE OnceInv
  OBVIOUS
<1>1. Results = {}
  <2>1. \A n \in Node : Inbound(n) = {}
    BY DEF Init, Inbound
  <2>2. HoldsOnly({})
    BY TransportAssumption DEF Init, HoldsOnly, ChannelsCarry
  <2>3. QED
    BY <2>2, ResultsAreHeld
<1>2. requests = <<>> /\ loop[Coordinator] = None
  BY SigningAssumption DEF Init
<1>3. QED
  BY <1>1, <1>2 DEF OnceInv, OneResultPerRequest

\* Requests and results name sessions, and a result the one of its request.
LEMMA SessionsAreNamed ==
  ASSUME IInv
  PROVE  /\ \A r \in DOMAIN requests : requests[r].sid \in Session
         /\ \A x \in Results : /\ x.sid \in Session
                              /\ x.request \in DOMAIN requests
                              /\ requests[x.request].sid = x.sid
<1>1. ASSUME NEW r \in DOMAIN requests
      PROVE  requests[r].sid \in Session
  <2>1. \A S : requests \in Seq(S) => requests[r] \in S
    OBVIOUS
  <2>2. QED
    BY <2>1 DEF IInv, RequestsOK
<1>2. ASSUME NEW x \in Results
      PROVE  /\ x.sid \in Session
             /\ x.request \in DOMAIN requests
             /\ requests[x.request].sid = x.sid
  <2>1. x \in GoodResult
    BY IInvImpliesResultsAreGood
  <2>2. x.sid \in Session /\ Requested(x.sid, x.message, x.request)
    BY <2>1 DEF GoodResult, Result
  <2>3. QED
    BY <2>2 DEF Requested
<1>3. QED
  BY <1>1, <1>2

\* A step that adds no result, submits nothing, leaves the sessions alone and
\* begins no aggregation.
LEMMA OnceInvStays ==
  ASSUME OnceInv, Results' \subseteq Results, UNCHANGED <<requests, sessions>>,
         up'[Coordinator] => up[Coordinator],
         \/ loop'[Coordinator] = loop[Coordinator]
         \/ loop'[Coordinator] = None
         \/ loop'[Coordinator].do # "aggregate"
  PROVE  OnceInv'
<1>1. OneResultPerRequest'
  BY DEF OnceInv, OneResultPerRequest
<1>2. QED
  BY <1>1 DEF OnceInv

LEMMA SubmitKeepsOnceInv ==
  ASSUME IInv, OnceInv, NEW s \in Session, NEW m \in Submitted, SubmitSignRequest(s, m),
         Results' \subseteq Results, IInv'
  PROVE  OnceInv'
<1>1. PICK r : /\ r = Len(requests) + 1
               /\ sessions' = [sessions EXCEPT ![s] = NewSession(m, r)]
               /\ r \notin DOMAIN requests
               /\ \A q \in DOMAIN requests : requests'[q] = requests[q]
               /\ DOMAIN requests' = DOMAIN requests \cup {r}
               /\ requests'[r].sid = s
  <2>1. PICK S, a : /\ requests \in Seq(S) /\ a \in S
                    /\ a = [sid |-> s, message |-> m]
    BY SigningAssumption DEF IInv, RequestsOK, Payload
  <2>2. PICK r : r = Len(requests) + 1
    OBVIOUS
  <2>3. requests' = Append(requests, a) /\ Len(requests') = r
    BY <2>1, <2>2 DEF SubmitSignRequest
  <2>4. sessions' = [sessions EXCEPT ![s] = NewSession(m, r)]
    BY <2>3 DEF SubmitSignRequest
  <2>5. /\ r \notin DOMAIN requests
        /\ \A q \in DOMAIN requests : requests'[q] = requests[q]
        /\ DOMAIN requests' = DOMAIN requests \cup {r}
        /\ requests'[r] = a
    BY <2>1, <2>2, <2>3
  <2>6. a.sid = s
    BY <2>1
  <2>7. QED
    BY <2>2, <2>4, <2>5, <2>6
<1>2. \A x \in Results : x.request \in DOMAIN requests /\ x.sid \in Session
  BY SessionsAreNamed
<1>3. sessions'[s] # None /\ sessions'[s].request = r
  <2>1. NewSession(m, r) \in SessionState
    <3>1. m \in Payload /\ r \in Request
      BY <1>1, SigningAssumption
         DEF SubmitSignRequest, IInv, RequestsOK, Payload, Request
    <3>2. QED
      BY <3>1 DEF NewSession, SessionState
  <2>2. sessions'[s] = NewSession(m, r)
    BY <1>1 DEF IInv, SessionsOK
  <2>3. NewSession(m, r).request = r
    BY DEF NewSession
  <2>4. QED
    BY <2>1, <2>2, <2>3, NoneIsNoSession
<1>4. \A t \in Session : t # s => sessions'[t] = sessions[t]
  BY <1>1 DEF IInv, SessionsOK
<1>5. up'[Coordinator] => \A q \in DOMAIN requests' : sessions'[requests'[q].sid] # None
  <2>1. \A q \in DOMAIN requests : requests[q].sid \in Session
    BY SessionsAreNamed
  <2>2. up' = up
    BY DEF SubmitSignRequest, transportVars
  <2>3. QED
    BY <1>1, <1>3, <1>4, <2>1, <2>2 DEF OnceInv
<1>6. ASSUME NEW x \in Results', sessions'[x.sid] # None, sessions'[x.sid].request = x.request
      PROVE  sessions'[x.sid].aggregated
  BY <1>1, <1>2, <1>3, <1>4, <1>6 DEF OnceInv
<1>7. UNCHANGED loop
  BY DEF SubmitSignRequest
<1>8. OneResultPerRequest'
  BY DEF OnceInv, OneResultPerRequest
<1>9. QED
  BY <1>5, <1>6, <1>7, <1>8 DEF OnceInv

\* The coordinator has a session for every request it may take, so that none is
\* created a second time.
LEMMA OnSignRequestBeginsNothing ==
  ASSUME IInv, OnceInv, NEW n \in Node, OnSignRequest(n)
  PROVE  /\ UNCHANGED <<up, requests, sessions>>
         /\ \/ loop'[Coordinator] = loop[Coordinator]
            \/ /\ loop[Coordinator] = None
               /\ loop'[Coordinator].do # "aggregate"
<1> DEFINE m == Head(inCh[n])
<1>1. m \in GoodRequest
  <2>1. m \in GoodEnvelope /\ m.type = "SignRequest"
    BY TakeEnvelope DEF OnSignRequest, Handles
  <2>2. QED
    BY <2>1 DEF GoodEnvelope, GoodResponse, GoodResult, ResponseEnvelope, Result
<1>2. ~(n = Coordinator /\ sessions[m.sid] = None)
  <2>1. m.request \in DOMAIN requests /\ requests[m.request].sid = m.sid
    BY <1>1 DEF GoodRequest, Requested
  <2>2. QED
    BY <2>1 DEF OnceInv, OnSignRequest, Handles, Received
<1>3. UNCHANGED <<up, requests, sessions>>
  BY <1>2 DEF OnSignRequest
<1>4. \/ loop'[Coordinator] = loop[Coordinator]
      \/ loop[Coordinator] = None /\ loop'[Coordinator].do # "aggregate"
  BY SigningAssumption DEF OnSignRequest, Handles, IInv, LoopsOK
<1>5. QED
  BY <1>3, <1>4

LEMMA OnSignRequestKeepsOnceInv ==
  ASSUME IInv, OnceInv, NEW n \in Node, OnSignRequest(n), Results' \subseteq Results
  PROVE  OnceInv'
BY OnSignRequestBeginsNothing, OnceInvStays

LEMMA OnSignResponseKeepsOnceInv ==
  ASSUME IInv, OnceInv, NEW n \in Node, OnSignResponse(n), Results' \subseteq Results
  PROVE  OnceInv'
<1> DEFINE m == Head(inCh[n])
           session == sessions[m.sid]
           response == [message |-> m.message, key |-> m.key]
           added == [session EXCEPT !.responses[m.signer] = response]
<1>1. m \in GoodResponse
  <2>1. m \in GoodEnvelope /\ m.type = "SignResponse"
    BY TakeEnvelope DEF OnSignResponse, Handles
  <2>2. QED
    BY <2>1 DEF GoodEnvelope, GoodRequest, GoodResult, RequestEnvelope, Result
<1>2. UNCHANGED <<requests, up>>
  BY DEF OnSignResponse
<1>3. OneResultPerRequest'
  BY DEF OnceInv, OneResultPerRequest
<1>4. CASE n = Coordinator /\ Accepts(session, m)
  <2>1. m.sid \in Session
    BY <1>1 DEF GoodResponse, ResponseEnvelope
  <2>2. session \in GoodSession(m.sid) /\ ~session.aggregated /\ session # None
    BY <1>4, <2>1 DEF IInv, SessionsOK, Accepts
  <2>3. /\ sessions' = [sessions EXCEPT ![m.sid] = added]
        /\ \/ loop'[Coordinator] = loop[Coordinator]
           \/ loop'[Coordinator] = [do |-> "aggregate", sid |-> m.sid, session |-> added]
    BY <1>4, SigningAssumption DEF OnSignResponse, IInv, LoopsOK
  <2>4. /\ added # None
        /\ added.request = session.request
        /\ added.aggregated = session.aggregated
    <3>1. added \in GoodSession(m.sid)
      BY <1>1, <1>4, <2>2, AcceptedIsGood
    <3>2. added # None
      BY <3>1, NoneIsNoSession DEF GoodSession
    <3>3. QED
      BY <2>2, <3>2 DEF GoodSession, SessionState
  <2>5. /\ sessions'[m.sid] = added
        /\ \A s \in Session \ {m.sid} : sessions'[s] = sessions[s]
    BY <2>1, <2>3 DEF IInv, SessionsOK
  <2>6. up'[Coordinator] =>
          \A r \in DOMAIN requests' : sessions'[requests'[r].sid] # None
    BY <1>2, <2>4, <2>5, SessionsAreNamed DEF OnceInv
  <2>7. ASSUME NEW x \in Results', sessions'[x.sid] # None,
               sessions'[x.sid].request = x.request
        PROVE  sessions'[x.sid].aggregated
    <3>1. x \in Results
      BY <2>7
    <3>2. CASE x.sid = m.sid
      <4>1. session.request = x.request
        BY <2>4, <2>5, <2>7, <3>2
      <4>2. session.aggregated
        BY <2>2, <3>1, <3>2, <4>1 DEF OnceInv
      <4>3. QED
        BY <2>2, <4>2
    <3>3. CASE x.sid # m.sid
      BY <2>5, <2>7, <3>1, <3>3, SessionsAreNamed DEF OnceInv
    <3>4. QED
      BY <3>2, <3>3
  <2>8. ASSUME NEW x \in Results
        PROVE  x.request # session.request
    <3> SUFFICES ASSUME x.request = session.request PROVE FALSE
      OBVIOUS
    <3>1. requests[x.request].sid = x.sid
      BY SessionsAreNamed
    <3>2. requests[session.request].sid = m.sid
      BY <2>2 DEF GoodSession, Requested
    <3>3. QED
      BY <2>2, <3>1, <3>2 DEF OnceInv
  <2>9. ASSUME loop'[Coordinator] # None, loop'[Coordinator].do = "aggregate",
               NEW x \in Results'
        PROVE  x.request # loop'[Coordinator].session.request
    <3>1. CASE loop'[Coordinator] = loop[Coordinator]
      BY <2>9, <3>1 DEF OnceInv
    <3>2. CASE loop'[Coordinator] =
                 [do |-> "aggregate", sid |-> m.sid, session |-> added]
      <4>1. loop'[Coordinator].session = added
        BY <3>2
      <4>2. QED
        BY <2>4, <2>8, <4>1
    <3>3. QED
      BY <2>3, <3>1, <3>2
  <2>10. QED
    BY <1>3, <2>6, <2>7, <2>9 DEF OnceInv
<1>5. CASE ~(n = Coordinator /\ Accepts(session, m))
  BY <1>2, <1>5, OnceInvStays DEF OnSignResponse
<1>6. QED
  BY <1>4, <1>5

LEMMA AggregateKeepsOnceInv ==
  ASSUME IInv, OnceInv, NEW n \in Node, Aggregate(n)
  PROVE  OnceInv'
<1> DEFINE s == loop[n].sid
           state == loop[n].session
<1>1. n = Coordinator /\ loop[n] \in Aggregating
  BY JobIsAggregation DEF Aggregate
<1>2. /\ s \in Session
      /\ sessions[s] \in GoodSession(s)
      /\ loop[Coordinator] # None /\ loop[Coordinator].do = "aggregate"
  BY <1>1 DEF Aggregating, Aggregate
<1>3. UNCHANGED <<requests, up>>
  BY DEF Aggregate, transportVars
<1>4. \A x \in Results : x.request # state.request
  BY <1>1, <1>2 DEF OnceInv
<1>5. loop'[Coordinator] = None \/ loop'[Coordinator].do # "aggregate"
  BY <1>1, SigningAssumption DEF Aggregate, IInv, LoopsOK
<1>6. /\ \A t \in Session \ {s} : sessions'[t] = sessions[t]
      /\ sessions'[s] # None
      /\ sessions'[s].request = sessions[s].request
      /\ sessions[s].aggregated => sessions'[s].aggregated
      /\ (VerifyAggregate(state, key[n]) /\ sessions[s].request = state.request)
           => sessions'[s].aggregated
  <2>1. \/ sessions' = sessions
        \/ sessions' = [sessions EXCEPT ![s].aggregated = TRUE]
    BY DEF Aggregate, MarkAggregated
  <2>2. (VerifyAggregate(state, key[n]) /\ sessions[s].request = state.request)
          => sessions' = [sessions EXCEPT ![s].aggregated = TRUE]
    BY DEF Aggregate, MarkAggregated
  <2>3. sessions[s] \in SessionState
    BY <1>2 DEF GoodSession
  <2>4. [sessions[s] EXCEPT !.aggregated = TRUE] \in SessionState
    BY <2>3 DEF SessionState
  <2>5. CASE sessions' = sessions
    <3>1. sessions[s] # None
      BY <2>3, NoneIsNoSession
    <3>2. (VerifyAggregate(state, key[n]) /\ sessions[s].request = state.request)
            => sessions[s].aggregated
      BY <1>2, <2>2, <2>3, <2>5 DEF IInv, SessionsOK, SessionState
    <3>3. QED
      BY <2>5, <3>1, <3>2
  <2>6. CASE sessions' = [sessions EXCEPT ![s].aggregated = TRUE]
    <3>1. /\ sessions'[s] = [sessions[s] EXCEPT !.aggregated = TRUE]
          /\ \A t \in Session \ {s} : sessions'[t] = sessions[t]
      BY <1>2, <2>6 DEF IInv, SessionsOK
    <3>2. sessions'[s] # None
      BY <2>4, <3>1, NoneIsNoSession
    <3>3. sessions'[s].aggregated /\ sessions'[s].request = sessions[s].request
      BY <2>3, <3>1 DEF SessionState
    <3>4. QED
      BY <3>1, <3>2, <3>3
  <2>7. QED
    BY <2>1, <2>5, <2>6
<1>7. up'[Coordinator] => \A r \in DOMAIN requests' : sessions'[requests'[r].sid] # None
  BY <1>3, <1>6, SessionsAreNamed DEF OnceInv
<1>8. ASSUME NEW x \in Results, sessions'[x.sid] # None,
             sessions'[x.sid].request = x.request
      PROVE  sessions'[x.sid].aggregated
  <2>1. CASE x.sid = s
    <3>1. sessions[s] # None
      BY <1>2, NoneIsNoSession DEF GoodSession
    <3>2. QED
      BY <1>6, <1>8, <2>1, <3>1 DEF OnceInv
  <2>2. CASE x.sid # s
    BY <1>6, <1>8, <2>2, SessionsAreNamed DEF OnceInv
  <2>3. QED
    BY <2>1, <2>2
<1>9. CASE Results' \subseteq Results
  <2>1. OneResultPerRequest'
    BY <1>9 DEF OnceInv, OneResultPerRequest
  <2>2. QED
    BY <1>5, <1>7, <1>8, <1>9, <2>1 DEF OnceInv
<1>10. CASE VerifyAggregate(state, key[n]) /\ Results' \subseteq Results \cup {Aggregated(n)}
  <2>1. PICK a : a = Aggregated(n) /\ a.sid = s /\ a.request = state.request
    <3>1. Aggregated(n).sid = s /\ Aggregated(n).request = state.request
      BY DEF Aggregated, AggResult
    <3>2. QED
      BY <3>1
  <2>2. OneResultPerRequest'
    BY <1>4, <1>10, <2>1 DEF OnceInv, OneResultPerRequest
  <2>3. sessions'[a.sid].request = a.request => sessions'[a.sid].aggregated
    BY <1>6, <1>10, <2>1
  <2>4. QED
    BY <1>5, <1>7, <1>8, <1>10, <2>1, <2>2, <2>3 DEF OnceInv
<1>11. QED
  BY <1>9, <1>10, AggregateAddsOne

LEMMA NextPreservesOnceInv == IInv /\ OnceInv /\ [Next]_vars => OnceInv'
<1> SUFFICES ASSUME IInv, OnceInv, [Next]_vars PROVE OnceInv'
  OBVIOUS
<1>1. IInv'
  BY NextPreservesIInv
<1>2. CASE \E n \in Node : Aggregate(n)
  BY <1>2, AggregateKeepsOnceInv
<1>3. CASE \A n \in Node : ~Aggregate(n)
  <2>1. Results' \subseteq Results
    BY <1>3, ResultsStay
  <2>2. ASSUME NEW n \in Node, MainLoop(n)
        PROVE  OnceInv'
    <3>1. CASE OnSignRequest(n)
      BY <2>1, <3>1, OnSignRequestKeepsOnceInv
    <3>2. CASE OnSignResponse(n)
      BY <2>1, <3>2, OnSignResponseKeepsOnceInv
    <3>3. CASE \/ QueueRequest(n) \/ RespondToRequest(n) \/ StoreResult(n)
               \/ BroadcastResult(n) \/ OnAggResult(n)
      <4>1. UNCHANGED <<requests, sessions, up>>
        BY <3>3 DEF QueueRequest, RespondToRequest, StoreResult, BroadcastResult,
                    OnAggResult, roundVars, transportVars
      <4>2. \/ loop'[Coordinator] = loop[Coordinator]
            \/ loop'[Coordinator] = None
            \/ loop'[Coordinator].do # "aggregate"
        <5>1. CASE StoreResult(n)
          <6>1. loop[n] \in Concluding
            BY <5>1, JobIsConclusion DEF StoreResult
          <6>2. QED
            BY <5>1, <6>1, SigningAssumption DEF StoreResult, Concluding, IInv, LoopsOK
        <5>2. CASE ~StoreResult(n)
          BY <3>3, <5>2, SigningAssumption
             DEF QueueRequest, RespondToRequest, BroadcastResult, OnAggResult, IInv,
                 LoopsOK
        <5>3. QED
          BY <5>1, <5>2
      <4>3. QED
        BY <2>1, <4>1, <4>2, OnceInvStays
    <3>4. QED
      BY <1>3, <2>2, <3>1, <3>2, <3>3 DEF MainLoop
  <2>3. ASSUME NEW s \in Session, NEW m \in Submitted, SubmitSignRequest(s, m)
        PROVE  OnceInv'
    BY <1>1, <2>1, <2>3, SubmitKeepsOnceInv
  <2>4. ASSUME NEW n \in Node, Crash(n)
        PROVE  OnceInv'
    <3>1. CASE n = Coordinator
      <4>1. /\ ~up'[Coordinator] /\ loop'[Coordinator] = None
            /\ \A s \in Session : sessions'[s] = None
        BY <2>4, <3>1 DEF Crash, StopProcess, IInv, ChannelsCarry, LoopsOK
      <4>2. \A x \in Results : x.sid \in Session
        BY SessionsAreNamed
      <4>3. OneResultPerRequest'
        BY <2>1 DEF OnceInv, OneResultPerRequest
      <4>4. QED
        BY <2>1, <4>1, <4>2, <4>3 DEF OnceInv
    <3>2. CASE n # Coordinator
      <4>1. /\ UNCHANGED <<requests, sessions>>
            /\ up'[Coordinator] = up[Coordinator]
            /\ loop'[Coordinator] = loop[Coordinator]
        BY <2>4, <3>2, SigningAssumption
           DEF Crash, StopProcess, IInv, ChannelsCarry, LoopsOK
      <4>2. QED
        BY <2>1, <4>1, OnceInvStays
    <3>3. QED
      BY <3>1, <3>2
  <2>5. CASE UNCHANGED <<up, requests, sessions, loop>>
    BY <2>1, <2>5, OnceInvStays
  <2>6. ASSUME NEW n \in Node, LearnKey(n) \/ BecomeReady(n)
        PROVE  UNCHANGED <<up, requests, sessions, loop>>
    BY <2>6 DEF LearnKey, BecomeReady, roundVars, transportVars
  <2>7. ASSUME NEW n \in Node, NEW job \in signing[n], PublishLocalSign(n, job)
        PROVE  UNCHANGED <<up, requests, sessions, loop>>
    BY <2>7 DEF PublishLocalSign
  <2>8. ASSUME NEW r \in submitting, PublishSignRequest(r)
        PROVE  UNCHANGED <<up, requests, sessions, loop>>
    BY <2>8 DEF PublishSignRequest
  <2>9. CASE Transfer \/ Loss \/ UNCHANGED vars
    <3>1. UNCHANGED <<up, requests, sessions, loop>>
      BY <2>9 DEF Transfer, Loss, ReadLoop, LoseFrame, vars, transportVars, roundVars
    <3>2. QED
      BY <2>5, <3>1
  <2>10. CASE Operator
    <3>1. ASSUME NEW n \in Manual, SetAutoSign(n)
          PROVE  UNCHANGED <<up, requests, sessions, loop>>
      BY <3>1 DEF SetAutoSign, roundVars, transportVars
    <3>2. ASSUME NEW n \in Manual, NEW s \in Session, NEW m \in Override,
                 SubmitLocalSign(n, s, m)
          PROVE  UNCHANGED <<up, requests, sessions, loop>>
      BY <3>2 DEF SubmitLocalSign, transportVars
    <3>3. QED
      BY <2>3, <2>5, <2>10, <3>1, <3>2 DEF Operator
  <2>11. QED
    BY <2>2, <2>4, <2>5, <2>6, <2>7, <2>8, <2>9, <2>10 DEF Next
<1>4. QED
  BY <1>2, <1>3

\* All nodes that have a result of a request have the same one, with the same
\* signers (onSignResponse, storeAggregateResult): a session is aggregated once,
\* though it may be replaced while the main loop aggregates a copy of it.
THEOREM OneResult == Spec => []OneResultPerRequest
<1>1. Init => OnceInv
  BY InitEstablishesOnceInv
<1>2. OnceInv => OneResultPerRequest
  BY DEF OnceInv
<1>3. QED
  BY <1>1, <1>2, NextPreservesOnceInv, IInvIsInvariant, PTL DEF Spec
------------------------------------------------------------------------------
(***************************************************************************)
(* Nothing of a signing round is lost on its way: every member answers     *)
(* every request, and the coordinator ends with the result of the request  *)
(* it handled last.  Both hold for every committee and every number of     *)
(* requests, as long as the inbound channels do not overflow: pushInbound  *)
(* drops what does not fit, and nothing is ever sent again.                *)
(***************************************************************************)

\* Node n has room in its inbound channel.
HasRoom(n) == Len(inCh[n]) < QueueCap

------------------------------------------------------------------------------
(***************************************************************************)
(* The coordinator's results.                                              *)
(***************************************************************************)
\* A main loop that has a result to store or to broadcast.
Concludes(l) == l # None /\ l.do \in {"store", "broadcast"}

IsResultOf(env, s) == env.type = "AggResult" /\ env.sid = s

\* The queue holds a result of session s.
HasResult(queue, s) == \E i \in DOMAIN queue : IsResultOf(queue[i], s)

\* The last one, if there is one, is of request r.
LastIs(queue, s, r) ==
  \A i \in DOMAIN queue :
    (/\ IsResultOf(queue[i], s)
     /\ \A j \in DOMAIN queue : j > i => ~IsResultOf(queue[j], s))
      => queue[i].request = r

\* The coordinator has a result of session s to store or to broadcast.
HasInHand(s) ==
  Concludes(loop[Coordinator]) /\ loop[Coordinator].result.sid = s

\* Only the coordinator makes results, so that all it receives are its own,
\* and come the way of the local copy.
ResultsComeFromCoordinator ==
  /\ \A n \in Node \ {Coordinator} : ~Concludes(loop[n])
  /\ \A f \in net : f.dst = Coordinator => f.env.type # "AggResult"

\* The result of session s that the coordinator stores or handles last is the one
\* of request r.
LastResultIs(s, r) ==
  /\ HasInHand(s) => loop[Coordinator].result.request = r
  /\ ~HasInHand(s) =>
       /\ LastIs(inCh[Coordinator], s, r)
       /\ \/ HasResult(inCh[Coordinator], s)
          \/ /\ aggResults[Coordinator][s] # None
             /\ aggResults[Coordinator][s].request = r

\* An aggregated session's result is the last one under its name, and a copy that
\* is still to be aggregated is of a session that is not, replaced or not.
CurrentInv ==
  /\ ResultsComeFromCoordinator
  /\ \A s \in Session :
       (sessions[s] # None /\ sessions[s].aggregated)
         => LastResultIs(s, sessions[s].request)
  /\ (loop[Coordinator] # None /\ loop[Coordinator].do = "aggregate")
       => LET s == loop[Coordinator].sid
          IN  sessions[s] # None => ~sessions[s].aggregated


LEMMA AppendResult ==
  ASSUME NEW S, NEW queue \in Seq(S), NEW env \in S, NEW s, NEW r
  PROVE  /\ IsResultOf(env, s) /\ env.request = r
              => LastIs(Append(queue, env), s, r) /\ HasResult(Append(queue, env), s)
         /\ ~IsResultOf(env, s) /\ LastIs(queue, s, r) => LastIs(Append(queue, env), s, r)
         /\ HasResult(queue, s) => HasResult(Append(queue, env), s)
<1> DEFINE n == Len(queue)
<1>1. /\ DOMAIN Append(queue, env) = 1 .. n + 1
      /\ DOMAIN queue = 1 .. n
      /\ n \in Nat
      /\ \A i \in 1 .. n : Append(queue, env)[i] = queue[i]
      /\ Append(queue, env)[n + 1] = env
  OBVIOUS
<1>2. CASE IsResultOf(env, s) /\ env.request = r
  BY <1>1, <1>2 DEF LastIs, HasResult
<1>3. CASE ~IsResultOf(env, s)
  BY <1>1, <1>3 DEF LastIs, HasResult
<1>4. HasResult(queue, s) => HasResult(Append(queue, env), s)
  BY <1>1 DEF HasResult
<1>5. QED
  BY <1>2, <1>3, <1>4

LEMMA TakeResult ==
  ASSUME NEW S, NEW queue \in Seq(S), queue # <<>>, NEW s, NEW r, LastIs(queue, s, r)
  PROVE  /\ LastIs(Tail(queue), s, r)
         /\ HasResult(queue, s) =>
              \/ HasResult(Tail(queue), s)
              \/ IsResultOf(Head(queue), s) /\ Head(queue).request = r
<1>1. PICK n \in Nat : n = Len(queue) /\ n > 0
  OBVIOUS
<1>2. /\ DOMAIN Tail(queue) = 1 .. n - 1
      /\ DOMAIN queue = 1 .. n
      /\ \A i \in 1 .. n - 1 : Tail(queue)[i] = queue[i + 1]
      /\ Head(queue) = queue[1]
  BY <1>1
<1>3. LastIs(Tail(queue), s, r)
  <2> SUFFICES ASSUME NEW i \in 1 .. n - 1, IsResultOf(queue[i + 1], s),
                      \A j \in 1 .. n - 1 : j > i => ~IsResultOf(queue[j + 1], s)
               PROVE  queue[i + 1].request = r
    BY <1>2 DEF LastIs
  <2>1. ASSUME NEW j \in 1 .. n, j > i + 1
        PROVE  ~IsResultOf(queue[j], s)
    <3>1. j - 1 \in 1 .. n - 1 /\ j - 1 > i /\ (j - 1) + 1 = j
      BY <2>1
    <3>2. QED
      BY <3>1
  <2>2. QED
    BY <1>2, <2>1 DEF LastIs
<1>4. ASSUME HasResult(queue, s), ~HasResult(Tail(queue), s)
      PROVE  IsResultOf(Head(queue), s) /\ Head(queue).request = r
  <2>1. ASSUME NEW j \in 2 .. n
        PROVE  ~IsResultOf(queue[j], s)
    <3>1. j - 1 \in 1 .. n - 1 /\ (j - 1) + 1 = j
      OBVIOUS
    <3>2. QED
      BY <1>2, <1>4, <3>1 DEF HasResult
  <2>2. IsResultOf(queue[1], s)
    BY <1>2, <1>4, <2>1 DEF HasResult
  <2>3. QED
    BY <1>1, <1>2, <2>1, <2>2 DEF LastIs
<1>5. QED
  BY <1>3, <1>4

\* A step that leaves the coordinator's results alone: it queues or takes none of
\* session s, and neither stores nor begins one.
LEMMA LastResultStays ==
  ASSUME IInv, NEW s, NEW r, LastResultIs(s, r),
         HasInHand(s)' <=> HasInHand(s),
         HasInHand(s) => loop'[Coordinator].result = loop[Coordinator].result,
         HasInHand(s) \/ aggResults'[Coordinator][s] = aggResults[Coordinator][s],
         \/ inCh'[Coordinator] = inCh[Coordinator]
         \/ \E env \in GoodEnvelope :
              /\ inCh'[Coordinator] = Append(inCh[Coordinator], env)
              /\ ~IsResultOf(env, s)
         \/ /\ inCh[Coordinator] # <<>>
            /\ inCh'[Coordinator] = Tail(inCh[Coordinator])
            /\ ~IsResultOf(Head(inCh[Coordinator]), s)
  PROVE  LastResultIs(s, r)'
<1>1. CASE HasInHand(s)
  BY <1>1 DEF LastResultIs
<1>2. CASE ~HasInHand(s)
  <2>1. PICK S : inCh[Coordinator] \in Seq(S) /\ S = GoodEnvelope
    BY SigningAssumption DEF IInv, ChannelsCarry
  <2>2. LastIs(inCh[Coordinator], s, r)
    BY <1>2 DEF LastResultIs
  <2>3. /\ LastIs(inCh'[Coordinator], s, r)
        /\ HasResult(inCh[Coordinator], s) => HasResult(inCh'[Coordinator], s)
    <3>1. CASE inCh'[Coordinator] = inCh[Coordinator]
      BY <2>2, <3>1
    <3>2. ASSUME NEW env \in S, inCh'[Coordinator] = Append(inCh[Coordinator], env),
                 ~IsResultOf(env, s)
          PROVE  /\ LastIs(inCh'[Coordinator], s, r)
                 /\ HasResult(inCh[Coordinator], s) => HasResult(inCh'[Coordinator], s)
      BY <2>1, <2>2, <3>2, AppendResult
    <3>3. CASE /\ inCh[Coordinator] # <<>>
               /\ inCh'[Coordinator] = Tail(inCh[Coordinator])
               /\ ~IsResultOf(Head(inCh[Coordinator]), s)
      BY <2>1, <2>2, <3>3, TakeResult
    <3>4. QED
      BY <2>1, <3>1, <3>2, <3>3
  <2>5. HasResult(inCh[Coordinator], s) \/ (/\ aggResults[Coordinator][s] # None
                                           /\ aggResults[Coordinator][s].request = r)
    BY <1>2 DEF LastResultIs
  <2>6. HasResult(inCh'[Coordinator], s) \/ (/\ aggResults'[Coordinator][s] # None
                                            /\ aggResults'[Coordinator][s].request = r)
    BY <1>2, <2>3, <2>5
  <2>7. QED
    BY <1>2, <2>3, <2>6 DEF LastResultIs, LastIs, HasResult
<1>3. QED
  BY <1>1, <1>2

\* What may happen to the coordinator's queue and loop in a step that has nothing
\* to do with results.
NoResultAtCoordinator ==
  /\ \/ inCh'[Coordinator] = inCh[Coordinator]
     \/ \E env \in GoodEnvelope :
          /\ inCh'[Coordinator] = Append(inCh[Coordinator], env)
          /\ env.type # "AggResult"
     \/ /\ inCh[Coordinator] # <<>>
        /\ inCh'[Coordinator] = Tail(inCh[Coordinator])
        /\ Head(inCh[Coordinator]).type # "AggResult"
  /\ aggResults'[Coordinator] = aggResults[Coordinator]
  /\ \/ loop'[Coordinator] = loop[Coordinator]
     \/ ~Concludes(loop[Coordinator]) /\ ~Concludes(loop'[Coordinator])

LEMMA NoResultKeepsLast ==
  ASSUME IInv, NoResultAtCoordinator, NEW s, NEW r, LastResultIs(s, r)
  PROVE  LastResultIs(s, r)'
<1>1. /\ HasInHand(s)' <=> HasInHand(s)
      /\ HasInHand(s) => loop'[Coordinator].result = loop[Coordinator].result
  BY DEF HasInHand, NoResultAtCoordinator, Concludes
<1>2. \/ inCh'[Coordinator] = inCh[Coordinator]
      \/ \E env \in GoodEnvelope :
           /\ inCh'[Coordinator] = Append(inCh[Coordinator], env)
           /\ ~IsResultOf(env, s)
      \/ /\ inCh[Coordinator] # <<>>
         /\ inCh'[Coordinator] = Tail(inCh[Coordinator])
         /\ ~IsResultOf(Head(inCh[Coordinator]), s)
  BY DEF NoResultAtCoordinator, IsResultOf
<1>3. QED
  BY <1>1, <1>2, LastResultStays DEF NoResultAtCoordinator

LEMMA CurrentStays ==
  ASSUME IInv, CurrentInv, NoResultAtCoordinator, ResultsComeFromCoordinator',
         \A s \in Session :
           (sessions'[s] # None /\ sessions'[s].aggregated)
             => /\ sessions[s] # None /\ sessions[s].aggregated
                /\ sessions'[s].request = sessions[s].request,
         \/ loop'[Coordinator] = loop[Coordinator]
         \/ loop'[Coordinator] = None
         \/ loop'[Coordinator].do # "aggregate"
  PROVE  CurrentInv'
<1>1. \A s \in Session :
        (sessions'[s] # None /\ sessions'[s].aggregated)
          => LastResultIs(s, sessions[s].request)'
  <2> SUFFICES ASSUME NEW s \in Session, sessions'[s] # None, sessions'[s].aggregated
               PROVE  LastResultIs(s, sessions[s].request)'
    OBVIOUS
  <2>1. PICK r : r = sessions[s].request
    OBVIOUS
  <2>2. LastResultIs(s, r)
    BY <2>1 DEF CurrentInv
  <2>3. LastResultIs(s, r)'
    BY <2>2, NoResultKeepsLast
  <2>4. QED
    BY <2>1, <2>3 DEF LastResultIs, LastIs
<1>2. (loop'[Coordinator] # None /\ loop'[Coordinator].do = "aggregate")
        => LET s == loop'[Coordinator].sid
           IN  sessions'[s] # None => ~sessions'[s].aggregated
  <2> SUFFICES ASSUME loop[Coordinator] # None, loop[Coordinator].do = "aggregate"
               PROVE  LET s == loop[Coordinator].sid
                      IN  sessions'[s] # None => ~sessions'[s].aggregated
    OBVIOUS
  <2>1. loop[Coordinator].sid \in Session
    BY JobIsAggregation, SigningAssumption DEF Aggregating
  <2>2. QED
    BY <2>1 DEF CurrentInv
<1>3. QED
  BY <1>1, <1>2 DEF CurrentInv

\* A published request is one that was submitted.
LEMMA RequestIsGood ==
  ASSUME IInv, NEW r \in submitting
  PROVE  SignRequest(requests[r].sid, requests[r].message, r) \in GoodRequest
<1>1. r \in DOMAIN requests
  BY DEF IInv, RequestsOK
<1>2. requests[r] \in [sid : Session, message : Payload]
  <2>1. \A S : requests \in Seq(S) => requests[r] \in S
    BY <1>1
  <2>2. QED
    BY <2>1 DEF IInv, RequestsOK
<1>3. r \in Request
  BY <1>1, SigningAssumption DEF IInv, RequestsOK, Request
<1>4. QED
  BY <1>1, <1>2, <1>3 DEF SignRequest, GoodRequest, RequestEnvelope, Requested

\* Publishing a request or a response brings the coordinator no result.
LEMMA PublishNoResult ==
  ASSUME IInv, ResultsComeFromCoordinator, NEW n \in Node, NEW to \in SUBSET Node,
         NEW env \in GoodEnvelope, env.type # "AggResult", Publish(n, to, env)
  PROVE  /\ \/ inCh'[Coordinator] = inCh[Coordinator]
            \/ \E e \in GoodEnvelope : /\ inCh'[Coordinator] = Append(inCh[Coordinator], e)
                                       /\ e.type # "AggResult"
         /\ \A f \in net' : f.dst = Coordinator => f.env.type # "AggResult"
<1>1. \/ inCh'[Coordinator] = inCh[Coordinator]
      \/ inCh'[Coordinator] = Append(inCh[Coordinator], env)
  BY SigningAssumption DEF Publish, PushInbound, IInv, ChannelsCarry
<1>2. \A f \in net' : f.dst = Coordinator => f.env.type # "AggResult"
  BY DEF Publish, Frame, ResultsComeFromCoordinator
<1>3. QED
  BY <1>1, <1>2

\* The response to a request, or none of a node that has no key.
LEMMA ResponseNoResult ==
  ASSUME IInv, ResultsComeFromCoordinator, NEW n \in Node, NEW job \in Job,
         PublishSignResponse(n, job)
  PROVE  /\ \/ inCh'[Coordinator] = inCh[Coordinator]
            \/ \E e \in GoodEnvelope : /\ inCh'[Coordinator] = Append(inCh[Coordinator], e)
                                       /\ e.type # "AggResult"
         /\ \A f \in net' : f.dst = Coordinator => f.env.type # "AggResult"
<1>1. CASE key[n] # NoKey
  <2> DEFINE env == SignResponse(job.sid, job.message, job.request, n, key[n])
  <2>1. key[n] = KeyOf[n] /\ key[n] \in KeyValue
    BY <1>1 DEF IInv, KeysOK, KeyValue
  <2>2. env \in GoodEnvelope /\ env.type # "AggResult"
    BY <2>1 DEF SignResponse, Job, GoodEnvelope, GoodResponse, ResponseEnvelope
  <2>3. Publish(n, {Coordinator}, env)
    BY <1>1 DEF PublishSignResponse
  <2>4. QED
    BY <2>2, <2>3, PublishNoResult, SigningAssumption
<1>2. CASE key[n] = NoKey
  BY <1>2 DEF PublishSignResponse, ResultsComeFromCoordinator
<1>3. QED
  BY <1>1, <1>2

\* What the operators and the control goroutines do.
LEMMA ControlKeepsCurrent ==
  ASSUME IInv, CurrentInv,
         \/ Operator
         \/ \E r \in submitting : PublishSignRequest(r)
         \/ \E n \in Node : \E job \in signing[n] : PublishLocalSign(n, job)
  PROVE  CurrentInv'
<1>1. ASSUME NEW s \in Session, NEW m \in Submitted, SubmitSignRequest(s, m)
      PROVE  CurrentInv'
  <2>1. UNCHANGED <<net, inCh, loop, aggResults>>
    BY <1>1 DEF SubmitSignRequest, transportVars, nodeVars
  <2>2. NoResultAtCoordinator /\ ResultsComeFromCoordinator'
    BY <2>1 DEF NoResultAtCoordinator, CurrentInv, ResultsComeFromCoordinator
  <2>3. ASSUME NEW t \in Session, sessions'[t] # None, sessions'[t].aggregated
        PROVE  sessions'[t] = sessions[t]
    BY <1>1, <2>3 DEF SubmitSignRequest, NewSession, IInv, SessionsOK
  <2>4. QED
    BY <2>1, <2>2, <2>3, CurrentStays
<1>2. ASSUME NEW r \in submitting, PublishSignRequest(r)
      PROVE  CurrentInv'
  <2> DEFINE env == SignRequest(requests[r].sid, requests[r].message, r)
  <2>1. env \in GoodEnvelope /\ env.type # "AggResult"
    BY RequestIsGood DEF SignRequest, GoodEnvelope
  <2>2. UNCHANGED <<loop, aggResults, sessions>> /\ Publish(Coordinator, Node, env)
    BY <1>2 DEF PublishSignRequest, nodeVars
  <2>3. NoResultAtCoordinator /\ ResultsComeFromCoordinator'
    BY <2>1, <2>2, PublishNoResult, SigningAssumption
       DEF NoResultAtCoordinator, CurrentInv, ResultsComeFromCoordinator
  <2>4. QED
    BY <2>2, <2>3, CurrentStays
<1>3. ASSUME NEW n \in Node, NEW job \in signing[n], PublishLocalSign(n, job)
      PROVE  CurrentInv'
  <2>1. job \in Job
    BY DEF IInv, QueuesOK
  <2>2. UNCHANGED <<loop, aggResults, sessions>> /\ PublishSignResponse(n, job)
    BY <1>3 DEF PublishLocalSign, nodeVars
  <2>3. NoResultAtCoordinator /\ ResultsComeFromCoordinator'
    BY <2>1, <2>2, ResponseNoResult
       DEF NoResultAtCoordinator, CurrentInv, ResultsComeFromCoordinator
  <2>4. QED
    BY <2>2, <2>3, CurrentStays
<1>4. ASSUME UNCHANGED <<net, inCh, loop, aggResults, sessions>>
      PROVE  CurrentInv'
  <2>1. NoResultAtCoordinator /\ ResultsComeFromCoordinator'
    BY <1>4 DEF NoResultAtCoordinator, CurrentInv, ResultsComeFromCoordinator
  <2>2. QED
    BY <1>4, <2>1, CurrentStays
<1>5. ASSUME NEW n \in Manual, SetAutoSign(n)
      PROVE  CurrentInv'
  BY <1>4, <1>5 DEF SetAutoSign, transportVars, roundVars
<1>6. ASSUME NEW n \in Manual, NEW s \in Session, NEW m \in Override,
             SubmitLocalSign(n, s, m)
      PROVE  CurrentInv'
  BY <1>4, <1>6 DEF SubmitLocalSign, transportVars
<1>7. QED
  BY <1>1, <1>2, <1>3, <1>5, <1>6 DEF Operator

\* What the main loop does, but for the results themselves.
LEMMA HandlingKeepsCurrent ==
  ASSUME IInv, CurrentInv, NEW n \in Node,
         \/ OnSignRequest(n)
         \/ QueueRequest(n)
         \/ RespondToRequest(n)
  PROVE  CurrentInv'
<1>1. CASE OnSignRequest(n)
  <2>1. /\ UNCHANGED <<net, aggResults>>
        /\ inCh' = Consume(n) /\ inCh[n] # <<>> /\ Head(inCh[n]).type = "SignRequest"
        /\ loop[n] = None
    BY <1>1 DEF OnSignRequest, Handles, Received, nodeVars
  <2>6. /\ \A p \in Node \ {n} : loop'[p] = loop[p]
        /\ loop'[n] = loop[n] \/ loop'[n].do \in {"respond", "queue"}
    <3>1. PICK L : loop \in [Node -> L]
      BY DEF IInv, LoopsOK
    <3>2. \/ loop' = loop
          \/ \E d \in {"respond", "queue"} : \E j :
               loop' = [loop EXCEPT ![n] = [do |-> d, job |-> j]]
      BY <1>1 DEF OnSignRequest
    <3>3. ASSUME NEW d \in {"respond", "queue"}, NEW j,
                 loop' = [loop EXCEPT ![n] = [do |-> d, job |-> j]]
          PROVE  /\ \A p \in Node \ {n} : loop'[p] = loop[p]
                 /\ loop'[n].do = d
      BY <3>1, <3>3
    <3>4. QED
      BY <3>2, <3>3
  <2>2. NoResultAtCoordinator /\ ResultsComeFromCoordinator'
    <3>1. NoResultAtCoordinator
      BY <2>1, <2>6, SigningAssumption
         DEF NoResultAtCoordinator, Consume, Concludes, IInv, ChannelsCarry
    <3>2. QED
      BY <2>1, <2>6, <3>1 DEF CurrentInv, ResultsComeFromCoordinator, Concludes
  <2>3. Head(inCh[n]) \in GoodRequest
    <3>1. Head(inCh[n]) \in GoodEnvelope
      BY <1>1, TakeEnvelope DEF OnSignRequest, Handles
    <3>2. QED
      BY <2>1, <3>1 DEF GoodEnvelope, GoodResponse, GoodResult, ResponseEnvelope, Result
  <2>4. ASSUME NEW t \in Session, sessions'[t] # None, sessions'[t].aggregated
        PROVE  sessions'[t] = sessions[t]
    BY <1>1, <2>4 DEF OnSignRequest, NewSession, IInv, SessionsOK
  <2>5. QED
    BY <2>1, <2>2, <2>4, <2>6, CurrentStays, SigningAssumption
<1>2. CASE QueueRequest(n)
  <2>1. /\ UNCHANGED <<net, inCh, aggResults, sessions>>
        /\ ~Concludes(loop[n])
        /\ loop' = [loop EXCEPT ![n] = None]
    BY <1>2 DEF QueueRequest, transportVars, roundVars, Concludes
  <2>4. \A p \in Node : loop'[p] = IF p = n THEN None ELSE loop[p]
    BY <2>1 DEF IInv, LoopsOK
  <2>2. NoResultAtCoordinator /\ ResultsComeFromCoordinator'
    BY <2>1, <2>4, SigningAssumption
       DEF NoResultAtCoordinator, CurrentInv, ResultsComeFromCoordinator, Concludes
  <2>3. QED
    BY <2>1, <2>2, <2>4, CurrentStays, SigningAssumption
<1>3. CASE RespondToRequest(n)
  <2>1. /\ UNCHANGED <<aggResults, sessions>>
        /\ ~Concludes(loop[n])
        /\ loop' = [loop EXCEPT ![n] = None]
        /\ PublishSignResponse(n, loop[n].job)
    BY <1>3 DEF RespondToRequest, nodeVars, roundVars, Concludes
  <2>2. loop[n].job \in Job
    BY <1>3, JobIsAnswer DEF RespondToRequest
  <2>5. \A p \in Node : loop'[p] = IF p = n THEN None ELSE loop[p]
    BY <2>1 DEF IInv, LoopsOK
  <2>3. NoResultAtCoordinator /\ ResultsComeFromCoordinator'
    BY <2>1, <2>2, <2>5, ResponseNoResult, SigningAssumption
       DEF NoResultAtCoordinator, CurrentInv, ResultsComeFromCoordinator, Concludes
  <2>4. QED
    BY <2>1, <2>3, <2>5, CurrentStays, SigningAssumption
<1>4. QED
  BY <1>1, <1>2, <1>3

LEMMA OnSignResponseKeepsCurrent ==
  ASSUME IInv, CurrentInv, NEW n \in Node, OnSignResponse(n)
  PROVE  CurrentInv'
<1> DEFINE m == Head(inCh[n])
           session == sessions[m.sid]
           response == [message |-> m.message, key |-> m.key]
           added == [session EXCEPT !.responses[m.signer] = response]
<1>1. /\ UNCHANGED <<net, aggResults>>
      /\ inCh' = Consume(n) /\ inCh[n] # <<>> /\ m.type = "SignResponse"
      /\ loop[n] = None
  BY DEF OnSignResponse, Handles, Received, nodeVars
<1>2. \/ inCh'[Coordinator] = inCh[Coordinator]
      \/ /\ inCh[Coordinator] # <<>>
         /\ inCh'[Coordinator] = Tail(inCh[Coordinator])
         /\ Head(inCh[Coordinator]).type # "AggResult"
  BY <1>1, SigningAssumption DEF Consume, IInv, ChannelsCarry
<1>3. CASE n = Coordinator /\ Accepts(session, m)
  <2>1. m \in GoodResponse /\ m.sid \in Session
    <3>1. m \in GoodEnvelope
      BY TakeEnvelope DEF OnSignResponse, Handles
    <3>2. QED
      BY <1>1, <3>1
         DEF GoodEnvelope, GoodRequest, GoodResult, RequestEnvelope, Result, GoodResponse,
             ResponseEnvelope
  <2>2. session \in SessionState /\ ~session.aggregated
    BY <1>3, <2>1 DEF Accepts, IInv, SessionsOK
  <2>3. added \in SessionState /\ ~added.aggregated
    <3>1. session \in GoodSession(m.sid)
      BY <1>3, <2>1 DEF IInv, SessionsOK, Accepts
    <3>2. added \in GoodSession(m.sid)
      BY <1>3, <2>1, <3>1, AcceptedIsGood
    <3>3. QED
      BY <2>2, <3>2 DEF GoodSession, SessionState
  <2>4. /\ sessions'[m.sid] = added
        /\ \A t \in Session \ {m.sid} : sessions'[t] = sessions[t]
    BY <1>3, <2>1 DEF OnSignResponse, IInv, SessionsOK
  <2>5. PICK L : loop \in [Node -> L]
    BY DEF IInv, LoopsOK
  <2>6. \/ loop' = loop
        \/ loop' = [loop EXCEPT ![n] = [do |-> "aggregate", sid |-> m.sid,
                                        session |-> added]]
    BY <1>3 DEF OnSignResponse
  <2>7. \A p \in Node \ {n} : loop'[p] = loop[p]
    BY <2>5, <2>6
  <2>8. ~Concludes(loop'[Coordinator])
    BY <1>1, <1>3, <2>5, <2>6 DEF Concludes
  <2>9. ResultsComeFromCoordinator' /\ NoResultAtCoordinator
    BY <1>1, <1>2, <1>3, <2>7, <2>8
       DEF CurrentInv, ResultsComeFromCoordinator, NoResultAtCoordinator, Concludes
  <2>10. \A t \in Session :
           (sessions'[t] # None /\ sessions'[t].aggregated)
             => sessions'[t] = sessions[t] /\ LastResultIs(t, sessions[t].request)'
    <3> SUFFICES ASSUME NEW t \in Session, sessions'[t] # None, sessions'[t].aggregated
                 PROVE  sessions'[t] = sessions[t] /\ LastResultIs(t, sessions[t].request)'
      OBVIOUS
    <3>1. sessions'[t] = sessions[t]
      BY <2>3, <2>4
    <3>2. PICK r : r = sessions[t].request
      OBVIOUS
    <3>3. LastResultIs(t, r)'
      BY <3>1, <3>2, <2>9, NoResultKeepsLast DEF CurrentInv
    <3>4. QED
      BY <3>1, <3>2, <3>3 DEF LastResultIs, LastIs
  <2>11. (loop'[Coordinator] # None /\ loop'[Coordinator].do = "aggregate")
           => ~sessions'[loop'[Coordinator].sid].aggregated
    <3>1. CASE loop' = loop
      BY <1>1, <1>3, <3>1
    <3>2. CASE loop' = [loop EXCEPT ![n] = [do |-> "aggregate", sid |-> m.sid,
                                            session |-> added]]
      <4>1. loop'[Coordinator].sid = m.sid
        BY <1>3, <2>5, <3>2
      <4>2. QED
        BY <2>3, <2>4, <4>1
    <3>3. QED
      BY <2>6, <3>1, <3>2
  <2>12. QED
    BY <2>9, <2>10, <2>11 DEF CurrentInv
<1>4. CASE ~(n = Coordinator /\ Accepts(session, m))
  <2>1. UNCHANGED <<sessions, loop>>
    BY <1>4 DEF OnSignResponse
  <2>2. NoResultAtCoordinator /\ ResultsComeFromCoordinator'
    BY <1>1, <1>2, <2>1 DEF NoResultAtCoordinator, CurrentInv, ResultsComeFromCoordinator
  <2>3. QED
    BY <2>1, <2>2, CurrentStays
<1>5. QED
  BY <1>3, <1>4

\* The aggregation: what the coordinator has in hand is the result of the session
\* it has marked, or of one that is not in the map any more.
LEMMA AggregateKeepsCurrent ==
  ASSUME IInv, CurrentInv, NEW n \in Node, Aggregate(n)
  PROVE  CurrentInv'
<1> DEFINE s == loop[n].sid
           state == loop[n].session
           result == AggResult(s, state.message, state.request, Responders(state), key[n])
<1>1. /\ n = Coordinator /\ s \in Session
      /\ sessions[s] \in SessionState
      /\ loop[Coordinator] # None /\ loop[Coordinator].do = "aggregate"
  BY JobIsAggregation DEF Aggregate, Aggregating, GoodSession
<1>2. sessions[s] # None /\ ~sessions[s].aggregated /\ ~Concludes(loop[Coordinator])
  BY <1>1, NoneIsNoSession DEF CurrentInv, Concludes
<1>3. UNCHANGED <<net, inCh, aggResults>>
  BY DEF Aggregate, transportVars, nodeVars
<1>4. PICK L : loop \in [Node -> L]
  BY DEF IInv, LoopsOK
<1>5. CASE VerifyAggregate(state, key[n])
  <2>0. result \in GoodResult
    BY <1>1, <1>5, AggregateIsGood, JobIsAggregation DEF Aggregating
  <2>8. [do |-> "store", result |-> result] # None
    BY <2>0, NoneIsNoJob DEF LoopJob, GoodResult
  <2>1. loop' = [loop EXCEPT ![n] = [do |-> "store", result |-> result]]
    BY <1>5 DEF Aggregate
  <2>2. /\ \A p \in Node \ {n} : loop'[p] = loop[p]
        /\ loop'[n] # None /\ loop'[n].do = "store" /\ loop'[n].result = result
    BY <1>4, <2>1, <2>8
  <2>3. result.sid = s /\ result.request = state.request
    BY DEF AggResult
  <2>4. ResultsComeFromCoordinator'
    BY <1>1, <1>3, <2>2 DEF CurrentInv, ResultsComeFromCoordinator
  <2>5. /\ \A t \in Session \ {s} : sessions'[t] = sessions[t]
        /\ sessions'[s] = sessions[s] \/ sessions'[s].request = state.request
    BY <1>1, <1>5 DEF Aggregate, MarkAggregated, IInv, SessionsOK, SessionState
  <2>6. ASSUME NEW t \in Session, sessions'[t] # None, sessions'[t].aggregated
        PROVE  LastResultIs(t, sessions[t].request)'
    <3>1. CASE t = s
      <4>1. sessions'[s].request = state.request
        BY <1>2, <2>5, <2>6, <3>1
      <4>2. QED
        BY <1>1, <2>2, <2>3, <3>1, <4>1 DEF LastResultIs, HasInHand, Concludes
    <3>2. CASE t # s
      <4>1. sessions'[t] = sessions[t]
        BY <2>5, <3>2
      <4>2. PICK r : r = sessions[t].request
        OBVIOUS
      <4>3. LastResultIs(t, r)
        BY <2>6, <4>1, <4>2 DEF CurrentInv
      <4>4. ~HasInHand(t) /\ ~HasInHand(t)'
        BY <1>1, <1>2, <2>2, <2>3, <3>2 DEF HasInHand
      <4>5. LastResultIs(t, r)'
        BY <1>3, <4>3, <4>4 DEF LastResultIs, LastIs, HasResult
      <4>6. QED
        BY <4>1, <4>2, <4>5 DEF LastResultIs, LastIs
    <3>3. QED
      BY <3>1, <3>2
  <2>7. QED
    BY <1>1, <2>2, <2>4, <2>6 DEF CurrentInv
<1>6. CASE ~VerifyAggregate(state, key[n])
  <2>1. UNCHANGED sessions /\ loop' = [loop EXCEPT ![n] = None]
    BY <1>6 DEF Aggregate
  <2>2. \A p \in Node : loop'[p] = IF p = n THEN None ELSE loop[p]
    BY <1>4, <2>1
  <2>3. NoResultAtCoordinator /\ ResultsComeFromCoordinator'
    BY <1>1, <1>2, <1>3, <2>2
       DEF NoResultAtCoordinator, CurrentInv, ResultsComeFromCoordinator, Concludes
  <2>4. QED
    BY <1>1, <2>1, <2>2, <2>3, CurrentStays
<1>7. QED
  BY <1>5, <1>6

\* A result that is stored is still to be broadcast.
LEMMA StoreResultKeepsCurrent ==
  ASSUME IInv, CurrentInv, NEW n \in Node, StoreResult(n)
  PROVE  CurrentInv'
<1>1. n = Coordinator /\ Concludes(loop[Coordinator])
  BY DEF StoreResult, CurrentInv, ResultsComeFromCoordinator, Concludes
<1>2. UNCHANGED <<net, inCh, sessions>> /\ loop' = [loop EXCEPT ![n].do = "broadcast"]
  BY DEF StoreResult, transportVars, roundVars
<1>3. loop[n] \in Concluding
  BY <1>1, JobIsConclusion DEF Concludes
<1>4. PICK L : loop \in [Node -> L]
  BY DEF IInv, LoopsOK
<1>5. [loop[n] EXCEPT !.do = "broadcast"] # None
  <2>1. [loop[n] EXCEPT !.do = "broadcast"] \in Concluding
    BY <1>3 DEF Concluding
  <2>2. QED
    BY <2>1, NoneIsNoJob DEF LoopJob, Concluding, GoodResult
<1>6. /\ \A p \in Node \ {n} : loop'[p] = loop[p]
      /\ loop'[n] = [loop[n] EXCEPT !.do = "broadcast"]
  BY <1>2, <1>4
<1>7. /\ loop'[n] # None /\ loop'[n].do = "broadcast"
      /\ loop'[n].result = loop[n].result
  BY <1>3, <1>5, <1>6 DEF Concluding
<1>8. ResultsComeFromCoordinator'
  BY <1>1, <1>2, <1>6 DEF CurrentInv, ResultsComeFromCoordinator
<1>9. ASSUME NEW s \in Session, sessions[s] # None, sessions[s].aggregated
      PROVE  LastResultIs(s, sessions[s].request)'
  <2>1. PICK r : r = sessions[s].request
    OBVIOUS
  <2>2. LastResultIs(s, r)
    BY <1>9, <2>1 DEF CurrentInv
  <2>3. HasInHand(s)' <=> HasInHand(s)
    BY <1>1, <1>7 DEF HasInHand, Concludes
  <2>4. HasInHand(s) \/ aggResults'[Coordinator][s] = aggResults[Coordinator][s]
    BY <1>1 DEF HasInHand, StoreResult, StoreAggregateResult, IInv, ResultsOK
  <2>5. LastResultIs(s, r)'
    BY <1>1, <1>2, <1>7, <2>2, <2>3, <2>4, LastResultStays
  <2>6. QED
    BY <1>2, <2>1, <2>5 DEF LastResultIs, LastIs
<1>10. QED
  BY <1>1, <1>2, <1>7, <1>8, <1>9 DEF CurrentInv

\* A broadcast result waits behind every other one of its session.
LEMMA BroadcastResultKeepsCurrent ==
  ASSUME IInv, CurrentInv, NEW n \in Node, BroadcastResult(n), HasRoom(Coordinator)
  PROVE  CurrentInv'
<1> DEFINE result == loop[n].result
<1>1. n = Coordinator /\ Concludes(loop[Coordinator])
  BY DEF BroadcastResult, CurrentInv, ResultsComeFromCoordinator, Concludes
<1>2. /\ UNCHANGED <<aggResults, sessions>>
      /\ loop' = [loop EXCEPT ![n] = None]
      /\ Publish(n, Node, result)
  BY DEF BroadcastResult, nodeVars, roundVars
<1>3. PICK S : inCh \in [Node -> Seq(S)] /\ S = GoodEnvelope
  BY DEF IInv, ChannelsCarry
<1>4. result \in GoodResult /\ result \in S
  BY <1>1, <1>3, JobIsConclusion DEF Concludes, Concluding, GoodEnvelope
<1>5. inCh'[Coordinator] = Append(inCh[Coordinator], result)
  BY <1>1, <1>2, <1>3 DEF Publish, PushInbound, HasRoom
<1>6. \A p \in Node : loop'[p] = IF p = n THEN None ELSE loop[p]
  BY <1>2 DEF IInv, LoopsOK
<1>7. ResultsComeFromCoordinator'
  <2>1. \A f \in net' : f \in net \/ f.dst # n
    BY <1>2 DEF Publish, Frame
  <2>2. QED
    BY <1>1, <1>6, <2>1 DEF CurrentInv, ResultsComeFromCoordinator, Concludes
<1>8. ASSUME NEW s \in Session, sessions[s] # None, sessions[s].aggregated
      PROVE  LastResultIs(s, sessions[s].request)'
  <2>1. PICK r : r = sessions[s].request
    OBVIOUS
  <2>2. LastResultIs(s, r)
    BY <1>8, <2>1 DEF CurrentInv
  <2>3. ~HasInHand(s)'
    BY <1>1, <1>6 DEF HasInHand, Concludes
  <2>4. inCh[Coordinator] \in Seq(S)
    BY <1>3, SigningAssumption
  <2>5. CASE result.sid = s
    <3>1. IsResultOf(result, s) /\ result.request = r
      BY <1>1, <1>4, <2>2, <2>5
         DEF LastResultIs, HasInHand, IsResultOf, GoodResult, Result
    <3>2. LastIs(inCh'[Coordinator], s, r) /\ HasResult(inCh'[Coordinator], s)
      BY <1>4, <1>5, <2>4, <3>1, AppendResult
    <3>3. QED
      BY <1>2, <2>1, <2>3, <3>2 DEF LastResultIs, LastIs, HasResult
  <2>6. CASE result.sid # s
    <3>1. ~HasInHand(s) /\ ~IsResultOf(result, s)
      BY <1>1, <2>6 DEF HasInHand, IsResultOf
    <3>2. LastResultIs(s, r)'
      BY <1>2, <1>3, <1>4, <1>5, <2>2, <2>3, <3>1, LastResultStays
    <3>3. QED
      BY <1>2, <2>1, <3>2 DEF LastResultIs, LastIs
  <2>7. QED
    BY <2>5, <2>6
<1>9. QED
  BY <1>1, <1>2, <1>6, <1>7, <1>8 DEF CurrentInv

\* The coordinator stores its own results a second time, in the order in which it
\* broadcast them.
LEMMA OnAggResultKeepsCurrent ==
  ASSUME IInv, CurrentInv, NEW n \in Node, OnAggResult(n)
  PROVE  CurrentInv'
<1> DEFINE m == Head(inCh[n])
<1>1. /\ UNCHANGED <<net, loop, sessions>>
      /\ inCh' = Consume(n) /\ inCh[n] # <<>>
      /\ loop[n] = None
      /\ m.type = "AggResult"
      /\ StoreAggregateResult(n, m)
  BY DEF OnAggResult, Handles, Received, roundVars
<1>2. m \in GoodResult
  <2>1. m \in GoodEnvelope
    BY TakeEnvelope DEF OnAggResult, Handles, roundVars
  <2>2. QED
    BY <1>1, <2>1
       DEF GoodEnvelope, GoodRequest, GoodResponse, RequestEnvelope, ResponseEnvelope
<1>3. ResultsComeFromCoordinator'
  BY <1>1 DEF CurrentInv, ResultsComeFromCoordinator
<1>4. PICK S : inCh \in [Node -> Seq(S)]
  BY DEF IInv, ChannelsCarry
<1>5. ASSUME NEW s \in Session, NEW r, LastResultIs(s, r)
      PROVE  LastResultIs(s, r)'
  <2>1. CASE n # Coordinator
    <3>1. /\ inCh'[Coordinator] = inCh[Coordinator]
          /\ aggResults'[Coordinator] = aggResults[Coordinator]
      BY <1>1, <1>4, <2>1, SigningAssumption
         DEF Consume, StoreAggregateResult, IInv, ResultsOK
    <3>2. NoResultAtCoordinator
      BY <1>1, <3>1 DEF NoResultAtCoordinator
    <3>3. QED
      BY <1>5, <3>2, NoResultKeepsLast
  <2>2. CASE n = Coordinator /\ m.sid = s
    <3>1. inCh'[n] = Tail(inCh[n]) /\ inCh[n] \in Seq(S)
      BY <1>1, <1>4 DEF Consume
    <3>2. aggResults'[n][s] = m /\ m # None
      BY <1>1, <1>2, <2>2, NoneIsNoJob
         DEF StoreAggregateResult, IInv, ResultsOK, GoodResult
    <3>3. ~HasInHand(s) /\ ~HasInHand(s)'
      BY <1>1, <2>2 DEF HasInHand, Concludes
    <3>4. LastIs(inCh[n], s, r) /\ HasResult(inCh[n], s)
      <4>1. IsResultOf(m, s)
        BY <1>1, <2>2 DEF IsResultOf
      <4>2. 1 \in DOMAIN inCh[n] /\ m = inCh[n][1]
        BY <1>1, <3>1
      <4>3. QED
        BY <1>5, <2>2, <3>3, <4>1, <4>2 DEF LastResultIs, HasResult
    <3>5. /\ LastIs(inCh'[n], s, r)
          /\ HasResult(inCh'[n], s) \/ m.request = r
      BY <1>1, <3>1, <3>4, TakeResult
    <3>6. QED
      BY <2>2, <3>2, <3>3, <3>5 DEF LastResultIs, LastIs, HasResult
  <2>3. CASE n = Coordinator /\ m.sid # s
    <3>1. /\ inCh'[Coordinator] = Tail(inCh[Coordinator])
          /\ ~IsResultOf(m, s)
      BY <1>1, <1>4, <2>3 DEF Consume, IsResultOf
    <3>2. aggResults'[Coordinator][s] = aggResults[Coordinator][s]
      BY <1>1, <2>3 DEF StoreAggregateResult, IInv, ResultsOK
    <3>3. HasInHand(s)' <=> HasInHand(s)
      BY <1>1 DEF HasInHand
    <3>4. QED
      BY <1>1, <1>5, <2>3, <3>1, <3>2, <3>3, LastResultStays
  <2>4. QED
    BY <2>1, <2>2, <2>3
<1>6. ASSUME NEW s \in Session, sessions[s] # None, sessions[s].aggregated
      PROVE  LastResultIs(s, sessions[s].request)'
  <2>1. PICK r : r = sessions[s].request
    OBVIOUS
  <2>2. LastResultIs(s, r)'
    BY <1>5, <1>6, <2>1 DEF CurrentInv
  <2>3. QED
    BY <1>1, <2>1, <2>2 DEF LastResultIs, LastIs
<1>7. QED
  BY <1>1, <1>3, <1>6 DEF CurrentInv

LEMMA CrashKeepsCurrent ==
  ASSUME IInv, CurrentInv, NEW n \in Node, Crash(n)
  PROVE  CurrentInv'
<1>1. \A p \in Node : loop'[p] = IF p = n THEN None ELSE loop[p]
  BY DEF Crash, IInv, LoopsOK
<1>2. ResultsComeFromCoordinator'
  BY <1>1 DEF CurrentInv, ResultsComeFromCoordinator, Crash, StopProcess, Concludes
<1>3. CASE n = Coordinator
  BY <1>1, <1>2, <1>3, SigningAssumption DEF CurrentInv, Crash
<1>4. CASE n # Coordinator
  <2>1. /\ UNCHANGED sessions
        /\ loop'[Coordinator] = loop[Coordinator]
        /\ aggResults'[Coordinator] = aggResults[Coordinator]
        /\ inCh'[Coordinator] = inCh[Coordinator]
    BY <1>1, <1>4, SigningAssumption
       DEF Crash, StopProcess, IInv, ResultsOK, ChannelsCarry
  <2>2. NoResultAtCoordinator
    BY <2>1 DEF NoResultAtCoordinator
  <2>3. QED
    BY <1>2, <2>1, <2>2, CurrentStays
<1>5. QED
  BY <1>3, <1>4

LEMMA NextKeepsCurrent ==
  IInv /\ CurrentInv /\ HasRoom(Coordinator) /\ [Next]_vars => CurrentInv'
<1> SUFFICES ASSUME IInv, CurrentInv, HasRoom(Coordinator), [Next]_vars
             PROVE  CurrentInv'
  OBVIOUS
<1>1. ASSUME NEW n \in Node, MainLoop(n)
      PROVE  CurrentInv'
  BY <1>1, HandlingKeepsCurrent, OnSignResponseKeepsCurrent, AggregateKeepsCurrent,
     StoreResultKeepsCurrent, BroadcastResultKeepsCurrent, OnAggResultKeepsCurrent
     DEF MainLoop
<1>2. ASSUME UNCHANGED <<net, inCh, loop, aggResults, sessions>>
      PROVE  CurrentInv'
  <2>1. NoResultAtCoordinator /\ ResultsComeFromCoordinator'
    BY <1>2 DEF NoResultAtCoordinator, CurrentInv, ResultsComeFromCoordinator
  <2>2. QED
    BY <1>2, <2>1, CurrentStays
<1>3. ASSUME NEW n \in Node, LearnKey(n) \/ BecomeReady(n) \/ Crash(n)
      PROVE  CurrentInv'
  BY <1>2, <1>3, CrashKeepsCurrent DEF LearnKey, BecomeReady, transportVars, roundVars
<1>4. ASSUME NEW f \in net, ReadLoop(f) \/ LoseFrame(f), UNCHANGED <<nodeVars, roundVars, loop>>
      PROVE  CurrentInv'
  <2>1. PICK S : /\ inCh \in [Node -> Seq(S)] /\ S = GoodEnvelope
                 /\ f.dst \in Node /\ f.env \in S
    BY DEF IInv, ChannelsCarry
  <2>2. UNCHANGED <<loop, aggResults, sessions>>
    BY <1>4 DEF nodeVars, roundVars
  <2>3. \A g \in net' : g \in net
    BY <1>4 DEF ReadLoop, LoseFrame
  <2>4. \/ inCh'[Coordinator] = inCh[Coordinator]
        \/ /\ inCh'[Coordinator] = Append(inCh[Coordinator], f.env)
           /\ f.dst = Coordinator
    BY <1>4, <2>1, SigningAssumption DEF ReadLoop, LoseFrame, PushInbound
  <2>5. NoResultAtCoordinator /\ ResultsComeFromCoordinator'
    BY <2>1, <2>2, <2>3, <2>4
       DEF NoResultAtCoordinator, CurrentInv, ResultsComeFromCoordinator
  <2>6. QED
    BY <2>2, <2>5, CurrentStays
<1>5. CASE Transfer \/ Loss
  BY <1>4, <1>5 DEF Transfer, Loss
<1>6. CASE UNCHANGED vars
  BY <1>2, <1>6 DEF vars, transportVars, nodeVars, roundVars
<1>7. QED
  BY <1>1, <1>3, <1>5, <1>6, ControlKeepsCurrent DEF Next

LEMMA InitEstablishesCurrent == Init => CurrentInv
  BY SigningAssumption
     DEF Init, CurrentInv, ResultsComeFromCoordinator, Concludes

LEMMA CurrentInvImpliesCurrent == CurrentInv => QuietCoordinatorIsCurrent
<1> SUFFICES ASSUME CurrentInv, loop[Coordinator] = None, Inbound(Coordinator) = {},
                    NEW s \in Session, sessions[s] # None, sessions[s].aggregated
             PROVE  /\ aggResults[Coordinator][s] # None
                    /\ aggResults[Coordinator][s].request = sessions[s].request
  BY DEF QuietCoordinatorIsCurrent
<1>1. ~HasResult(inCh[Coordinator], s)
  BY DEF HasResult, Inbound
<1>2. ~HasInHand(s)
  BY DEF HasInHand, Concludes
<1>3. QED
  BY <1>1, <1>2 DEF CurrentInv, LastResultIs

\* When the coordinator has nothing left to handle, the result it has stored for a
\* session is that of the request it created the session for, although it also
\* stores, and hears again, the results of the sessions it replaced
\* (SubmitSignRequest, storeAggregateResult, onAggResult).  Its inbound channel
\* must not have overflown: a result that pushInbound drops is not stored again.
THEOREM QuietCoordinator ==
  Spec /\ [](HasRoom(Coordinator)) => []QuietCoordinatorIsCurrent
<1>1. Init => CurrentInv
  BY InitEstablishesCurrent
<1>2. IInv /\ CurrentInv /\ HasRoom(Coordinator) /\ [Next]_vars => CurrentInv'
  BY NextKeepsCurrent
<1>3. CurrentInv => QuietCoordinatorIsCurrent
  BY CurrentInvImpliesCurrent
<1>4. QED
  BY <1>1, <1>2, <1>3, IInvIsInvariant, PTL DEF Spec

------------------------------------------------------------------------------
(***************************************************************************)
(* The members' answers.                                                   *)
(***************************************************************************)
\* A response says what its request says.
StemEnvelope ==
  {e \in Envelope : e.type = "SignResponse" => Requested(e.sid, e.message, e.request)}

\* The same is true of what becomes a response.
JobsStem ==
  /\ \A n \in Node : \A job \in signing[n] : Requested(job.sid, job.message, job.request)
  /\ \A n \in Node, s \in Session :
       pending[n][s] # None => Requested(s, pending[n][s].message, pending[n][s].request)
  /\ \A n \in Node :
       loop[n] \in Answering =>
         Requested(loop[n].job.sid, loop[n].job.message, loop[n].job.request)

\* The coordinator's sessions are those of the latest requests.
SessionsCurrent ==
  up[Coordinator] =>
    \A r \in DOMAIN requests :
      ~Superseded(r) => /\ sessions[requests[r].sid] # None
                        /\ sessions[requests[r].sid].request = r

\* Requests wait for the operator only where there is one who uses auto-sign.
AutoSigns ==
  \A n \in Node \ Manual :
    autoSign[n] /\ (loop[n] # None => loop[n].do # "queue")

StemInv ==
  /\ ChannelsCarry(StemEnvelope)
  /\ JobsStem
  /\ SessionsCurrent
  /\ AutoSigns

\* A node that was ready in the beginning stays so.
StaysReady ==
  \A n \in AlreadyReady : up[n] => ready[n] /\ key[n] # NoKey

Reliable == ~Lossy /\ Override \subseteq {None}

\* A response that is on its way, or may still be sent, is to a request that was
\* made with that message.
LEMMA InitEstablishesStem == Init => StemInv /\ StaysReady
<1> SUFFICES ASSUME Init PROVE StemInv /\ StaysReady
  OBVIOUS
<1>1. ChannelsCarry(StemEnvelope)
  BY TransportAssumption DEF Init, ChannelsCarry
<1>2. JobsStem /\ SessionsCurrent /\ AutoSigns
  BY SigningAssumption, NoneIsNoJob
     DEF Init, JobsStem, SessionsCurrent, AutoSigns, LoopJob, Answering
<1>3. StaysReady
  BY SigningAssumption DEF Init, StaysReady
<1>4. QED
  BY <1>1, <1>2, <1>3 DEF StemInv

------------------------------------------------------------------------------
\* What a step may change of what keeps a request.

LEMMA RequestsGrow ==
  ASSUME IInv, [Next]_vars
  PROVE  /\ \A r \in DOMAIN requests : r \in DOMAIN requests' /\ requests'[r] = requests[r]
         /\ \A r \in DOMAIN requests' \ DOMAIN requests : r \in submitting'
         /\ \A r \in DOMAIN requests : Superseded(r) => Superseded(r)'
         /\ \A n \in Node : up'[n] => up[n]
<1>1. /\ \A r \in DOMAIN requests : r \in DOMAIN requests' /\ requests'[r] = requests[r]
      /\ \A r \in DOMAIN requests' \ DOMAIN requests : r \in submitting'
  <2>1. ASSUME NEW s \in Session, NEW m \in Submitted, SubmitSignRequest(s, m)
        PROVE  /\ \A r \in DOMAIN requests :
                    r \in DOMAIN requests' /\ requests'[r] = requests[r]
               /\ \A r \in DOMAIN requests' \ DOMAIN requests : r \in submitting'
    <3>1. PICK R : requests \in Seq(R) /\ [sid |-> s, message |-> m] \in R
      BY SigningAssumption DEF IInv, RequestsOK, Payload
    <3>2. requests' = Append(requests, [sid |-> s, message |-> m])
      BY <2>1 DEF SubmitSignRequest
    <3>3. /\ DOMAIN requests = 1 .. Len(requests)
          /\ DOMAIN requests' = 1 .. Len(requests) + 1
          /\ Len(requests') = Len(requests) + 1
          /\ \A r \in 1 .. Len(requests) : requests'[r] = requests[r]
      BY <3>1, <3>2
    <3>4. Len(requests') \in submitting'
      BY <2>1 DEF SubmitSignRequest
    <3>5. QED
      BY <3>3, <3>4
  <2>2. CASE UNCHANGED requests
    BY <2>2
  <2>3. QED
    BY <2>1, <2>2
       DEF Next, Operator, MainLoop, SetAutoSign, SubmitLocalSign, PublishSignRequest,
           OnSignRequest, QueueRequest, RespondToRequest, OnSignResponse, Aggregate,
           StoreResult, BroadcastResult, OnAggResult, PublishLocalSign, LearnKey,
           BecomeReady, Crash, Transfer, Loss, roundVars, vars
<1>2. \A r \in DOMAIN requests : Superseded(r) => Superseded(r)'
  BY <1>1 DEF Superseded
<1>3. \A n \in Node : up'[n] => up[n]
  <2>1. up \in [Node -> BOOLEAN]
    BY DEF IInv, ChannelsCarry
  <2>2. ASSUME NEW n \in Node, Crash(n)
        PROVE  \A p \in Node : up'[p] => up[p]
    BY <2>1, <2>2 DEF Crash, StopProcess
  <2>3. CASE UNCHANGED up
    BY <2>3
  <2>4. QED
    BY <2>2, <2>3
       DEF Next, Operator, MainLoop, SubmitSignRequest, SetAutoSign, SubmitLocalSign,
           PublishSignRequest, OnSignRequest, QueueRequest, RespondToRequest,
           OnSignResponse, Aggregate, StoreResult, BroadcastResult, OnAggResult,
           PublishLocalSign, LearnKey, BecomeReady, Transfer, Loss, ReadLoop,
           LoseFrame, transportVars, vars
<1>4. QED
  BY <1>1, <1>2, <1>3

LEMMA SubmittingStays ==
  ASSUME [Next]_vars, up'[Coordinator], IInv
  PROVE  \A r \in submitting : r \in submitting' \/ PublishSignRequest(r)
<1>1. ASSUME NEW n \in Node, Crash(n)
      PROVE  n # Coordinator /\ UNCHANGED submitting
  BY <1>1 DEF Crash, StopProcess, IInv, ChannelsCarry
<1>2. \/ \E s \in Session, m \in Submitted : SubmitSignRequest(s, m)
      \/ \E q \in submitting : PublishSignRequest(q)
      \/ UNCHANGED submitting
  BY <1>1
     DEF Next, Operator, MainLoop, SetAutoSign, SubmitLocalSign, OnSignRequest,
         QueueRequest, RespondToRequest, OnSignResponse, Aggregate, StoreResult,
         BroadcastResult, OnAggResult, PublishLocalSign, LearnKey, BecomeReady,
         Transfer, Loss, roundVars, vars
<1>3. QED
  BY <1>2 DEF SubmitSignRequest, PublishSignRequest

LEMMA SigningStays ==
  ASSUME IInv, [Next]_vars, NEW n \in Node, up'[n]
  PROVE  \A job \in signing[n] : job \in signing'[n] \/ PublishLocalSign(n, job)
<1>1. signing \in [Node -> SUBSET Job]
  BY DEF IInv, QueuesOK
<1>2. ASSUME NEW p \in Node, Crash(p)
      PROVE  signing'[n] = signing[n]
  BY <1>1, <1>2 DEF Crash, StopProcess, IInv, ChannelsCarry
<1>3. ASSUME NEW p \in Manual, NEW s \in Session, NEW m \in Override,
             SubmitLocalSign(p, s, m)
      PROVE  signing[n] \subseteq signing'[n]
  BY <1>1, <1>3, SigningAssumption DEF SubmitLocalSign
<1>4. ASSUME NEW p \in Node, NEW job \in signing[p], PublishLocalSign(p, job)
      PROVE  \A j \in signing[n] : j \in signing'[n] \/ PublishLocalSign(n, j)
  BY <1>1, <1>4 DEF PublishLocalSign
<1>5. \/ UNCHANGED signing
      \/ \E p \in Node : Crash(p)
      \/ \E p \in Manual, s \in Session, m \in Override : SubmitLocalSign(p, s, m)
      \/ \E p \in Node : \E job \in signing[p] : PublishLocalSign(p, job)
  BY DEF Next, Operator, MainLoop, SubmitSignRequest, SetAutoSign, PublishSignRequest,
         OnSignRequest, QueueRequest, RespondToRequest, OnSignResponse, Aggregate,
         StoreResult, BroadcastResult, OnAggResult, LearnKey, BecomeReady, Transfer,
         Loss, roundVars, vars
<1>6. QED
  BY <1>2, <1>3, <1>4, <1>5

LEMMA PendingStays ==
  ASSUME IInv, [Next]_vars, NEW n \in Node, up'[n], NEW s \in Session
  PROVE  \/ pending'[n][s] = pending[n][s]
         \/ QueueRequest(n) /\ loop[n].job.sid = s
         \/ n \in Manual /\ \E m \in Override : SubmitLocalSign(n, s, m)
<1>1. pending \in [Node -> [Session -> Queued \cup {None}]]
  BY DEF IInv, QueuesOK
<1>2. ASSUME NEW p \in Node, Crash(p)
      PROVE  pending'[n][s] = pending[n][s]
  BY <1>1, <1>2 DEF Crash, StopProcess, IInv, ChannelsCarry
<1>3. ASSUME NEW p \in Manual, NEW t \in Session, NEW m \in Override,
             SubmitLocalSign(p, t, m)
      PROVE  \/ pending'[n][s] = pending[n][s]
             \/ p = n /\ t = s
  BY <1>1, <1>3, SigningAssumption DEF SubmitLocalSign
<1>4. ASSUME NEW p \in Node, QueueRequest(p)
      PROVE  \/ pending'[n][s] = pending[n][s]
             \/ p = n /\ loop[n].job.sid = s
  <2>1. loop[p].job.sid \in Session
    BY <1>4, JobIsAnswer DEF QueueRequest, Job
  <2>2. QED
    BY <1>1, <1>4, <2>1 DEF QueueRequest
<1>5. \/ UNCHANGED pending
      \/ \E p \in Node : Crash(p)
      \/ \E p \in Manual, t \in Session, m \in Override : SubmitLocalSign(p, t, m)
      \/ \E p \in Node : QueueRequest(p)
  BY DEF Next, Operator, MainLoop, SubmitSignRequest, SetAutoSign, PublishSignRequest,
         OnSignRequest, RespondToRequest, OnSignResponse, Aggregate,
         StoreResult, BroadcastResult, OnAggResult, PublishLocalSign, LearnKey,
         BecomeReady, Transfer, Loss, nodeVars, vars
<1>6. QED
  BY <1>2, <1>3, <1>4, <1>5

LEMMA AnswerStays ==
  ASSUME IInv, [Next]_vars, NEW n \in Node, up'[n], loop[n] # None,
         loop[n].do \in {"respond", "queue"}
  PROVE  loop'[n] = loop[n] \/ QueueRequest(n) \/ RespondToRequest(n)
<1>1. PICK L : loop \in [Node -> L]
  BY DEF IInv, LoopsOK
<1>2. ASSUME NEW p \in Node, Crash(p)
      PROVE  loop'[n] = loop[n]
  BY <1>1, <1>2 DEF Crash, StopProcess, IInv, ChannelsCarry
<1>3. ASSUME NEW p \in Node, MainLoop(p), p # n
      PROVE  loop'[n] = loop[n]
  BY <1>1, <1>3
     DEF MainLoop, OnSignRequest, QueueRequest, RespondToRequest, OnSignResponse,
         Aggregate, StoreResult, BroadcastResult, OnAggResult
<1>4. CASE MainLoop(n)
  BY <1>4
     DEF MainLoop, OnSignRequest, OnSignResponse, Aggregate, StoreResult,
         BroadcastResult, OnAggResult, Handles
<1>5. \/ UNCHANGED loop
      \/ \E p \in Node : Crash(p) \/ MainLoop(p)
  BY DEF Next, Operator, SubmitSignRequest, SetAutoSign, SubmitLocalSign,
         PublishSignRequest, PublishLocalSign, LearnKey, BecomeReady, Transfer, Loss,
         vars
<1>6. QED
  BY <1>2, <1>3, <1>4, <1>5

\* An envelope in a queue stays there, when the queue has room, unless it is the
\* one the main loop takes.
LEMMA QueuedStays ==
  ASSUME NEW S, NEW queue \in Seq(S), NEW i \in DOMAIN queue
  PROVE  /\ \A env \in S : Len(queue) < QueueCap =>
              \E j \in DOMAIN PushInbound(queue, env) :
                PushInbound(queue, env)[j] = queue[i]
         /\ queue # <<>>
         /\ queue[i] = Head(queue) \/ \E j \in DOMAIN Tail(queue) : Tail(queue)[j] = queue[i]
<1>1. ASSUME NEW env \in S, Len(queue) < QueueCap
      PROVE  i \in DOMAIN PushInbound(queue, env) /\ PushInbound(queue, env)[i] = queue[i]
  BY <1>1 DEF PushInbound
<1>2. ASSUME i # 1
      PROVE  i - 1 \in DOMAIN Tail(queue) /\ Tail(queue)[i - 1] = queue[i]
  BY <1>2
<1>3. QED
  BY <1>1, <1>2

LEMMA PushedArrives ==
  ASSUME NEW S, NEW queue \in Seq(S), NEW env \in S, Len(queue) < QueueCap
  PROVE  \E j \in DOMAIN PushInbound(queue, env) : PushInbound(queue, env)[j] = env
<1>1. /\ Len(queue) + 1 \in DOMAIN PushInbound(queue, env)
      /\ PushInbound(queue, env)[Len(queue) + 1] = env
  BY DEF PushInbound
<1>2. QED
  BY <1>1

LEMMA PublishKeepsInbound ==
  ASSUME NEW S, ChannelsCarry(S), NEW p \in Node, NEW to \in SUBSET Node, NEW env \in S,
         Publish(p, to, env), NEW n \in Node, HasRoom(n), UNCHANGED up
  PROVE  /\ Inbound(n) \subseteq Inbound(n)'
         /\ n \in to /\ up[n] => env \in Inbound(n)'
<1>1. inCh \in [Node -> Seq(S)]
  BY DEF ChannelsCarry
<1>2. \/ inCh'[n] = inCh[n] /\ (p # n \/ n \notin to)
      \/ p = n /\ n \in to /\ inCh'[n] = PushInbound(inCh[n], env)
  BY <1>1 DEF Publish
<1>3. ASSUME NEW i \in DOMAIN inCh[n]
      PROVE  \E j \in DOMAIN inCh'[n] : inCh'[n][j] = inCh[n][i]
  <2>1. inCh[n] \in Seq(S) /\ Len(inCh[n]) < QueueCap
    BY <1>1 DEF HasRoom
  <2>2. QED
    BY <1>2, <2>1, QueuedStays
<1>4. net \subseteq net'
  BY DEF Publish
<1>5. Inbound(n) \subseteq Inbound(n)'
  BY <1>3, <1>4 DEF Inbound
<1>6. ASSUME n \in to, up[n]
      PROVE  env \in Inbound(n)'
  <2>1. CASE p = n
    <3>1. inCh[n] \in Seq(S) /\ Len(inCh[n]) < QueueCap
      BY <1>1 DEF HasRoom
    <3>2. inCh'[n] = PushInbound(inCh[n], env)
      BY <1>2, <1>6, <2>1
    <3>3. \E j \in DOMAIN inCh'[n] : inCh'[n][j] = env
      BY <3>1, <3>2, PushedArrives
    <3>4. QED
      BY <3>3 DEF Inbound
  <2>2. CASE p # n
    <3>1. Frame(n, env) \in net'
      BY <1>6, <2>2 DEF Publish
    <3>2. QED
      BY <3>1 DEF Inbound, Frame
  <2>3. QED
    BY <2>1, <2>2
<1>7. QED
  BY <1>5, <1>6

LEMMA ReadLoopKeepsInbound ==
  ASSUME NEW S, ChannelsCarry(S), NEW f \in net, ReadLoop(f), NEW n \in Node, HasRoom(n)
  PROVE  Inbound(n) \subseteq Inbound(n)'
<1>1. inCh \in [Node -> Seq(S)] /\ f.dst \in Node /\ f.env \in S
  BY DEF ChannelsCarry
<1>2. inCh[n] \in Seq(S) /\ Len(inCh[n]) < QueueCap
  BY <1>1 DEF HasRoom
<1>3. inCh'[n] = IF f.dst = n THEN PushInbound(inCh[n], f.env) ELSE inCh[n]
  BY <1>1 DEF ReadLoop
<1>4. ASSUME NEW i \in DOMAIN inCh[n]
      PROVE  \E j \in DOMAIN inCh'[n] : inCh'[n][j] = inCh[n][i]
  BY <1>1, <1>2, <1>3, QueuedStays
<1>5. ASSUME NEW g \in net, g.dst = n
      PROVE  g.env \in Inbound(n)'
  <2>1. CASE g = f
    <3>1. \E j \in DOMAIN inCh'[n] : inCh'[n][j] = f.env
      BY <1>1, <1>2, <1>3, <1>5, <2>1, PushedArrives
    <3>2. QED
      BY <2>1, <3>1 DEF Inbound
  <2>2. CASE g # f
    <3>1. g \in net'
      BY <2>2 DEF ReadLoop
    <3>2. QED
      BY <1>5, <3>1 DEF Inbound
  <2>3. QED
    BY <2>1, <2>2
<1>6. QED
  BY <1>4, <1>5 DEF Inbound

LEMMA ConsumeKeepsInbound ==
  ASSUME NEW S, ChannelsCarry(S), NEW p \in Node, inCh[p] # <<>>, inCh' = Consume(p),
         UNCHANGED net, NEW n \in Node, NEW env \in Inbound(n)
  PROVE  env \in Inbound(n)' \/ (p = n /\ env = Head(inCh[n]))
<1>1. inCh \in [Node -> Seq(S)]
  BY DEF ChannelsCarry
<1>2. inCh'[n] = IF p = n THEN Tail(inCh[n]) ELSE inCh[n]
  BY <1>1 DEF Consume
<1>3. ASSUME NEW i \in DOMAIN inCh[n]
      PROVE  \/ p = n /\ inCh[n][i] = Head(inCh[n])
             \/ \E j \in DOMAIN inCh'[n] : inCh'[n][j] = inCh[n][i]
  <2>1. inCh[n] \in Seq(S)
    BY <1>1
  <2>2. \/ inCh[n][i] = Head(inCh[n])
        \/ \E j \in DOMAIN Tail(inCh[n]) : Tail(inCh[n])[j] = inCh[n][i]
    BY <2>1, QueuedStays
  <2>3. QED
    BY <1>2, <2>2
<1>4. QED
  BY <1>3 DEF Inbound

LEMMA InboundStays ==
  ASSUME IInv, [Next]_vars, ~Lossy, NEW n \in Node, HasRoom(n), up'[n],
         NEW env \in Inbound(n)
  PROVE  \/ env \in Inbound(n)'
         \/ /\ env = Head(inCh[n])
            /\ OnSignRequest(n) \/ OnSignResponse(n) \/ OnAggResult(n)
<1>1. PICK S : ChannelsCarry(S) /\ S = GoodEnvelope
  BY DEF IInv
<1>2. ASSUME NEW p \in Node, NEW job \in Job, PublishSignResponse(p, job), UNCHANGED up
      PROVE  env \in Inbound(n)'
  <2>1. CASE key[p] # NoKey
    <3> DEFINE e == SignResponse(job.sid, job.message, job.request, p, key[p])
    <3>1. key[p] = KeyOf[p] /\ key[p] \in KeyValue
      BY <2>1 DEF IInv, KeysOK, KeyValue
    <3>2. e \in GoodEnvelope
      BY <3>1 DEF SignResponse, Job, GoodEnvelope, GoodResponse, ResponseEnvelope
    <3>3. Publish(p, {Coordinator}, e)
      BY <1>2, <2>1 DEF PublishSignResponse
    <3>4. QED
      BY <1>1, <1>2, <3>2, <3>3, PublishKeepsInbound, SigningAssumption
  <2>2. CASE key[p] = NoKey
    BY <1>2, <2>2 DEF PublishSignResponse, Inbound
  <2>3. QED
    BY <2>1, <2>2
<1>3. ASSUME NEW r \in submitting, PublishSignRequest(r)
      PROVE  env \in Inbound(n)'
  <2> DEFINE e == SignRequest(requests[r].sid, requests[r].message, r)
  <2>1. e \in GoodEnvelope
    BY RequestIsGood DEF GoodEnvelope
  <2>2. Publish(Coordinator, Node, e) /\ UNCHANGED up
    BY <1>3 DEF PublishSignRequest
  <2>3. QED
    BY <1>1, <2>1, <2>2, PublishKeepsInbound, SigningAssumption
<1>4. ASSUME NEW p \in Node, NEW job \in signing[p], PublishLocalSign(p, job)
      PROVE  env \in Inbound(n)'
  <2>1. job \in Job
    BY DEF IInv, QueuesOK
  <2>2. QED
    BY <1>2, <1>4, <2>1 DEF PublishLocalSign
<1>5. ASSUME NEW p \in Node, RespondToRequest(p)
      PROVE  env \in Inbound(n)'
  <2>1. loop[p].job \in Job
    BY <1>5, JobIsAnswer DEF RespondToRequest
  <2>2. QED
    BY <1>2, <1>5, <2>1 DEF RespondToRequest
<1>6. ASSUME NEW p \in Node, BroadcastResult(p)
      PROVE  env \in Inbound(n)'
  <2>1. loop[p].result \in S
    BY <1>1, <1>6, JobIsConclusion DEF BroadcastResult, Concluding, GoodEnvelope
  <2>2. QED
    BY <1>1, <1>6, <2>1, PublishKeepsInbound DEF BroadcastResult
<1>7. ASSUME NEW p \in Node, OnSignRequest(p) \/ OnSignResponse(p) \/ OnAggResult(p)
      PROVE  \/ env \in Inbound(n)'
             \/ p = n /\ env = Head(inCh[n])
  <2>1. inCh[p] # <<>> /\ inCh' = Consume(p) /\ UNCHANGED net
    BY <1>7 DEF OnSignRequest, OnSignResponse, OnAggResult, Handles, Received
  <2>2. QED
    BY <1>1, <2>1, ConsumeKeepsInbound
<1>8. ASSUME NEW p \in Node, Crash(p)
      PROVE  env \in Inbound(n)'
  <2>1. p # n /\ inCh'[n] = inCh[n]
    BY <1>8 DEF Crash, StopProcess, IInv, ChannelsCarry
  <2>2. \A f \in net : f.dst = n => f \in net'
    BY <1>8, <2>1 DEF Crash, StopProcess
  <2>3. QED
    BY <2>1, <2>2 DEF Inbound
<1>9. CASE Transfer \/ Loss
  BY <1>1, <1>9, ReadLoopKeepsInbound DEF Transfer, Loss, LoseFrame
<1>10. CASE UNCHANGED <<net, inCh>>
  BY <1>10 DEF Inbound
<1>11. \/ UNCHANGED <<net, inCh>>
       \/ Transfer \/ Loss
       \/ \E r \in submitting : PublishSignRequest(r)
       \/ \E p \in Node :
            \/ \E job \in signing[p] : PublishLocalSign(p, job)
            \/ OnSignRequest(p) \/ OnSignResponse(p) \/ OnAggResult(p)
            \/ RespondToRequest(p) \/ BroadcastResult(p)
            \/ Crash(p)
  BY DEF Next, Operator, MainLoop, SubmitSignRequest, SetAutoSign, SubmitLocalSign,
         QueueRequest, Aggregate, StoreResult, LearnKey, BecomeReady, transportVars, vars
<1>12. QED
  BY <1>3, <1>4, <1>5, <1>6, <1>7, <1>8, <1>9, <1>10, <1>11

\* A session that is not submitted again keeps its request and what it has counted.
LEMMA SessionStays ==
  ASSUME IInv, [Next]_vars, up'[Coordinator], NEW s \in Session, sessions[s] # None,
         \A m \in Submitted : ~SubmitSignRequest(s, m)
  PROVE  /\ sessions'[s] # None
         /\ sessions'[s].request = sessions[s].request
         /\ sessions[s].aggregated => sessions'[s].aggregated
         /\ Responders(sessions[s]) \subseteq Responders(sessions'[s])
<1>1. /\ sessions \in [Session -> SessionState \cup {None}]
      /\ sessions[s] \in SessionState
  BY DEF IInv, SessionsOK
<1>2. ASSUME NEW t \in Session, NEW m \in Submitted, SubmitSignRequest(t, m)
      PROVE  sessions'[s] = sessions[s]
  BY <1>1, <1>2 DEF SubmitSignRequest
<1>3. ASSUME NEW n \in Node, OnSignRequest(n)
      PROVE  sessions'[s] = sessions[s]
  BY <1>1, <1>3 DEF OnSignRequest
<1>4. ASSUME NEW n \in Node, Crash(n)
      PROVE  sessions'[s] = sessions[s]
  BY <1>4 DEF Crash, StopProcess, IInv, ChannelsCarry
<1>5. ASSUME NEW n \in Node, OnSignResponse(n)
      PROVE  /\ sessions'[s] # None
             /\ sessions'[s].request = sessions[s].request
             /\ sessions[s].aggregated => sessions'[s].aggregated
             /\ Responders(sessions[s]) \subseteq Responders(sessions'[s])
  <2> DEFINE m == Head(inCh[n])
             response == [message |-> m.message, key |-> m.key]
             added == [sessions[m.sid] EXCEPT !.responses[m.signer] = response]
  <2>1. CASE sessions'[s] = sessions[s]
    BY <2>1
  <2>2. CASE sessions'[s] # sessions[s]
    <3>1. /\ n = Coordinator /\ Accepts(sessions[m.sid], m)
          /\ sessions' = [sessions EXCEPT ![m.sid] = added]
      BY <1>5, <2>2 DEF OnSignResponse
    <3>2. m.sid = s /\ sessions'[s] = added
      BY <1>1, <2>2, <3>1
    <3>3. m \in GoodResponse
      <4>1. m \in GoodEnvelope /\ m.type = "SignResponse"
        BY <1>5, TakeEnvelope DEF OnSignResponse, Handles
      <4>2. QED
        BY <4>1 DEF GoodEnvelope, GoodRequest, GoodResult, RequestEnvelope, Result
    <3>4. sessions[s] \in GoodSession(s)
      BY DEF IInv, SessionsOK
    <3>5. added \in SessionState
      BY <3>1, <3>2, <3>3, <3>4, AcceptedIsGood DEF GoodSession
    <3>6. /\ added.request = sessions[s].request
          /\ added.aggregated = sessions[s].aggregated
          /\ \A i \in Member : i # m.signer => added.responses[i] = sessions[s].responses[i]
      BY <1>1, <3>2 DEF SessionState
    <3>7. Responders(sessions[s]) \subseteq Responders(added)
      BY <3>1, <3>2, <3>6 DEF Responders, Accepts
    <3>8. QED
      BY <3>2, <3>5, <3>6, <3>7, NoneIsNoSession
  <2>3. QED
    BY <2>1, <2>2
<1>6. ASSUME NEW n \in Node, Aggregate(n)
      PROVE  /\ sessions'[s] # None
             /\ sessions'[s].request = sessions[s].request
             /\ sessions[s].aggregated => sessions'[s].aggregated
             /\ Responders(sessions[s]) \subseteq Responders(sessions'[s])
  <2>1. CASE sessions'[s] = sessions[s]
    BY <2>1
  <2>2. CASE sessions'[s] # sessions[s]
    <3>1. sessions' = [sessions EXCEPT ![loop[n].sid].aggregated = TRUE]
      BY <1>6, <2>2 DEF Aggregate, MarkAggregated
    <3>2. sessions'[s] = [sessions[s] EXCEPT !.aggregated = TRUE]
      BY <1>1, <2>2, <3>1
    <3>3. sessions'[s] \in SessionState
      BY <1>1, <3>2 DEF SessionState
    <3>4. QED
      BY <1>1, <3>2, <3>3, NoneIsNoSession DEF SessionState, Responders
  <2>3. QED
    BY <2>1, <2>2
<1>7. \/ UNCHANGED sessions
      \/ \E t \in Session, m \in Submitted : SubmitSignRequest(t, m)
      \/ \E n \in Node : \/ OnSignRequest(n) \/ OnSignResponse(n)
                         \/ Aggregate(n) \/ Crash(n)
  BY DEF Next, Operator, MainLoop, SetAutoSign, SubmitLocalSign, PublishSignRequest,
         PublishLocalSign, QueueRequest, RespondToRequest, StoreResult, BroadcastResult,
         OnAggResult, LearnKey, BecomeReady, Transfer, Loss, roundVars, vars
<1>8. QED
  BY <1>2, <1>3, <1>4, <1>5, <1>6, <1>7

------------------------------------------------------------------------------
\* What becomes a response says what its request says, when no operator overrides
\* the message.

LEMMA RequestedStays ==
  ASSUME IInv, [Next]_vars
  PROVE  \A s, m, r : Requested(s, m, r) => Requested(s, m, r)'
  BY RequestsGrow DEF Requested

LEMMA ChannelsStem ==
  ASSUME IInv, ChannelsCarry(StemEnvelope), JobsStem, [Next]_vars
  PROVE  ChannelsCarry(StemEnvelope)'
<1>1. StemEnvelope \subseteq StemEnvelope'
  BY RequestedStays DEF StemEnvelope
<1>2. PICK S : S = StemEnvelope
  OBVIOUS
<1>3. ChannelsCarry(S) /\ S \subseteq StemEnvelope'
  BY <1>1, <1>2
<1>4. ASSUME NEW p \in Node, NEW job \in Job, PublishSignResponse(p, job), UNCHANGED up,
             Requested(job.sid, job.message, job.request)
      PROVE  ChannelsCarry(S)'
  <2>1. CASE key[p] # NoKey
    <3> DEFINE e == SignResponse(job.sid, job.message, job.request, p, key[p])
    <3>1. key[p] = KeyOf[p] /\ key[p] \in KeyValue
      BY <2>1 DEF IInv, KeysOK, KeyValue
    <3>2. e \in S
      BY <1>2, <1>4, <3>1 DEF SignResponse, Job, StemEnvelope, Envelope, ResponseEnvelope
    <3>3. Publish(p, {Coordinator}, e)
      BY <1>4, <2>1 DEF PublishSignResponse
    <3>4. QED
      BY <1>3, <1>4, <3>2, <3>3, PublishType, SigningAssumption
  <2>2. CASE key[p] = NoKey
    BY <1>3, <1>4, <2>2 DEF PublishSignResponse, ChannelsCarry
  <2>3. QED
    BY <2>1, <2>2
<1>5. ASSUME NEW r \in submitting, PublishSignRequest(r)
      PROVE  ChannelsCarry(S)'
  <2> DEFINE e == SignRequest(requests[r].sid, requests[r].message, r)
  <2>1. e \in S
    BY <1>2, RequestIsGood DEF GoodRequest, SignRequest, StemEnvelope, Envelope
  <2>2. Publish(Coordinator, Node, e) /\ UNCHANGED up
    BY <1>5 DEF PublishSignRequest
  <2>3. QED
    BY <1>3, <2>1, <2>2, PublishType, SigningAssumption
<1>6. ASSUME NEW p \in Node, NEW job \in signing[p], PublishLocalSign(p, job)
      PROVE  ChannelsCarry(S)'
  <2>1. job \in Job
    BY DEF IInv, QueuesOK
  <2>2. QED
    BY <1>4, <1>6, <2>1 DEF PublishLocalSign, JobsStem
<1>7. ASSUME NEW p \in Node, RespondToRequest(p)
      PROVE  ChannelsCarry(S)'
  <2>1. loop[p] \in Answering
    BY <1>7 DEF RespondToRequest, IInv, LoopsOK, Aggregating, Concluding
  <2>2. QED
    BY <1>4, <1>7, <2>1 DEF RespondToRequest, JobsStem, Answering
<1>8. ASSUME NEW p \in Node, BroadcastResult(p)
      PROVE  ChannelsCarry(S)'
  <2>1. loop[p].result \in GoodResult
    BY <1>8, JobIsConclusion DEF BroadcastResult, Concluding
  <2>2. loop[p].result \in S
    BY <1>2, <2>1 DEF StemEnvelope, Envelope, GoodResult, Result
  <2>3. QED
    BY <1>3, <1>8, <2>2, PublishType DEF BroadcastResult
<1>9. ASSUME NEW p \in Node, OnSignRequest(p) \/ OnSignResponse(p) \/ OnAggResult(p)
      PROVE  ChannelsCarry(S)'
  BY <1>3, <1>9, ConsumeType
     DEF OnSignRequest, OnSignResponse, OnAggResult, Handles, Received
<1>10. ASSUME Transfer \/ Loss
       PROVE  ChannelsCarry(S)'
  <2>1. ASSUME NEW f \in net, ReadLoop(f) \/ LoseFrame(f)
        PROVE  ChannelsCarry(S)'
    BY <1>3, <2>1, ReadLoopType, LoseFrameType
  <2>2. QED
    BY <1>10, <2>1 DEF Transfer, Loss
<1>11. ASSUME NEW p \in Node, Crash(p)
       PROVE  ChannelsCarry(S)'
  BY <1>3, <1>11, StopProcessType DEF Crash
<1>12. ASSUME UNCHANGED transportVars
       PROVE  ChannelsCarry(S)'
  BY <1>3, <1>12 DEF transportVars, ChannelsCarry
<1>13. \/ UNCHANGED transportVars
       \/ Transfer \/ Loss
       \/ \E r \in submitting : PublishSignRequest(r)
       \/ \E p \in Node :
            \/ \E job \in signing[p] : PublishLocalSign(p, job)
            \/ OnSignRequest(p) \/ OnSignResponse(p) \/ OnAggResult(p)
            \/ RespondToRequest(p) \/ BroadcastResult(p)
            \/ Crash(p)
  BY DEF Next, Operator, MainLoop, SubmitSignRequest, SetAutoSign, SubmitLocalSign,
         QueueRequest, Aggregate, StoreResult, LearnKey, BecomeReady, vars
<1>14. ChannelsCarry(S)'
  <2>1. ASSUME NEW p \in Node,
               \/ \E job \in signing[p] : PublishLocalSign(p, job)
               \/ OnSignRequest(p) \/ OnSignResponse(p) \/ OnAggResult(p)
               \/ RespondToRequest(p) \/ BroadcastResult(p)
               \/ Crash(p)
        PROVE  ChannelsCarry(S)'
    BY <1>6, <1>7, <1>8, <1>9, <1>11, <2>1
  <2>2. QED
    BY <1>5, <1>10, <1>12, <1>13, <2>1
<1>15. QED
  BY <1>3, <1>14 DEF ChannelsCarry

LEMMA SigningStems ==
  ASSUME IInv, JobsStem, Override \subseteq {None}, [Next]_vars, NEW n \in Node,
         NEW job \in signing'[n]
  PROVE  Requested(job.sid, job.message, job.request)
<1>1. signing \in [Node -> SUBSET Job]
  BY DEF IInv, QueuesOK
<1>2. ASSUME NEW p \in Node, Crash(p)
      PROVE  job \in signing[n]
  BY <1>1, <1>2 DEF Crash
<1>3. ASSUME NEW p \in Manual, NEW s \in Session, NEW m \in Override,
             SubmitLocalSign(p, s, m)
      PROVE  \/ job \in signing[n]
             \/ /\ p = n /\ pending[n][s] # None
                /\ job = [sid |-> s, message |-> pending[n][s].message,
                          request |-> pending[n][s].request]
  BY <1>1, <1>3, SigningAssumption DEF SubmitLocalSign
<1>4. ASSUME NEW p \in Node, NEW j \in signing[p], PublishLocalSign(p, j)
      PROVE  job \in signing[n]
  BY <1>1, <1>4 DEF PublishLocalSign
<1>5. \/ UNCHANGED signing
      \/ \E p \in Node : Crash(p)
      \/ \E p \in Manual, s \in Session, m \in Override : SubmitLocalSign(p, s, m)
      \/ \E p \in Node : \E j \in signing[p] : PublishLocalSign(p, j)
  BY DEF Next, Operator, MainLoop, SubmitSignRequest, SetAutoSign, PublishSignRequest,
         OnSignRequest, QueueRequest, RespondToRequest, OnSignResponse, Aggregate,
         StoreResult, BroadcastResult, OnAggResult, LearnKey, BecomeReady, Transfer,
         Loss, roundVars, vars
<1>6. \/ job \in signing[n]
      \/ \E s \in Session : /\ pending[n][s] # None
                            /\ job = [sid |-> s, message |-> pending[n][s].message,
                                      request |-> pending[n][s].request]
  BY <1>2, <1>3, <1>4, <1>5
<1>7. QED
  BY <1>6 DEF JobsStem

LEMMA PendingStems ==
  ASSUME IInv, JobsStem, [Next]_vars, NEW n \in Node, NEW s \in Session,
         pending'[n][s] # None
  PROVE  Requested(s, pending'[n][s].message, pending'[n][s].request)
<1>1. pending \in [Node -> [Session -> Queued \cup {None}]]
  BY DEF IInv, QueuesOK
<1>2. ASSUME NEW p \in Node, Crash(p)
      PROVE  pending'[n][s] = pending[n][s]
  BY <1>1, <1>2 DEF Crash
<1>3. ASSUME NEW p \in Manual, NEW t \in Session, NEW m \in Override,
             SubmitLocalSign(p, t, m)
      PROVE  pending'[n][s] = pending[n][s]
  BY <1>1, <1>3, SigningAssumption DEF SubmitLocalSign
<1>4. ASSUME NEW p \in Node, QueueRequest(p)
      PROVE  \/ pending'[n][s] = pending[n][s]
             \/ /\ loop[n] \in Answering /\ loop[n].job.sid = s
                /\ pending'[n][s] = [message |-> loop[n].job.message,
                                     request |-> loop[n].job.request]
  <2>1. loop[p] \in Answering
    BY <1>4 DEF QueueRequest, IInv, LoopsOK, Aggregating, Concluding
  <2>2. loop[p].job.sid \in Session
    BY <2>1 DEF Answering, Job
  <2>3. QED
    BY <1>1, <1>4, <2>1, <2>2 DEF QueueRequest
<1>5. \/ UNCHANGED pending
      \/ \E p \in Node : Crash(p)
      \/ \E p \in Manual, t \in Session, m \in Override : SubmitLocalSign(p, t, m)
      \/ \E p \in Node : QueueRequest(p)
  BY DEF Next, Operator, MainLoop, SubmitSignRequest, SetAutoSign, PublishSignRequest,
         OnSignRequest, RespondToRequest, OnSignResponse, Aggregate,
         StoreResult, BroadcastResult, OnAggResult, PublishLocalSign, LearnKey,
         BecomeReady, Transfer, Loss, nodeVars, vars
<1>6. QED
  BY <1>2, <1>3, <1>4, <1>5 DEF JobsStem

LEMMA ResponseOrAggregateLoop ==
  ASSUME IInv, NEW p \in Node, OnSignResponse(p) \/ Aggregate(p), NEW n \in Node
  PROVE  loop'[n] = loop[n] \/ loop'[n] = None \/ loop'[n].do \in {"aggregate", "store"}
<1>1. PICK L : loop \in [Node -> L]
  BY DEF IInv, LoopsOK
<1>2. \/ UNCHANGED loop
      \/ loop' = [loop EXCEPT ![p] = None]
      \/ \E x, y : loop' = [loop EXCEPT ![p] = [do |-> "aggregate", sid |-> x, session |-> y]]
      \/ \E x : loop' = [loop EXCEPT ![p] = [do |-> "store", result |-> x]]
  <2>1. CASE OnSignResponse(p)
    BY <2>1 DEF OnSignResponse
  <2>2. CASE Aggregate(p)
    BY <2>2 DEF Aggregate
  <2>3. QED
    BY <2>1, <2>2
<1>3. QED
  BY <1>1, <1>2

LEMMA LoopStems ==
  ASSUME IInv, JobsStem, [Next]_vars, NEW n \in Node, loop'[n] \in Answering
  PROVE  Requested(loop'[n].job.sid, loop'[n].job.message, loop'[n].job.request)
<1>1. PICK L : loop \in [Node -> L]
  BY DEF IInv, LoopsOK
<1>2. CASE loop'[n] = loop[n]
  BY <1>2 DEF JobsStem
<1>3. CASE OnSignRequest(n)
  <2> DEFINE m == Head(inCh[n])
  <2>1. m \in GoodRequest
    <3>1. m \in GoodEnvelope /\ m.type = "SignRequest"
      BY <1>3, TakeEnvelope DEF OnSignRequest, Handles
    <3>2. QED
      BY <3>1 DEF GoodEnvelope, GoodResponse, GoodResult, ResponseEnvelope, Result
  <2>2. \/ loop'[n] = loop[n]
        \/ loop'[n].job = [sid |-> m.sid, message |-> m.message, request |-> m.request]
    BY <1>1, <1>3 DEF OnSignRequest
  <2>3. QED
    BY <1>2, <2>1, <2>2 DEF GoodRequest
<1>4. ASSUME NEW p \in Node, OnSignRequest(p), p # n
      PROVE  loop'[n] = loop[n]
  BY <1>1, <1>4 DEF OnSignRequest
<1>5. ASSUME NEW p \in Node,
             \/ QueueRequest(p) \/ RespondToRequest(p) \/ BroadcastResult(p) \/ Crash(p)
      PROVE  loop'[n] = loop[n] \/ loop'[n] = None
  BY <1>1, <1>5 DEF QueueRequest, RespondToRequest, BroadcastResult, Crash
<1>6. ASSUME NEW p \in Node, OnSignResponse(p) \/ Aggregate(p)
      PROVE  loop'[n] = loop[n] \/ loop'[n] = None \/ loop'[n].do \in {"aggregate", "store"}
  BY <1>6, ResponseOrAggregateLoop
<1>7. ASSUME NEW p \in Node, StoreResult(p)
      PROVE  loop'[n] = loop[n] \/ loop'[n].do = "broadcast"
  <2>1. loop[p] \in Concluding
    BY <1>7, JobIsConclusion DEF StoreResult
  <2>2. [loop[p] EXCEPT !.do = "broadcast"].do = "broadcast"
    BY <2>1 DEF Concluding
  <2>3. QED
    BY <1>1, <1>7, <2>2 DEF StoreResult
<1>8. loop'[n] # None /\ loop'[n].do \in {"respond", "queue"}
  BY NoneIsNoJob DEF Answering, LoopJob
<1>9. \/ UNCHANGED loop
      \/ \E p \in Node :
           \/ OnSignRequest(p) \/ QueueRequest(p) \/ RespondToRequest(p)
           \/ OnSignResponse(p) \/ Aggregate(p) \/ StoreResult(p) \/ BroadcastResult(p)
           \/ Crash(p)
  BY DEF Next, Operator, MainLoop, SubmitSignRequest, SetAutoSign, SubmitLocalSign,
         PublishSignRequest, OnAggResult, PublishLocalSign, LearnKey, BecomeReady,
         Transfer, Loss, vars
<1>10. QED
  BY <1>2, <1>3, <1>4, <1>5, <1>6, <1>7, <1>8, <1>9

\* A session that is submitted again supersedes its request.
LEMMA ResubmittedIsSuperseded ==
  ASSUME IInv, NEW r \in DOMAIN requests, NEW m \in Submitted,
         SubmitSignRequest(requests[r].sid, m)
  PROVE  Superseded(r)'
<1>1. PICK R : requests \in Seq(R)
  BY DEF IInv, RequestsOK
<1>2. PICK q : q = [sid |-> requests[r].sid, message |-> m]
  OBVIOUS
<1>3. requests' = Append(requests, q)
  BY <1>2 DEF SubmitSignRequest
<1>4. /\ Len(requests) + 1 \in DOMAIN requests'
      /\ requests'[Len(requests) + 1] = q
      /\ requests'[r] = requests[r]
      /\ Len(requests) + 1 > r
  BY <1>1, <1>3
<1>5. QED
  BY <1>2, <1>4 DEF Superseded

LEMMA SessionsStayCurrent ==
  ASSUME IInv, IInv', SessionsCurrent, [Next]_vars
  PROVE  SessionsCurrent'
<1> SUFFICES ASSUME up'[Coordinator], NEW r \in DOMAIN requests', ~Superseded(r)'
             PROVE  /\ sessions'[requests'[r].sid] # None
                    /\ sessions'[requests'[r].sid].request = r
  BY DEF SessionsCurrent
<1>1. CASE r \in DOMAIN requests
  <2>1. PICK s \in Session : s = requests[r].sid
    BY <1>1, SessionsAreNamed
  <2>2. ~Superseded(r) /\ requests'[r] = requests[r] /\ up[Coordinator]
    BY <1>1, RequestsGrow, SigningAssumption
  <2>3. sessions[s] # None /\ sessions[s].request = r
    BY <1>1, <2>1, <2>2 DEF SessionsCurrent
  <2>4. \A m \in Submitted : ~SubmitSignRequest(s, m)
    BY <1>1, <2>1, ResubmittedIsSuperseded
  <2>5. QED
    BY <2>1, <2>2, <2>3, <2>4, SessionStays
<1>2. CASE r \notin DOMAIN requests
  <2>1. PICK s \in Session, m \in Submitted : SubmitSignRequest(s, m)
    BY <1>2
       DEF Next, Operator, MainLoop, SetAutoSign, SubmitLocalSign, PublishSignRequest,
           OnSignRequest, QueueRequest, RespondToRequest, OnSignResponse, Aggregate,
           StoreResult, BroadcastResult, OnAggResult, PublishLocalSign, LearnKey,
           BecomeReady, Crash, Transfer, Loss, roundVars, vars
  <2>2. PICK R : requests \in Seq(R) /\ [sid |-> s, message |-> m] \in R
    BY SigningAssumption DEF IInv, RequestsOK, Payload
  <2>3. requests' = Append(requests, [sid |-> s, message |-> m])
    BY <2>1 DEF SubmitSignRequest
  <2>4. /\ r = Len(requests') /\ requests'[r] = [sid |-> s, message |-> m]
        /\ Len(requests') = Len(requests) + 1
    BY <1>2, <2>2, <2>3
  <2>5. sessions' = [sessions EXCEPT ![s] = NewSession(m, r)]
    BY <2>1, <2>4 DEF SubmitSignRequest
  <2>6. sessions'[s] = NewSession(m, r)
    BY <2>5 DEF IInv, SessionsOK
  <2>7. NewSession(m, r) # None
    <3>1. r \in Request
      BY <2>4, SigningAssumption DEF IInv, RequestsOK, Request
    <3>2. NewSession(m, r) \in SessionState
      BY <3>1, SigningAssumption DEF NewSession, SessionState, Payload
    <3>3. QED
      BY <3>2, NoneIsNoSession
  <2>8. QED
    BY <2>4, <2>6, <2>7 DEF NewSession
<1>3. QED
  BY <1>1, <1>2

LEMMA AutoSignsStays ==
  ASSUME IInv, AutoSigns, [Next]_vars
  PROVE  AutoSigns'
<1> SUFFICES ASSUME NEW n \in Node \ Manual
             PROVE  autoSign'[n] /\ (loop'[n] # None => loop'[n].do # "queue")
  BY DEF AutoSigns
<1>1. PICK L : loop \in [Node -> L]
  BY DEF IInv, LoopsOK
<1>2. autoSign \in [Node -> BOOLEAN]
  BY DEF IInv, KeysOK
<1>3. autoSign'[n] = autoSign[n] \/ autoSign'[n]
  <2>1. ASSUME NEW p \in Node, Crash(p)
        PROVE  autoSign'[n] = autoSign[n] \/ autoSign'[n]
    BY <1>2, <2>1 DEF Crash
  <2>2. ASSUME NEW p \in Manual, SetAutoSign(p)
        PROVE  autoSign'[n] = autoSign[n]
    BY <1>2, <2>2, SigningAssumption DEF SetAutoSign
  <2>3. QED
    BY <2>1, <2>2
       DEF Next, Operator, MainLoop, SubmitSignRequest, SubmitLocalSign,
           PublishSignRequest, OnSignRequest, QueueRequest, RespondToRequest,
           OnSignResponse, Aggregate, StoreResult, BroadcastResult, OnAggResult,
           PublishLocalSign, LearnKey, BecomeReady, Transfer, Loss, nodeVars, vars
<1>4. \/ loop'[n] = loop[n] \/ loop'[n] = None
      \/ loop'[n].do \in {"respond", "aggregate", "store", "broadcast"}
  <2>1. ASSUME NEW p \in Node, MainLoop(p), p # n
        PROVE  loop'[n] = loop[n]
    BY <1>1, <2>1
       DEF MainLoop, OnSignRequest, QueueRequest, RespondToRequest, OnSignResponse,
           Aggregate, StoreResult, BroadcastResult, OnAggResult
  <2>2. CASE OnSignRequest(n)
    BY <1>1, <2>2 DEF OnSignRequest, AutoSigns
  <2>3. CASE StoreResult(n)
    <3>1. loop[n] \in Concluding
      BY <2>3, JobIsConclusion DEF StoreResult
    <3>2. [loop[n] EXCEPT !.do = "broadcast"].do = "broadcast"
      BY <3>1 DEF Concluding
    <3>3. QED
      BY <1>1, <2>3, <3>2 DEF StoreResult
  <2>4. CASE \/ QueueRequest(n) \/ RespondToRequest(n) \/ OnSignResponse(n)
             \/ Aggregate(n) \/ BroadcastResult(n) \/ OnAggResult(n)
    BY <1>1, <2>4, ResponseOrAggregateLoop
       DEF QueueRequest, RespondToRequest, BroadcastResult, OnAggResult
  <2>5. ASSUME NEW p \in Node, Crash(p)
        PROVE  loop'[n] = loop[n] \/ loop'[n] = None
    BY <1>1, <2>5 DEF Crash
  <2>6. \/ UNCHANGED loop
        \/ \E p \in Node : MainLoop(p) \/ Crash(p)
    BY DEF Next, Operator, SubmitSignRequest, SetAutoSign, SubmitLocalSign,
           PublishSignRequest, PublishLocalSign, LearnKey, BecomeReady, Transfer, Loss,
           vars
  <2>7. QED
    BY <2>1, <2>2, <2>3, <2>4, <2>5, <2>6 DEF MainLoop
<1>5. QED
  BY <1>3, <1>4 DEF AutoSigns

LEMMA NextKeepsStem ==
  ASSUME IInv, IInv', StemInv, Override \subseteq {None}, [Next]_vars
  PROVE  StemInv'
<1>1. ChannelsCarry(StemEnvelope)'
  BY ChannelsStem DEF StemInv
<1>2. JobsStem'
  <2>1. /\ \A n \in Node : \A job \in signing'[n] :
             Requested(job.sid, job.message, job.request)'
        /\ \A n \in Node, s \in Session : pending'[n][s] # None =>
             Requested(s, pending[n][s].message, pending[n][s].request)'
        /\ \A n \in Node : loop'[n] \in Answering =>
             Requested(loop[n].job.sid, loop[n].job.message, loop[n].job.request)'
    BY SigningStems, PendingStems, LoopStems, RequestsGrow DEF StemInv, Requested
  <2>2. QED
    BY <2>1 DEF JobsStem, Answering
<1>3. SessionsCurrent' /\ AutoSigns'
  BY SessionsStayCurrent, AutoSignsStays DEF StemInv
<1>4. QED
  BY <1>1, <1>2, <1>3 DEF StemInv

------------------------------------------------------------------------------
(***************************************************************************)
(* A request moves from one place to the next: the control goroutine that  *)
(* publishes it, the member's channel, its main loop, the operator's queue *)
(* and his call, the coordinator's channel, the session.                   *)
(***************************************************************************)
\* The coordinator has r's session aggregated, or n's response to it.
Settled(r, n) ==
  \/ sessions[requests[r].sid].aggregated
  \/ n \in Responders(sessions[requests[r].sid])

\* A response of member n with its key reaches the coordinator's channel.
LEMMA ResponseIsUnderway ==
  ASSUME IInv, NEW n \in Node, NEW job \in Job, key[n] # NoKey,
         PublishSignResponse(n, job), UNCHANGED up, up[Coordinator], HasRoom(Coordinator)
  PROVE  Underway(job.request, n)'
<1> DEFINE e == SignResponse(job.sid, job.message, job.request, n, key[n])
<1>1. key[n] = KeyOf[n] /\ key[n] \in KeyValue
  BY DEF IInv, KeysOK, KeyValue
<1>2. e \in GoodEnvelope
  BY <1>1 DEF SignResponse, Job, GoodEnvelope, GoodResponse, ResponseEnvelope
<1>3. Publish(n, {Coordinator}, e)
  BY DEF PublishSignResponse
<1>4. PICK S : ChannelsCarry(S) /\ S = GoodEnvelope
  BY DEF IInv
<1>5. e \in Inbound(Coordinator)'
  BY <1>2, <1>3, <1>4, PublishKeepsInbound, SigningAssumption
<1>6. e.type = "SignResponse" /\ e.request = job.request /\ e.signer = n
  BY DEF SignResponse
<1>7. QED
  BY <1>5, <1>6 DEF Underway

LEMMA SettledStays ==
  ASSUME IInv, StemInv, [Next]_vars, NEW r \in DOMAIN requests, NEW n \in Node,
         up'[Coordinator], ~Superseded(r)', Settled(r, n)
  PROVE  Settled(r, n)'
<1>1. PICK s \in Session : s = requests[r].sid
  BY SessionsAreNamed
<1>2. ~Superseded(r) /\ requests'[r] = requests[r] /\ up[Coordinator]
  BY RequestsGrow, SigningAssumption
<1>3. sessions[s] # None
  BY <1>1, <1>2 DEF StemInv, SessionsCurrent
<1>4. \A m \in Submitted : ~SubmitSignRequest(s, m)
  BY <1>1, ResubmittedIsSuperseded
<1>5. /\ sessions[s].aggregated => sessions'[s].aggregated
      /\ Responders(sessions[s]) \subseteq Responders(sessions'[s])
  BY <1>3, <1>4, SessionStays
<1>6. QED
  BY <1>1, <1>2, <1>5 DEF Settled

LEMMA SubmittingIsKept ==
  ASSUME IInv, [Next]_vars, NEW r \in submitting, NEW n \in Node, up'[n],
         up'[Coordinator], HasRoom(n)
  PROVE  Underway(r, n)'
<1>1. CASE r \in submitting'
  BY <1>1 DEF Underway
<1>2. CASE PublishSignRequest(r)
  <2> DEFINE e == SignRequest(requests[r].sid, requests[r].message, r)
  <2>1. PICK S : ChannelsCarry(S) /\ S = GoodEnvelope
    BY DEF IInv
  <2>2. e \in S
    BY <2>1, RequestIsGood DEF GoodEnvelope
  <2>3. Publish(Coordinator, Node, e) /\ UNCHANGED up
    BY <1>2 DEF PublishSignRequest
  <2>4. e \in Inbound(n)'
    BY <2>1, <2>2, <2>3, PublishKeepsInbound, SigningAssumption
  <2>5. e.type = "SignRequest" /\ e.request = r
    BY DEF SignRequest
  <2>6. QED
    BY <2>4, <2>5 DEF Underway
<1>3. QED
  BY <1>1, <1>2, SubmittingStays

LEMMA InboundRequestIsKept ==
  ASSUME IInv, [Next]_vars, ~Lossy, NEW r \in DOMAIN requests, requests[r].message # None,
         NEW n \in Node, up'[n], ready[n], HasRoom(n),
         NEW e \in Inbound(n), e.type = "SignRequest", e.request = r
  PROVE  Underway(r, n)'
<1>1. CASE e \in Inbound(n)'
  BY <1>1 DEF Underway
<1>2. CASE e = Head(inCh[n]) /\ OnSignRequest(n)
  <2>1. e \in GoodRequest
    <3>1. e \in GoodEnvelope
      BY <1>2, TakeEnvelope DEF OnSignRequest, Handles
    <3>2. QED
      BY <3>1 DEF GoodEnvelope, GoodResponse, GoodResult, ResponseEnvelope, Result
  <2>2. e.message # None
    BY <2>1 DEF GoodRequest, Requested
  <2> DEFINE j == [sid |-> e.sid, message |-> e.message, request |-> e.request]
  <2>3. e.sid \in Session /\ e.message \in Message /\ e.request \in Request
    BY <2>1, <2>2 DEF GoodRequest, RequestEnvelope, Payload
  <2>9. j \in Job /\ j.request = r
    BY <2>3 DEF Job
  <2>4. PICK d \in {"respond", "queue"} : loop' = [loop EXCEPT ![n] = [do |-> d, job |-> j]]
    BY <1>2, <2>2 DEF OnSignRequest
  <2>5. [do |-> d, job |-> j] # None
    BY <2>9, NoneIsNoJob DEF LoopJob
  <2>6. loop'[n] = [do |-> d, job |-> j]
    BY <2>4 DEF IInv, LoopsOK
  <2>7. loop'[n] # None /\ loop'[n].do \in {"respond", "queue"} /\ loop'[n].job.request = r
    BY <2>5, <2>6, <2>9
  <2>8. QED
    BY <2>7 DEF Underway
<1>3. CASE e = Head(inCh[n]) /\ (OnSignResponse(n) \/ OnAggResult(n))
  BY <1>3 DEF OnSignResponse, OnAggResult, Handles
<1>4. QED
  BY <1>1, <1>2, <1>3, InboundStays

LEMMA LoopJobIsKept ==
  ASSUME IInv, [Next]_vars, NEW r \in DOMAIN requests, NEW n \in Node, up'[n],
         up'[Coordinator], key[n] # NoKey, HasRoom(Coordinator),
         loop[n] # None, loop[n].do \in {"respond", "queue"}, loop[n].job.request = r
  PROVE  Underway(r, n)'
<1>1. CASE loop'[n] = loop[n]
  BY <1>1 DEF Underway
<1>2. loop[n].job \in Job
  BY JobIsAnswer
<1>3. CASE QueueRequest(n)
  <2> DEFINE s == loop[n].job.sid
             queued == [message |-> loop[n].job.message, request |-> loop[n].job.request]
  <2>1. s \in Session
    BY <1>2 DEF Job
  <2>2. pending'[n][s] = queued
    BY <1>3, <2>1 DEF QueueRequest, IInv, QueuesOK
  <2>3. queued # None
    <3>1. queued \in Queued
      BY <1>2 DEF Job, Queued
    <3>2. QED
      BY <3>1, NoneIsNoJob
  <2>4. queued.request = r
    OBVIOUS
  <2>5. QED
    BY <2>1, <2>2, <2>3, <2>4 DEF Underway
<1>4. CASE RespondToRequest(n)
  <2>1. UNCHANGED up /\ up[Coordinator] /\ PublishSignResponse(n, loop[n].job)
    BY <1>4, RequestsGrow, SigningAssumption DEF RespondToRequest
  <2>2. QED
    BY <1>2, <2>1, ResponseIsUnderway
<1>5. QED
  BY <1>1, <1>3, <1>4, AnswerStays

\* A queued request is not overwritten by an older one of its session: there is
\* none, where a request can be queued at all.
LEMMA PendingIsKept ==
  ASSUME IInv, StemInv, Override \subseteq {None}, [Next]_vars,
         NEW r \in DOMAIN requests, NEW n \in Node, up'[n], ~Superseded(r)',
         n \in Manual => \A q \in 1 .. r - 1 : requests[q].sid # requests[r].sid,
         NEW s \in Session, pending[n][s] # None, pending[n][s].request = r
  PROVE  Underway(r, n)'
<1>1. CASE pending'[n][s] = pending[n][s]
  BY <1>1 DEF Underway
<1>2. CASE QueueRequest(n) /\ loop[n].job.sid = s
  <2> DEFINE job == loop[n].job
             queued == [message |-> job.message, request |-> job.request]
  <2>1. loop[n] \in Answering /\ job \in Job
    BY <1>2 DEF QueueRequest, IInv, LoopsOK, Aggregating, Concluding, Answering
  <2>2. Requested(s, job.message, job.request)
    BY <1>2, <2>1 DEF StemInv, JobsStem
  <2>3. requests[r].sid = s
    <3>1. Requested(s, pending[n][s].message, r)
      BY DEF StemInv, JobsStem
    <3>2. QED
      BY <3>1 DEF Requested
  <2>4. n \in Manual
    BY <1>2 DEF QueueRequest, StemInv, AutoSigns
  <2>5. ~Superseded(r)
    BY RequestsGrow
  <2>6. job.request = r
    <3>1. PICK q : q = job.request /\ q \in DOMAIN requests /\ requests[q].sid = s
      BY <2>2 DEF Requested
    <3>2. q \in Nat \ {0} /\ r \in Nat \ {0}
      <4>1. PICK R : requests \in Seq(R)
        BY DEF IInv, RequestsOK
      <4>2. QED
        BY <3>1, <4>1
    <3>3. ~(q > r)
      BY <2>3, <2>5, <3>1 DEF Superseded
    <3>4. ~(q < r)
      BY <2>3, <2>4, <3>1, <3>2
    <3>5. QED
      BY <3>1, <3>2, <3>3, <3>4
  <2>7. pending'[n][s] = queued
    BY <1>2 DEF QueueRequest, IInv, QueuesOK
  <2>8. queued \in Queued /\ queued # None
    BY <2>1, NoneIsNoJob DEF Job, Queued
  <2>9. QED
    BY <2>6, <2>7, <2>8 DEF Underway
<1>3. ASSUME NEW m \in Override, SubmitLocalSign(n, s, m)
      PROVE  Underway(r, n)'
  <2> DEFINE job == [sid |-> s, message |-> pending[n][s].message, request |-> r]
  <2>1. m = None
    BY <1>3
  <2>2. job \in signing'[n]
    BY <1>3, <2>1 DEF SubmitLocalSign, IInv, QueuesOK
  <2>3. QED
    BY <2>2 DEF Underway
<1>4. QED
  BY <1>1, <1>2, <1>3, PendingStays

LEMMA SigningIsKept ==
  ASSUME IInv, [Next]_vars, NEW n \in Node, up'[n], up'[Coordinator], key[n] # NoKey,
         HasRoom(Coordinator), NEW job \in signing[n]
  PROVE  Underway(job.request, n)'
<1>1. CASE job \in signing'[n]
  BY <1>1 DEF Underway
<1>2. CASE PublishLocalSign(n, job)
  <2>1. job \in Job
    BY DEF IInv, QueuesOK
  <2>2. UNCHANGED up /\ up[Coordinator] /\ PublishSignResponse(n, job)
    BY <1>2, RequestsGrow, SigningAssumption DEF PublishLocalSign
  <2>3. QED
    BY <2>1, <2>2, ResponseIsUnderway
<1>3. QED
  BY <1>1, <1>2, SigningStays

\* The coordinator accepts the response, or needs it no more.
LEMMA ResponseIsKept ==
  ASSUME IInv, StemInv, [Next]_vars, ~Lossy, NEW r \in DOMAIN requests,
         NEW n \in Node \cap Member, up'[Coordinator], ~Superseded(r)',
         HasRoom(Coordinator),
         NEW e \in Inbound(Coordinator), e.type = "SignResponse", e.request = r,
         e.signer = n
  PROVE  Underway(r, n)' \/ Settled(r, n)'
<1>1. CASE e \in Inbound(Coordinator)'
  BY <1>1 DEF Underway
<1>2. CASE e = Head(inCh[Coordinator]) /\ OnSignResponse(Coordinator)
  <2>1. e \in GoodResponse
    <3>1. e \in GoodEnvelope
      BY <1>2, TakeEnvelope, SigningAssumption DEF OnSignResponse, Handles
    <3>2. QED
      BY <3>1 DEF GoodEnvelope, GoodRequest, GoodResult, RequestEnvelope, Result
  <2>2. Requested(e.sid, e.message, r)
    <3>1. inCh[Coordinator] \in Seq(StemEnvelope) /\ inCh[Coordinator] # <<>>
      BY <1>2, SigningAssumption
         DEF StemInv, ChannelsCarry, OnSignResponse, Handles, Received
    <3>2. \A S : inCh[Coordinator] \in Seq(S) => Head(inCh[Coordinator]) \in S
      BY <3>1
    <3>3. e \in StemEnvelope
      BY <1>2, <3>1, <3>2
    <3>4. QED
      BY <3>3 DEF StemEnvelope
  <2>3. PICK s \in Session : s = e.sid /\ s = requests[r].sid
    BY <2>1, <2>2 DEF GoodResponse, ResponseEnvelope, Requested
  <2>4. ~Superseded(r) /\ up[Coordinator] /\ requests'[r] = requests[r]
    BY RequestsGrow, SigningAssumption
  <2>5. sessions[s] # None /\ sessions[s].request = r
    BY <2>3, <2>4 DEF StemInv, SessionsCurrent
  <2>6. sessions[s] \in GoodSession(s)
    BY <2>5 DEF IInv, SessionsOK
  <2>7. sessions[s].message = e.message
    BY <2>2, <2>5, <2>6 DEF GoodSession, Requested
  <2>8. CASE Accepts(sessions[s], e)
    <3> DEFINE response == [message |-> e.message, key |-> e.key]
               added == [sessions[s] EXCEPT !.responses[n] = response]
    <3>1. sessions' = [sessions EXCEPT ![s] = added]
      BY <1>2, <2>3, <2>8 DEF OnSignResponse
    <3>2. sessions'[s] = added
      BY <3>1 DEF IInv, SessionsOK
    <3>3. added.responses[n] = response
      BY <2>6 DEF GoodSession, SessionState
    <3>4. response # None
      <4>1. response \in Response
        BY <2>1 DEF GoodResponse, ResponseEnvelope, Response
      <4>2. QED
        BY <4>1, NoneIsNoJob
    <3>5. n \in Responders(sessions'[s])
      BY <3>2, <3>3, <3>4 DEF Responders
    <3>6. QED
      BY <2>3, <2>4, <3>5 DEF Settled
  <2>9. CASE ~Accepts(sessions[s], e)
    <3>1. sessions[s].aggregated \/ n \in Responders(sessions[s])
      BY <2>5, <2>6, <2>7, <2>9
         DEF Accepts, VerifyShare, Responders, GoodSession, SessionState
    <3>2. Settled(r, n)
      BY <2>3, <3>1 DEF Settled
    <3>3. QED
      BY <3>2, SettledStays
  <2>10. QED
    BY <2>8, <2>9
<1>3. CASE e = Head(inCh[Coordinator]) /\ (OnSignRequest(Coordinator) \/ OnAggResult(Coordinator))
  BY <1>3 DEF OnSignRequest, OnAggResult, Handles
<1>4. QED
  BY <1>1, <1>2, <1>3, InboundStays, SigningAssumption

\* Node n is a member that can answer requests.
CanAnswer(n) == n \in Node \cap Member /\ up[n] /\ ready[n] /\ key[n] # NoKey

\* The coordinator expects an answer to request r from node n.
Expected(r, n) ==
  /\ r \in DOMAIN requests
  /\ requests[r].message # None
  /\ ~Superseded(r)
  /\ n \in Manual => \A q \in 1 .. r - 1 : requests[q].sid # requests[r].sid

LEMMA ExpectedWasExpected ==
  ASSUME IInv, [Next]_vars, NEW r \in DOMAIN requests, NEW n, Expected(r, n)'
  PROVE  Expected(r, n) /\ requests'[r] = requests[r]
<1>1. PICK R : requests \in Seq(R)
  BY DEF IInv, RequestsOK
<1>2. /\ \A q \in DOMAIN requests : requests'[q] = requests[q]
      /\ ~Superseded(r)
  BY RequestsGrow DEF Expected
<1>3. \A q \in 1 .. r - 1 : q \in DOMAIN requests
  BY <1>1
<1>4. QED
  BY <1>2, <1>3 DEF Expected

LEMMA KeptStays ==
  ASSUME IInv, StemInv, Reliable, [Next]_vars, HasRoom(Coordinator),
         NEW r, NEW n, HasRoom(n), CanAnswer(n), up'[n], up'[Coordinator],
         Expected(r, n) => Underway(r, n) \/ Settled(r, n)
  PROVE  Expected(r, n)' => (Underway(r, n) \/ Settled(r, n))'
<1> SUFFICES ASSUME Expected(r, n)'
             PROVE  Underway(r, n)' \/ Settled(r, n)'
  OBVIOUS
<1>1. CASE r \notin DOMAIN requests
  <2>1. r \in submitting'
    BY <1>1, RequestsGrow DEF Expected
  <2>2. QED
    BY <2>1 DEF Underway
<1>2. CASE r \in DOMAIN requests
  <2>1. Expected(r, n) /\ ~Superseded(r)'
    BY <1>2, ExpectedWasExpected DEF Expected
  <2>2. n \in Node \cap Member /\ ready[n] /\ key[n] # NoKey
    BY DEF CanAnswer
  <2>3. CASE Settled(r, n)
    BY <1>2, <2>1, <2>2, <2>3, SettledStays
  <2>4. CASE r \in submitting
    BY <2>2, <2>4, SubmittingIsKept
  <2>5. ASSUME NEW e \in Inbound(n), e.type = "SignRequest", e.request = r
        PROVE  Underway(r, n)'
    BY <1>2, <2>1, <2>2, <2>5, InboundRequestIsKept DEF Expected, Reliable
  <2>6. CASE /\ loop[n] # None /\ loop[n].do \in {"respond", "queue"}
             /\ loop[n].job.request = r
    BY <1>2, <2>2, <2>6, LoopJobIsKept
  <2>7. ASSUME NEW s \in Session, pending[n][s] # None, pending[n][s].request = r
        PROVE  Underway(r, n)'
    BY <1>2, <2>1, <2>2, <2>7, PendingIsKept DEF Expected, Reliable
  <2>8. ASSUME NEW job \in signing[n], job.request = r
        PROVE  Underway(r, n)'
    BY <2>2, <2>8, SigningIsKept
  <2>9. ASSUME NEW e \in Inbound(Coordinator), e.type = "SignResponse", e.request = r,
               e.signer = n
        PROVE  Underway(r, n)' \/ Settled(r, n)'
    BY <1>2, <2>1, <2>2, <2>9, ResponseIsKept DEF Reliable
  <2>10. QED
    BY <2>1, <2>3, <2>4, <2>5, <2>6, <2>7, <2>8, <2>9 DEF Underway
<1>3. QED
  BY <1>1, <1>2

LEMMA StaysReadyStays ==
  ASSUME IInv, StaysReady, [Next]_vars
  PROVE  StaysReady'
<1> SUFFICES ASSUME NEW n \in AlreadyReady, up'[n]
             PROVE  ready'[n] /\ key'[n] # NoKey
  BY DEF StaysReady
<1>1. n \in Node /\ up[n] /\ ready[n] /\ key[n] # NoKey
  BY RequestsGrow, SigningAssumption DEF StaysReady
<1>2. key \in [Node -> KeyValue \cup {NoKey}] /\ ready \in [Node -> BOOLEAN]
  BY DEF IInv, KeysOK
<1>3. ASSUME NEW p \in Node, Crash(p)
      PROVE  ready'[n] = ready[n] /\ key'[n] = key[n]
  BY <1>1, <1>2, <1>3 DEF Crash, StopProcess, IInv, ChannelsCarry
<1>4. ASSUME NEW p \in Node, LearnKey(p) \/ BecomeReady(p)
      PROVE  ready'[n] /\ key'[n] # NoKey
  BY <1>1, <1>2, <1>4, SigningAssumption DEF LearnKey, BecomeReady
<1>5. \/ UNCHANGED <<key, ready>>
      \/ \E p \in Node : Crash(p) \/ LearnKey(p) \/ BecomeReady(p)
  BY DEF Next, Operator, MainLoop, SubmitSignRequest, SetAutoSign, SubmitLocalSign,
         PublishSignRequest, OnSignRequest, QueueRequest, RespondToRequest,
         OnSignResponse, Aggregate, StoreResult, BroadcastResult, OnAggResult,
         PublishLocalSign, Transfer, Loss, nodeVars, vars
<1>6. QED
  <2>1. CASE UNCHANGED <<key, ready>>
    BY <1>1, <2>1
  <2>2. ASSUME NEW p \in Node, Crash(p)
        PROVE  ready'[n] /\ key'[n] # NoKey
    <3>1. ready'[n] = ready[n] /\ key'[n] = key[n]
      BY <1>3, <2>2
    <3>2. QED
      BY <1>1, <3>1
  <2>3. QED
    BY <1>4, <1>5, <2>1, <2>2

\* The inductive form of NoRequestIsForgotten.
DeliveryInv ==
  /\ StemInv
  /\ StaysReady
  /\ \A n \in Member \cap AlreadyReady :
       up[n] /\ up[Coordinator] => \A r : Expected(r, n) => Underway(r, n) \/ Settled(r, n)

LEMMA NextKeepsDelivery ==
  ASSUME Reliable
  PROVE  IInv /\ DeliveryInv /\ (\A n \in Node : HasRoom(n)) /\ [Next]_vars
           => DeliveryInv'
<1> SUFFICES ASSUME IInv, DeliveryInv, \A n \in Node : HasRoom(n), [Next]_vars
             PROVE  DeliveryInv'
  OBVIOUS
<1>1. IInv'
  BY NextPreservesIInv
<1>2. StemInv'
  BY <1>1, NextKeepsStem DEF DeliveryInv, Reliable
<1>3. StaysReady'
  BY StaysReadyStays DEF DeliveryInv
<1>4. ASSUME NEW n \in Member \cap AlreadyReady, up'[n], up'[Coordinator], NEW r
      PROVE  Expected(r, n)' => (Underway(r, n) \/ Settled(r, n))'
  <2>1. up[n] /\ up[Coordinator] /\ n \in Node
    BY <1>4, RequestsGrow, SigningAssumption
  <2>2. CanAnswer(n)
    BY <2>1 DEF DeliveryInv, StaysReady, CanAnswer
  <2>3. Expected(r, n) => Underway(r, n) \/ Settled(r, n)
    BY <2>1 DEF DeliveryInv
  <2>4. QED
    BY <1>4, <2>1, <2>2, <2>3, KeptStays, SigningAssumption DEF DeliveryInv
<1>5. QED
  BY <1>2, <1>3, <1>4 DEF DeliveryInv

\* No member loses a request: until it is replaced, the request waits for the
\* operator, is being handled, its response is on its way, or the coordinator has
\* counted it or needs it no more (SubmitSignRequest, onSignRequest,
\* publishSignResponse, SubmitLocalSign, onSignResponse).  The connections must be
\* reliable and no inbound channel may overflow, since nothing is sent twice, and
\* an operator must not sign another message under the name of the session.
THEOREM NothingForgotten ==
  ASSUME Reliable
  PROVE  Spec /\ [](\A n \in Node : HasRoom(n)) => []NoRequestIsForgotten
<1>1. Init => DeliveryInv
  <2> SUFFICES ASSUME Init PROVE DeliveryInv
    OBVIOUS
  <2>1. \A r, n : ~Expected(r, n)
    BY DEF Init, Expected
  <2>2. QED
    BY <2>1, InitEstablishesStem DEF DeliveryInv
<1>2. IInv /\ DeliveryInv /\ (\A n \in Node : HasRoom(n)) /\ [Next]_vars => DeliveryInv'
  BY NextKeepsDelivery
<1>3. DeliveryInv => NoRequestIsForgotten
  BY DEF DeliveryInv, NoRequestIsForgotten, Expected, Settled
<1>4. QED
  BY <1>1, <1>2, <1>3, IInvIsInvariant, PTL DEF Spec

------------------------------------------------------------------------------
(***************************************************************************)
(* The results.  When all members have one key, a session with enough      *)
(* responses is aggregated, and its result goes to every node that runs.   *)
(***************************************************************************)
OneCommitteeKey == \A n \in Node : KeyOf[n] = KeyOf[Coordinator]

ReadyHaveKeys == \A n \in Node : ready[n] => key[n] # NoKey

\* A session holds responses to its own message, and the coordinator has a key to
\* verify them with.
ResponsesFit ==
  \A s \in Session : sessions[s] # None =>
    /\ key[Coordinator] # NoKey
    /\ \A i \in Responders(sessions[s]) :
         sessions[s].responses[i].message = sessions[s].message

\* Session s has enough responses and no result.
Waiting(s) == sessions[s] # None /\ ~sessions[s].aggregated /\ Enough(sessions[s])

\* The coordinator is aggregating session s as it is.
IsAggregating(s) ==
  /\ loop[Coordinator] # None /\ loop[Coordinator].do = "aggregate"
  /\ loop[Coordinator].sid = s /\ loop[Coordinator].session = sessions[s]

EnoughAreAggregated == \A s \in Session : Waiting(s) => IsAggregating(s)

\* Node n has a result of session s, or one is on its way there.
Informed(n, s) ==
  \/ aggResults[n][s] # None
  \/ \E e \in Inbound(n) : IsResultOf(e, s)
  \/ HasInHand(s)

ResultsArrive ==
  \A s \in Session : (sessions[s] # None /\ sessions[s].aggregated)
                       => \A n \in Node : up[n] => Informed(n, s)

ConcludesInv ==
  /\ ReadyHaveKeys
  /\ up[Coordinator] => ResponsesFit /\ EnoughAreAggregated /\ ResultsArrive

LEMMA InitEstablishesConcludes == Init => ConcludesInv
<1> SUFFICES ASSUME Init PROVE ConcludesInv
  OBVIOUS
<1>1. ReadyHaveKeys
  BY SigningAssumption DEF Init, ReadyHaveKeys
<1>2. \A s \in Session : sessions[s] = None
  BY DEF Init
<1>3. ResponsesFit /\ EnoughAreAggregated /\ ResultsArrive
  BY <1>2 DEF ResponsesFit, EnoughAreAggregated, Waiting, ResultsArrive
<1>4. QED
  BY <1>1, <1>3 DEF ConcludesInv

\* What the main loop of a busy coordinator does.
LEMMA BusyLoop ==
  ASSUME IInv, [Next]_vars, up'[Coordinator], loop[Coordinator] # None
  PROVE  \/ loop'[Coordinator] = loop[Coordinator]
         \/ QueueRequest(Coordinator) \/ RespondToRequest(Coordinator)
         \/ Aggregate(Coordinator) \/ StoreResult(Coordinator)
         \/ BroadcastResult(Coordinator)
<1>1. PICK L : loop \in [Node -> L]
  BY DEF IInv, LoopsOK
<1>2. ASSUME NEW p \in Node, MainLoop(p), p # Coordinator
      PROVE  loop'[Coordinator] = loop[Coordinator]
  BY <1>1, <1>2, SigningAssumption
     DEF MainLoop, OnSignRequest, QueueRequest, RespondToRequest, OnSignResponse,
         Aggregate, StoreResult, BroadcastResult, OnAggResult
<1>3. CASE MainLoop(Coordinator)
  BY <1>3 DEF MainLoop, OnSignRequest, OnSignResponse, OnAggResult, Handles
<1>4. ASSUME NEW p \in Node, Crash(p)
      PROVE  loop'[Coordinator] = loop[Coordinator]
  <2>1. p # Coordinator
    BY <1>4 DEF Crash, StopProcess, IInv, ChannelsCarry
  <2>2. QED
    BY <1>1, <1>4, <2>1, SigningAssumption DEF Crash
<1>5. \/ UNCHANGED loop
      \/ \E p \in Node : MainLoop(p) \/ Crash(p)
  BY DEF Next, Operator, SubmitSignRequest, SetAutoSign, SubmitLocalSign,
         PublishSignRequest, PublishLocalSign, LearnKey, BecomeReady, Transfer, Loss, vars
<1>6. QED
  BY <1>2, <1>3, <1>4, <1>5

\* A response is added to session s.
Adds(s) ==
  \E m \in GoodResponse :
    LET added == [sessions[s] EXCEPT !.responses[m.signer] =
                    [message |-> m.message, key |-> m.key]]
    IN  /\ sessions[s] # None /\ Accepts(sessions[s], m)
        /\ sessions'[s] = added
        /\ Enough(added) => loop'[Coordinator] = [do |-> "aggregate", sid |-> s, session |-> added]
        /\ UNCHANGED <<key, ready>>

\* Session s begins.
Begins(s) ==
  /\ ready[Coordinator] /\ UNCHANGED <<key, ready>>
  /\ \E m, r : sessions'[s] = NewSession(m, r)

\* Session s gets its result.
Concluded(s) ==
  /\ UNCHANGED <<key, ready>>
  /\ sessions[s] \in SessionState
  /\ sessions'[s] = [sessions[s] EXCEPT !.aggregated = TRUE]
  /\ HasInHand(s)'

\* How a session changes.
LEMMA SessionChanges ==
  ASSUME IInv, [Next]_vars, up'[Coordinator], NEW s \in Session
  PROVE  sessions'[s] = sessions[s] \/ Adds(s) \/ Begins(s) \/ Concluded(s)
<1>1. sessions \in [Session -> SessionState \cup {None}]
  BY DEF IInv, SessionsOK
<1>2. PICK L : loop \in [Node -> L]
  BY DEF IInv, LoopsOK
<1>3. ASSUME NEW t \in Session, NEW m \in Submitted, SubmitSignRequest(t, m)
      PROVE  sessions'[s] = sessions[s] \/ Begins(s)
  BY <1>1, <1>3 DEF SubmitSignRequest, nodeVars, Begins
<1>4. ASSUME NEW n \in Node, OnSignRequest(n)
      PROVE  sessions'[s] = sessions[s] \/ Begins(s)
  BY <1>1, <1>4 DEF OnSignRequest, nodeVars, Begins
<1>5. ASSUME NEW n \in Node, OnSignResponse(n)
      PROVE  sessions'[s] = sessions[s] \/ Adds(s)
  <2> DEFINE m == Head(inCh[n])
             added == [sessions[m.sid] EXCEPT !.responses[m.signer] =
                         [message |-> m.message, key |-> m.key]]
  <2>1. m \in GoodResponse
    <3>1. m \in GoodEnvelope /\ m.type = "SignResponse"
      BY <1>5, TakeEnvelope DEF OnSignResponse, Handles
    <3>2. QED
      BY <3>1 DEF GoodEnvelope, GoodRequest, GoodResult, RequestEnvelope, Result
  <2>2. UNCHANGED <<key, ready>>
    BY <1>5 DEF OnSignResponse, nodeVars
  <2>3. CASE n = Coordinator /\ Accepts(sessions[m.sid], m) /\ m.sid = s
    <3>1. /\ sessions' = [sessions EXCEPT ![m.sid] = added]
          /\ loop' = IF Enough(added)
                       THEN [loop EXCEPT ![n] = [do |-> "aggregate", sid |-> m.sid,
                                                 session |-> added]]
                       ELSE loop
      BY <1>5, <2>3 DEF OnSignResponse
    <3>2. sessions'[s] = added /\ sessions[s] # None
      BY <1>1, <2>3, <3>1 DEF Accepts
    <3>3. Enough(added) => loop'[Coordinator] = [do |-> "aggregate", sid |-> s,
                                                 session |-> added]
      BY <1>2, <2>3, <3>1
    <3>4. QED
      BY <2>1, <2>2, <2>3, <3>2, <3>3 DEF Adds
  <2>4. CASE ~(n = Coordinator /\ Accepts(sessions[m.sid], m) /\ m.sid = s)
    BY <1>1, <1>5, <2>4 DEF OnSignResponse
  <2>5. QED
    BY <2>3, <2>4
<1>6. ASSUME NEW n \in Node, Aggregate(n)
      PROVE  sessions'[s] = sessions[s] \/ Concluded(s)
  <2> DEFINE state == loop[n].session
             result == AggResult(s, state.message, state.request, Responders(state), key[n])
  <2>1. n = Coordinator /\ loop[n] \in Aggregating
    BY <1>6, JobIsAggregation DEF Aggregate
  <2>2. CASE sessions'[s] # sessions[s]
    <3>1. VerifyAggregate(state, key[n]) /\ loop[n].sid = s
      BY <1>1, <1>6, <2>2 DEF Aggregate, MarkAggregated
    <3>2. /\ sessions' = [sessions EXCEPT ![s].aggregated = TRUE]
          /\ loop' = [loop EXCEPT ![n] = [do |-> "store", result |-> result]]
      BY <1>6, <2>2, <3>1 DEF Aggregate, MarkAggregated
    <3>3. result \in GoodResult /\ result.sid = s
      <4>1. /\ state \in GoodSession(s)
            /\ Cardinality(Responders(state)) >= Threshold
        BY <2>1, <3>1 DEF Aggregating
      <4>2. QED
        BY <2>1, <3>1, <4>1, AggregateIsGood DEF AggResult
    <3>4. [do |-> "store", result |-> result] # None
      BY <3>3, NoneIsNoJob DEF LoopJob, GoodResult
    <3>5. loop'[Coordinator] = [do |-> "store", result |-> result]
      BY <1>2, <2>1, <3>2
    <3>6. HasInHand(s)'
      BY <3>3, <3>4, <3>5 DEF HasInHand, Concludes
    <3>7. sessions'[s] = [sessions[s] EXCEPT !.aggregated = TRUE]
      BY <1>1, <3>2
    <3>8. UNCHANGED <<key, ready>>
      BY <1>6 DEF Aggregate, nodeVars
    <3>9. sessions[s] \in SessionState
      BY <2>1, <3>1 DEF Aggregating, GoodSession
    <3>10. QED
      BY <3>6, <3>7, <3>8, <3>9 DEF Concluded
  <2>3. QED
    BY <2>2
<1>7. ASSUME NEW n \in Node, Crash(n)
      PROVE  sessions'[s] = sessions[s]
  BY <1>7 DEF Crash, StopProcess, IInv, ChannelsCarry
<1>8. \/ UNCHANGED sessions
      \/ \E t \in Session, m \in Submitted : SubmitSignRequest(t, m)
      \/ \E n \in Node : \/ OnSignRequest(n) \/ OnSignResponse(n)
                         \/ Aggregate(n) \/ Crash(n)
  BY DEF Next, Operator, MainLoop, SetAutoSign, SubmitLocalSign, PublishSignRequest,
         PublishLocalSign, QueueRequest, RespondToRequest, StoreResult, BroadcastResult,
         OnAggResult, LearnKey, BecomeReady, Transfer, Loss, roundVars, vars
<1>9. QED
  BY <1>3, <1>4, <1>5, <1>6, <1>7, <1>8

LEMMA KeysStay ==
  ASSUME IInv, ReadyHaveKeys, [Next]_vars
  PROVE  /\ ReadyHaveKeys'
         /\ up'[Coordinator] /\ key[Coordinator] # NoKey => key'[Coordinator] # NoKey
<1>1. /\ key \in [Node -> KeyValue \cup {NoKey}] /\ ready \in [Node -> BOOLEAN]
      /\ KeyOf \in [Node -> Nat \ {NoKey}]
      /\ Coordinator \in Node
  BY SigningAssumption DEF IInv, KeysOK
<1>2. ASSUME NEW n \in Node, Crash(n)
      PROVE  /\ ReadyHaveKeys'
             /\ up'[Coordinator] => key'[Coordinator] = key[Coordinator]
  <2>1. ReadyHaveKeys'
    BY <1>1, <1>2 DEF Crash, ReadyHaveKeys
  <2>2. up'[Coordinator] => n # Coordinator
    BY <1>2 DEF Crash, StopProcess, IInv, ChannelsCarry
  <2>3. QED
    BY <1>1, <1>2, <2>1, <2>2 DEF Crash
<1>3. ASSUME NEW n \in Node, LearnKey(n) \/ BecomeReady(n)
      PROVE  /\ ReadyHaveKeys'
             /\ key[Coordinator] # NoKey => key'[Coordinator] # NoKey
  BY <1>1, <1>3 DEF LearnKey, BecomeReady, ReadyHaveKeys
<1>4. \/ UNCHANGED <<key, ready>>
      \/ \E n \in Node : Crash(n) \/ LearnKey(n) \/ BecomeReady(n)
  BY DEF Next, Operator, MainLoop, SubmitSignRequest, SetAutoSign, SubmitLocalSign,
         PublishSignRequest, OnSignRequest, QueueRequest, RespondToRequest,
         OnSignResponse, Aggregate, StoreResult, BroadcastResult, OnAggResult,
         PublishLocalSign, Transfer, Loss, nodeVars, vars
<1>5. QED
  BY <1>2, <1>3, <1>4 DEF ReadyHaveKeys

LEMMA AddedIs ==
  ASSUME IInv, NEW s \in Session, Adds(s)
  PROVE  /\ ~sessions'[s].aggregated
         /\ sessions'[s].message = sessions[s].message
         /\ \A i \in Responders(sessions'[s]) :
              \/ i \in Responders(sessions[s])
                 /\ sessions'[s].responses[i] = sessions[s].responses[i]
              \/ sessions'[s].responses[i].message = sessions[s].message
<1>1. PICK m \in GoodResponse :
        /\ sessions[s] # None /\ Accepts(sessions[s], m)
        /\ sessions'[s] = [sessions[s] EXCEPT !.responses[m.signer] =
                            [message |-> m.message, key |-> m.key]]
  BY DEF Adds
<1>2. sessions[s] \in SessionState
  BY <1>1 DEF IInv, SessionsOK
<1>3. /\ sessions'[s].aggregated = sessions[s].aggregated
      /\ sessions'[s].message = sessions[s].message
      /\ \A i \in Member : sessions'[s].responses[i] =
           IF i = m.signer THEN [message |-> m.message, key |-> m.key]
                           ELSE sessions[s].responses[i]
  BY <1>1, <1>2 DEF SessionState
<1>4. ~sessions[s].aggregated /\ m.message = sessions[s].message
  BY <1>1 DEF Accepts, VerifyShare
<1>5. QED
  BY <1>3, <1>4 DEF Responders

LEMMA ResponsesFitStays ==
  ASSUME IInv, ReadyHaveKeys, ResponsesFit, [Next]_vars, up'[Coordinator]
  PROVE  ResponsesFit'
<1> SUFFICES ASSUME NEW s \in Session, sessions'[s] # None
             PROVE  /\ key'[Coordinator] # NoKey
                    /\ \A i \in Responders(sessions'[s]) :
                         sessions'[s].responses[i].message = sessions'[s].message
  BY DEF ResponsesFit, Responders
<1>1. CASE sessions'[s] = sessions[s]
  BY <1>1, KeysStay DEF ResponsesFit
<1>2. CASE Adds(s)
  <2>1. sessions[s] # None
    BY <1>2 DEF Adds
  <2>2. QED
    BY <1>2, <2>1, KeysStay, AddedIs DEF ResponsesFit
<1>3. CASE Begins(s)
  <2>1. key'[Coordinator] # NoKey
    BY <1>3, SigningAssumption DEF Begins, ReadyHaveKeys
  <2>2. Responders(sessions'[s]) = {}
    BY <1>3 DEF Begins, NewSession, Responders
  <2>3. QED
    BY <2>1, <2>2
<1>4. CASE Concluded(s)
  <2>1. sessions[s] # None
    BY <1>4, NoneIsNoSession DEF Concluded
  <2>2. sessions[s] \in SessionState
    BY <1>4 DEF Concluded
  <2>3. /\ sessions'[s].message = sessions[s].message
        /\ sessions'[s].responses = sessions[s].responses
    BY <1>4, <2>2 DEF Concluded, SessionState
  <2>4. QED
    BY <2>1, <2>3, KeysStay DEF ResponsesFit, Responders
<1>5. QED
  BY <1>1, <1>2, <1>3, <1>4, SessionChanges

\* The responses of a session that fits are all of the coordinator's key.
LEMMA ResponsesVerify ==
  ASSUME IInv, OneCommitteeKey, ResponsesFit, NEW s \in Session, sessions[s] # None
  PROVE  VerifyAggregate(sessions[s], key[Coordinator])
<1> SUFFICES ASSUME NEW i \in Responders(sessions[s])
             PROVE  sessions[s].responses[i] =
                      [message |-> sessions[s].message, key |-> key[Coordinator]]
  BY DEF VerifyAggregate
<1>1. sessions[s] \in GoodSession(s)
  BY DEF IInv, SessionsOK
<1>2. i \in Member /\ sessions[s].responses[i] # None
  BY DEF Responders
<1>3. /\ sessions[s].responses[i] \in Response
      /\ i \in Node /\ sessions[s].responses[i].key = KeyOf[i]
  BY <1>1, <1>2 DEF GoodSession, OwnKeys, SessionState
<1>4. /\ key[Coordinator] = KeyOf[Coordinator]
      /\ sessions[s].responses[i].message = sessions[s].message
  BY SigningAssumption DEF ResponsesFit, IInv, KeysOK
<1>5. sessions[s].responses[i].key = key[Coordinator]
  BY <1>3, <1>4 DEF OneCommitteeKey
<1>6. QED
  BY <1>3, <1>4, <1>5 DEF Response

LEMMA EnoughIsSome ==
  ASSUME NEW session, Responders(session) = {}
  PROVE  ~Enough(session)
  BY FS_EmptySet, SigningAssumption DEF Enough

LEMMA EnoughStaysAggregated ==
  ASSUME IInv, OneCommitteeKey, ResponsesFit, EnoughAreAggregated, [Next]_vars,
         up'[Coordinator]
  PROVE  EnoughAreAggregated'
<1> SUFFICES ASSUME NEW s \in Session, sessions'[s] # None, ~sessions'[s].aggregated,
                    Enough(sessions'[s])
             PROVE  /\ loop'[Coordinator] # None /\ loop'[Coordinator].do = "aggregate"
                    /\ loop'[Coordinator].sid = s
                    /\ loop'[Coordinator].session = sessions'[s]
  BY DEF EnoughAreAggregated, Waiting, IsAggregating, Enough, Responders
<1>1. CASE sessions'[s] = sessions[s]
  <2>1. IsAggregating(s) /\ sessions[s] # None
    BY <1>1 DEF EnoughAreAggregated, Waiting
  <2>2. CASE loop'[Coordinator] = loop[Coordinator]
    BY <1>1, <2>1, <2>2 DEF IsAggregating
  <2>3. CASE Aggregate(Coordinator)
    <3>1. VerifyAggregate(sessions[s], key[Coordinator])
      BY <2>1, ResponsesVerify
    <3>2. sessions' = [sessions EXCEPT ![s].aggregated = TRUE]
      BY <2>1, <2>3, <3>1 DEF Aggregate, MarkAggregated, IsAggregating
    <3>3. sessions \in [Session -> SessionState \cup {None}]
      BY DEF IInv, SessionsOK
    <3>4. sessions'[s].aggregated
      BY <2>1, <3>2, <3>3 DEF SessionState
    <3>5. QED
      BY <3>4
  <2>4. ~(\/ QueueRequest(Coordinator) \/ RespondToRequest(Coordinator)
          \/ StoreResult(Coordinator) \/ BroadcastResult(Coordinator))
    BY <2>1 DEF IsAggregating, QueueRequest, RespondToRequest, StoreResult, BroadcastResult
  <2>5. loop[Coordinator] # None
    BY <2>1 DEF IsAggregating
  <2>6. QED
    BY <2>2, <2>3, <2>4, <2>5, BusyLoop
<1>2. CASE Adds(s)
  <2>1. Enough(sessions'[s]) =>
          loop'[Coordinator] = [do |-> "aggregate", sid |-> s, session |-> sessions'[s]]
    BY <1>2 DEF Adds
  <2>2. loop'[Coordinator] = [do |-> "aggregate", sid |-> s, session |-> sessions'[s]]
    BY <2>1
  <2>3. loop'[Coordinator] # None
    <3>1. IInv'
      BY NextPreservesIInv
    <3>2. sessions'[s] \in SessionState
      BY <3>1 DEF IInv, SessionsOK
    <3>3. loop'[Coordinator] \in LoopJob
      BY <2>2, <3>2 DEF LoopJob
    <3>4. QED
      BY <3>3, NoneIsNoJob
  <2>4. QED
    BY <2>2, <2>3
<1>3. CASE Begins(s)
  <2>1. Responders(sessions'[s]) = {}
    BY <1>3 DEF Begins, NewSession, Responders
  <2>2. QED
    BY <2>1, EnoughIsSome
<1>4. CASE Concluded(s)
  BY <1>4 DEF Concluded, SessionState
<1>5. QED
  BY <1>1, <1>2, <1>3, <1>4, SessionChanges

\* A node keeps what it has stored as long as it runs.
LEMMA ResultsAreKept ==
  ASSUME IInv, [Next]_vars, NEW n \in Node, up'[n], NEW s \in Session,
         aggResults[n][s] # None
  PROVE  aggResults'[n][s] # None
<1>1. aggResults \in [Node -> [Session -> GoodResult \cup {None}]]
  BY DEF IInv, ResultsOK
<1>2. ASSUME NEW p \in Node, NEW result \in GoodResult, StoreAggregateResult(p, result)
      PROVE  aggResults'[n][s] # None
  <2>1. result # None /\ result.sid \in Session
    BY NoneIsNoJob DEF GoodResult, Result
  <2>2. aggResults' = [aggResults EXCEPT ![p][result.sid] = result]
    BY <1>2 DEF StoreAggregateResult
  <2>3. QED
    BY <1>1, <2>1, <2>2
<1>3. ASSUME NEW p \in Node, StoreResult(p)
      PROVE  aggResults'[n][s] # None
  BY <1>2, <1>3, JobIsConclusion DEF StoreResult, Concluding
<1>4. ASSUME NEW p \in Node, OnAggResult(p)
      PROVE  aggResults'[n][s] # None
  <2>1. Head(inCh[p]) \in GoodResult
    <3>1. Head(inCh[p]) \in GoodEnvelope /\ Head(inCh[p]).type = "AggResult"
      BY <1>4, TakeEnvelope DEF OnAggResult, Handles, roundVars
    <3>2. QED
      BY <3>1 DEF GoodEnvelope, GoodRequest, GoodResponse, RequestEnvelope,
                  ResponseEnvelope
  <2>2. QED
    BY <1>2, <1>4, <2>1 DEF OnAggResult
<1>5. ASSUME NEW p \in Node, Crash(p)
      PROVE  aggResults'[n][s] # None
  BY <1>1, <1>5 DEF Crash, StopProcess, IInv, ChannelsCarry
<1>6. \/ UNCHANGED aggResults
      \/ \E p \in Node : StoreResult(p) \/ OnAggResult(p) \/ Crash(p)
  BY DEF Next, Operator, MainLoop, SubmitSignRequest, SetAutoSign, SubmitLocalSign,
         PublishSignRequest, OnSignRequest, QueueRequest, RespondToRequest,
         OnSignResponse, Aggregate, BroadcastResult, PublishLocalSign, LearnKey,
         BecomeReady, Transfer, Loss, nodeVars, vars
<1>7. QED
  BY <1>3, <1>4, <1>5, <1>6

LEMMA InformedStays ==
  ASSUME IInv, [Next]_vars, ~Lossy, up'[Coordinator], NEW n \in Node, HasRoom(n), up'[n],
         NEW s \in Session, Informed(n, s)
  PROVE  Informed(n, s)'
<1>1. CASE aggResults[n][s] # None
  BY <1>1, ResultsAreKept DEF Informed
<1>2. ASSUME NEW e \in Inbound(n), IsResultOf(e, s)
      PROVE  Informed(n, s)'
  <2>1. CASE e \in Inbound(n)'
    BY <1>2, <2>1 DEF Informed, IsResultOf
  <2>2. CASE /\ e = Head(inCh[n])
             /\ OnSignRequest(n) \/ OnSignResponse(n) \/ OnAggResult(n)
    <3>1. OnAggResult(n)
      BY <1>2, <2>2 DEF OnSignRequest, OnSignResponse, Handles, IsResultOf
    <3>2. e \in GoodResult
      <4>1. Head(inCh[n]) \in GoodEnvelope
        BY <3>1, TakeEnvelope DEF OnAggResult, Handles, roundVars
      <4>2. QED
        BY <1>2, <2>2, <4>1
           DEF IsResultOf, GoodEnvelope, GoodRequest, GoodResponse, RequestEnvelope,
               ResponseEnvelope
    <3>3. aggResults \in [Node -> [Session -> GoodResult \cup {None}]]
      BY DEF IInv, ResultsOK
    <3>4. aggResults' = [aggResults EXCEPT ![n][s] = e]
      BY <1>2, <2>2, <3>1 DEF OnAggResult, StoreAggregateResult, IsResultOf
    <3>5. aggResults'[n][s] # None
      BY <3>2, <3>3, <3>4, NoneIsNoJob DEF GoodResult
    <3>6. QED
      BY <3>5 DEF Informed
  <2>3. QED
    BY <2>1, <2>2, InboundStays
<1>3. CASE HasInHand(s)
  <2>1. /\ loop[Coordinator] \in Concluding /\ loop[Coordinator] # None
        /\ loop[Coordinator].result.sid = s
    BY <1>3, JobIsConclusion, SigningAssumption DEF HasInHand, Concludes
  <2>2. CASE loop'[Coordinator] = loop[Coordinator]
    BY <1>3, <2>2 DEF HasInHand, Concludes, Informed
  <2>3. CASE StoreResult(Coordinator)
    <3>1. PICK L : loop \in [Node -> L]
      BY DEF IInv, LoopsOK
    <3>2. loop'[Coordinator] = [loop[Coordinator] EXCEPT !.do = "broadcast"]
      BY <2>3, <3>1, SigningAssumption DEF StoreResult
    <3>3. loop'[Coordinator] \in Concluding /\ loop'[Coordinator].do = "broadcast"
          /\ loop'[Coordinator].result = loop[Coordinator].result
      BY <2>1, <3>2 DEF Concluding
    <3>4. loop'[Coordinator] # None
      BY <3>3, NoneIsNoJob DEF Concluding, LoopJob, GoodResult
    <3>5. QED
      BY <2>1, <3>3, <3>4 DEF HasInHand, Concludes, Informed
  <2>4. CASE BroadcastResult(Coordinator)
    <3> DEFINE e == loop[Coordinator].result
    <3>1. e \in GoodResult /\ IsResultOf(e, s)
      BY <2>1 DEF Concluding, GoodResult, Result, IsResultOf
    <3>2. Publish(Coordinator, Node, e) /\ UNCHANGED up
      BY <2>4 DEF BroadcastResult
    <3>3. e \in Inbound(n)'
      <4>1. ChannelsCarry(GoodEnvelope) /\ e \in GoodEnvelope /\ Coordinator \in Node
        BY <3>1, SigningAssumption DEF IInv, GoodEnvelope
      <4>2. up[n]
        BY RequestsGrow
      <4>3. QED
        BY <3>2, <4>1, <4>2, PublishKeepsInbound
    <3>4. QED
      BY <3>1, <3>3 DEF Informed, IsResultOf
  <2>5. ~(QueueRequest(Coordinator) \/ RespondToRequest(Coordinator) \/ Aggregate(Coordinator))
    BY <2>1 DEF Concluding, QueueRequest, RespondToRequest, Aggregate
  <2>6. QED
    BY <2>1, <2>2, <2>3, <2>4, <2>5, BusyLoop
<1>4. QED
  BY <1>1, <1>2, <1>3 DEF Informed

LEMMA ResultsStillArrive ==
  ASSUME IInv, ResultsArrive, [Next]_vars, ~Lossy, up'[Coordinator],
         \A n \in Node : HasRoom(n)
  PROVE  ResultsArrive'
<1> SUFFICES ASSUME NEW s \in Session, sessions'[s] # None, sessions'[s].aggregated,
                    NEW n \in Node, up'[n]
             PROVE  Informed(n, s)'
  BY DEF ResultsArrive
<1>1. CASE sessions'[s] = sessions[s]
  <2>1. up[n]
    BY RequestsGrow
  <2>2. Informed(n, s)
    BY <1>1, <2>1 DEF ResultsArrive
  <2>3. QED
    BY <2>2, InformedStays
<1>2. CASE Adds(s)
  BY <1>2, AddedIs
<1>3. CASE Begins(s)
  BY <1>3 DEF Begins, NewSession
<1>4. CASE Concluded(s)
  BY <1>4 DEF Concluded, Informed
<1>5. QED
  BY <1>1, <1>2, <1>3, <1>4, SessionChanges

LEMMA NextKeepsConcludes ==
  ASSUME ~Lossy, OneCommitteeKey
  PROVE  IInv /\ ConcludesInv /\ (\A n \in Node : HasRoom(n)) /\ [Next]_vars
           => ConcludesInv'
<1> SUFFICES ASSUME IInv, ConcludesInv, \A n \in Node : HasRoom(n), [Next]_vars
             PROVE  ConcludesInv'
  OBVIOUS
<1>1. ReadyHaveKeys'
  BY KeysStay DEF ConcludesInv
<1>2. ASSUME up'[Coordinator]
      PROVE  ResponsesFit' /\ EnoughAreAggregated' /\ ResultsArrive'
  <2>1. ReadyHaveKeys /\ ResponsesFit /\ EnoughAreAggregated /\ ResultsArrive
    BY <1>2, RequestsGrow, SigningAssumption DEF ConcludesInv
  <2>2. QED
    BY <1>2, <2>1, ResponsesFitStays, EnoughStaysAggregated, ResultsStillArrive
<1>3. QED
  BY <1>1, <1>2 DEF ConcludesInv

\* Where nobody switches auto-sign off or signs by hand, nothing waits for that.
NothingByHand ==
  \A n \in Node : signing[n] = {} /\ \A s \in Session : pending[n][s] = None

LEMMA InitEstablishesNothingByHand == Init => NothingByHand
  BY DEF Init, NothingByHand

LEMMA NextKeepsNothingByHand ==
  ASSUME Manual = {}
  PROVE  IInv /\ AutoSigns /\ NothingByHand /\ [Next]_vars => NothingByHand'
<1> SUFFICES ASSUME IInv, AutoSigns, NothingByHand, [Next]_vars
             PROVE  NothingByHand'
  OBVIOUS
<1>1. /\ pending \in [Node -> [Session -> Queued \cup {None}]]
      /\ signing \in [Node -> SUBSET Job]
  BY DEF IInv, QueuesOK
<1>2. ASSUME NEW p \in Node, Crash(p)
      PROVE  NothingByHand'
  BY <1>1, <1>2 DEF Crash, NothingByHand
<1>3. \A p \in Node : ~QueueRequest(p)
  BY DEF AutoSigns, QueueRequest
<1>4. \A p \in Node : signing[p] = {}
  BY DEF NothingByHand
<1>5. \/ UNCHANGED <<pending, signing>>
      \/ \E p \in Node : Crash(p)
  BY <1>3, <1>4
     DEF Next, Operator, MainLoop, SubmitSignRequest, PublishSignRequest, OnSignRequest,
         RespondToRequest, OnSignResponse, Aggregate, StoreResult, BroadcastResult,
         OnAggResult, PublishLocalSign, LearnKey, BecomeReady, Transfer, Loss,
         nodeVars, roundVars, vars
<1>6. QED
  BY <1>2, <1>5 DEF NothingByHand

------------------------------------------------------------------------------
(***************************************************************************)
(* Signing implements SigningRound.                                        *)
(***************************************************************************)
\* A main loop that is about to aggregate a copy of a session.
HasCopy(l) == l # None /\ l.do = "aggregate"

\* A process that has ended has nothing left to do.
IdleWhenDown == \A n \in Node : ~up[n] => loop[n] = None

\* The session of which there is a copy to aggregate, unless it was replaced, is
\* not aggregated.
CopyIsOpen ==
  LET l == loop[Coordinator]
  IN  HasCopy(l) /\ sessions[l.sid].request = l.session.request
        => ~sessions[l.sid].aggregated

\* What the refinement needs besides IInv.
RoundInv ==
  /\ OnceInv
  /\ SessionsCurrent
  /\ IdleWhenDown
  /\ CopyIsOpen

LEMMA InitEstablishesRoundInv == Init => RoundInv
<1> SUFFICES ASSUME Init PROVE RoundInv
  OBVIOUS
<1>1. SessionsCurrent
  BY InitEstablishesStem DEF StemInv
<1>2. IdleWhenDown /\ CopyIsOpen
  BY SigningAssumption DEF Init, IdleWhenDown, CopyIsOpen, HasCopy
<1>3. QED
  BY <1>1, <1>2, InitEstablishesOnceInv DEF RoundInv

LEMMA IdleStays ==
  ASSUME IInv, IdleWhenDown, [Next]_vars
  PROVE  IdleWhenDown'
<1>1. PICK L : loop \in [Node -> L]
  BY DEF IInv, LoopsOK
<1>2. up \in [Node -> BOOLEAN]
  BY DEF IInv, ChannelsCarry
<1>3. ASSUME NEW n \in Node, MainLoop(n)
      PROVE  IdleWhenDown'
  <2>1. up[n] /\ up' = up
    BY <1>3
       DEF MainLoop, OnSignRequest, QueueRequest, RespondToRequest, OnSignResponse,
           Aggregate, StoreResult, BroadcastResult, OnAggResult, Handles, Received,
           IdleWhenDown, transportVars
  <2>2. \A p \in Node \ {n} : loop'[p] = loop[p]
    BY <1>1, <1>3
       DEF MainLoop, OnSignRequest, QueueRequest, RespondToRequest, OnSignResponse,
           Aggregate, StoreResult, BroadcastResult, OnAggResult
  <2>3. QED
    BY <2>1, <2>2 DEF IdleWhenDown
<1>4. ASSUME NEW n \in Node, Crash(n)
      PROVE  IdleWhenDown'
  BY <1>1, <1>2, <1>4 DEF Crash, StopProcess, IdleWhenDown
<1>5. CASE UNCHANGED <<up, loop>>
  BY <1>5 DEF IdleWhenDown
<1>6. \/ UNCHANGED <<up, loop>>
      \/ \E n \in Node : MainLoop(n) \/ Crash(n)
  BY DEF Next, Operator, SubmitSignRequest, SetAutoSign, SubmitLocalSign,
         PublishSignRequest, PublishLocalSign, LearnKey, BecomeReady, Transfer, Loss,
         ReadLoop, LoseFrame, transportVars, vars
<1>7. QED
  BY <1>3, <1>4, <1>5, <1>6

\* A copy the coordinator gets is of a session that is still open.
LEMMA CopyBegins ==
  ASSUME IInv, [Next]_vars, up'[Coordinator], HasCopy(loop'[Coordinator]),
         loop'[Coordinator] # loop[Coordinator]
  PROVE  ~sessions'[loop'[Coordinator].sid].aggregated
<1>1. PICK L : loop \in [Node -> L]
  BY DEF IInv, LoopsOK
<1>2. ASSUME NEW n \in Node, MainLoop(n), n # Coordinator
      PROVE  loop'[Coordinator] = loop[Coordinator]
  BY <1>1, <1>2, SigningAssumption
     DEF MainLoop, OnSignRequest, QueueRequest, RespondToRequest, OnSignResponse,
         Aggregate, StoreResult, BroadcastResult, OnAggResult
<1>3. ASSUME NEW n \in Node, Crash(n)
      PROVE  loop'[Coordinator] = loop[Coordinator]
  <2>1. n # Coordinator
    BY <1>3 DEF Crash, StopProcess, IInv, ChannelsCarry
  <2>2. QED
    BY <1>1, <1>3, <2>1, SigningAssumption DEF Crash
<1>4. MainLoop(Coordinator)
  <2>1. \/ UNCHANGED loop
        \/ \E n \in Node : MainLoop(n) \/ Crash(n)
    BY DEF Next, Operator, SubmitSignRequest, SetAutoSign, SubmitLocalSign,
           PublishSignRequest, PublishLocalSign, LearnKey, BecomeReady, Transfer, Loss,
           vars
  <2>2. QED
    BY <1>2, <1>3, <2>1
<1>5. OnSignResponse(Coordinator)
  <2>1. CASE StoreResult(Coordinator)
    <3>1. loop[Coordinator] \in Concluding
      BY <2>1, JobIsConclusion, SigningAssumption DEF StoreResult
    <3>2. loop'[Coordinator] = [loop[Coordinator] EXCEPT !.do = "broadcast"]
      BY <1>1, <2>1, SigningAssumption DEF StoreResult
    <3>3. QED
      BY <3>1, <3>2 DEF Concluding, HasCopy
  <2>2. CASE \/ OnSignRequest(Coordinator) \/ QueueRequest(Coordinator)
             \/ RespondToRequest(Coordinator) \/ Aggregate(Coordinator)
             \/ BroadcastResult(Coordinator) \/ OnAggResult(Coordinator)
    BY <1>1, <2>2, SigningAssumption
       DEF OnSignRequest, QueueRequest, RespondToRequest, Aggregate, BroadcastResult,
           OnAggResult, HasCopy
  <2>3. QED
    BY <1>4, <2>1, <2>2 DEF MainLoop
<1> DEFINE m == Head(inCh[Coordinator])
           added == [sessions[m.sid] EXCEPT !.responses[m.signer] =
                       [message |-> m.message, key |-> m.key]]
<1>6. /\ Accepts(sessions[m.sid], m)
      /\ sessions' = [sessions EXCEPT ![m.sid] = added]
      /\ loop' = [loop EXCEPT ![Coordinator] = [do |-> "aggregate", sid |-> m.sid,
                                                session |-> added]]
  BY <1>5 DEF OnSignResponse
<1>7. m.sid \in Session
  <2>1. m \in GoodEnvelope /\ m.type = "SignResponse"
    BY <1>5, TakeEnvelope, SigningAssumption DEF OnSignResponse, Handles
  <2>2. QED
    BY <2>1
       DEF GoodEnvelope, GoodRequest, GoodResponse, GoodResult, RequestEnvelope,
           ResponseEnvelope, Result
<1>8. sessions[m.sid] \in SessionState /\ ~sessions[m.sid].aggregated
  BY <1>6, <1>7 DEF Accepts, IInv, SessionsOK
<1>9. ~added.aggregated
  BY <1>8 DEF SessionState
<1>10. sessions'[m.sid] = added /\ loop'[Coordinator].sid = m.sid
  BY <1>1, <1>6, <1>7, SigningAssumption DEF IInv, SessionsOK
<1>11. QED
  BY <1>9, <1>10

LEMMA CopyIsOpenStays ==
  ASSUME IInv, RoundInv, [Next]_vars
  PROVE  CopyIsOpen'
<1> SUFFICES ASSUME HasCopy(loop'[Coordinator]),
                    sessions'[loop'[Coordinator].sid].request
                      = loop'[Coordinator].session.request
             PROVE  ~sessions'[loop'[Coordinator].sid].aggregated
  BY DEF CopyIsOpen, HasCopy
<1>1. up'[Coordinator]
  BY IdleStays, SigningAssumption DEF RoundInv, IdleWhenDown, HasCopy
<1>2. CASE loop'[Coordinator] # loop[Coordinator]
  BY <1>1, <1>2, CopyBegins
<1>3. CASE loop'[Coordinator] = loop[Coordinator]
  <2>1. PICK s : s = loop[Coordinator].sid
    OBVIOUS
  <2>2. loop[Coordinator] \in Aggregating
    BY <1>3, JobIsAggregation, SigningAssumption DEF HasCopy
  <2>3. s \in Session /\ sessions[s] \in SessionState
    BY <2>1, <2>2 DEF Aggregating, GoodSession
  <2>4. CASE sessions'[s] = sessions[s]
    BY <1>3, <2>1, <2>4 DEF RoundInv, CopyIsOpen
  <2>5. CASE Adds(s)
    <3>1. ~sessions[s].aggregated
      BY <2>5 DEF Adds, Accepts
    <3>2. sessions'[s].aggregated = sessions[s].aggregated
      BY <2>3, <2>5 DEF Adds, SessionState
    <3>3. QED
      BY <1>3, <2>1, <3>1, <3>2
  <2>6. CASE Begins(s)
    BY <1>3, <2>1, <2>6 DEF Begins, NewSession
  <2>7. CASE Concluded(s)
    BY <1>3, <2>7 DEF Concluded, HasInHand, Concludes, HasCopy
  <2>8. QED
    BY <1>1, <2>3, <2>4, <2>5, <2>6, <2>7, SessionChanges
<1>4. QED
  BY <1>2, <1>3

LEMMA NextKeepsRoundInv == IInv /\ IInv' /\ RoundInv /\ [Next]_vars => RoundInv'
<1> SUFFICES ASSUME IInv, IInv', RoundInv, [Next]_vars
             PROVE  RoundInv'
  OBVIOUS
<1>1. OnceInv' /\ SessionsCurrent' /\ IdleWhenDown'
  BY NextPreservesOnceInv, SessionsStayCurrent, IdleStays DEF RoundInv
<1>2. QED
  BY <1>1, CopyIsOpenStays DEF RoundInv

------------------------------------------------------------------------------
\* What is open.

\* Session t waits for a signature of request r.
OpenIn(t, r) == t # None /\ ~t.aggregated /\ t.request = r

\* So does the copy a main loop is about to aggregate.
OpenAt(l, r) == HasCopy(l) /\ l.session.request = r

LEMMA OpenIs ==
  \A r : r \in Open <=> \/ \E s \in Session : OpenIn(sessions[s], r)
                        \/ OpenAt(loop[Coordinator], r)
<1> TAKE r
<1>1. r \in {sessions[s].request : s \in {t \in Session : sessions[t] # None
                                                  /\ ~sessions[t].aggregated}}
        <=> \E s \in Session : OpenIn(sessions[s], r)
  BY DEF OpenIn
<1>2. r \in {loop[n].session.request : n \in {p \in {Coordinator} :
                                           loop[p] # None /\ loop[p].do = "aggregate"}}
        <=> OpenAt(loop[Coordinator], r)
  BY DEF OpenAt, HasCopy
<1>3. QED
  BY <1>1, <1>2 DEF Open

LEMMA OpenIsNext ==
  \A r : r \in Open' <=> \/ \E s \in Session : OpenIn(sessions'[s], r)
                         \/ OpenAt(loop'[Coordinator], r)
<1>1. (\A r : r \in Open <=> \/ \E s \in Session : OpenIn(sessions[s], r)
                             \/ OpenAt(loop[Coordinator], r))'
  BY OpenIs, PTL
<1>2. QED
  BY <1>1 DEF OpenIn, OpenAt, HasCopy

\* An open session, and a copy, is of a request that was made for it.
LEMMA OpenIsRequested ==
  ASSUME IInv
  PROVE  /\ \A s \in Session : \A r : OpenIn(sessions[s], r) =>
              r \in DOMAIN requests /\ requests[r].sid = s
         /\ \A r : OpenAt(loop[Coordinator], r) =>
              /\ r \in DOMAIN requests
              /\ requests[r].sid = loop[Coordinator].sid
<1>1. ASSUME NEW s \in Session, NEW r, OpenIn(sessions[s], r)
      PROVE  r \in DOMAIN requests /\ requests[r].sid = s
  <2>1. sessions[s] \in GoodSession(s) /\ sessions[s].request = r
    BY <1>1 DEF OpenIn, IInv, SessionsOK
  <2>2. QED
    BY <2>1 DEF GoodSession, Requested
<1>2. ASSUME NEW r, OpenAt(loop[Coordinator], r)
      PROVE  r \in DOMAIN requests /\ requests[r].sid = loop[Coordinator].sid
  <2>1. loop[Coordinator] \in Aggregating /\ loop[Coordinator].session.request = r
    BY <1>2, JobIsAggregation, SigningAssumption DEF OpenAt, HasCopy
  <2>2. QED
    BY <2>1 DEF Aggregating, GoodSession, Requested
<1>3. QED
  BY <1>1, <1>2

\* A step that leaves the sessions alone, and gets or loses no copy.
LEMMA OpenStays ==
  ASSUME \A s \in Session : \A r : OpenIn(sessions'[s], r) <=> OpenIn(sessions[s], r),
         \/ loop'[Coordinator] = loop[Coordinator]
         \/ ~HasCopy(loop[Coordinator]) /\ ~HasCopy(loop'[Coordinator])
  PROVE  Open' = Open
<1>1. \A r : OpenAt(loop'[Coordinator], r) <=> OpenAt(loop[Coordinator], r)
  BY DEF OpenAt
<1>2. \A r : r \in Open' <=> r \in Open
  BY <1>1, OpenIs, OpenIsNext
<1>3. QED
  BY <1>2

------------------------------------------------------------------------------
\* Every step is a step of SigningRound, or none.

\* A step that changes nothing of the round, but for results that are lost.
LEMMA QuietIsRound ==
  ASSUME Results' \subseteq Results, UNCHANGED <<up, requests, aggResults>>,
         \A s \in Session : \A r : OpenIn(sessions'[s], r) <=> OpenIn(sessions[s], r),
         \/ loop'[Coordinator] = loop[Coordinator]
         \/ ~HasCopy(loop[Coordinator]) /\ ~HasCopy(loop'[Coordinator])
  PROVE  Round!Lose
BY OpenStays DEF Round!Lose

\* No result is lost where no envelope moves and no result is finished with.
LEMMA ResultsRemain ==
  ASSUME UNCHANGED <<net, inCh, aggResults>>,
         \A n \in Node : Concludes(loop[n]) => loop'[n] = loop[n]
  PROVE  Results \subseteq Results'
<1>1. \A n \in Node : Inbound(n)' = Inbound(n)
  BY DEF Inbound
<1>2. ASSUME NEW e, NEW n \in Node, e \in Inbound(n), e.type = "AggResult"
      PROVE  e \in Results'
  BY <1>1, <1>2 DEF Results
<1>3. ASSUME NEW n \in Node, NEW s \in Session, aggResults[n][s] # None
      PROVE  aggResults[n][s] \in Results'
  BY <1>3 DEF Results
<1>4. ASSUME NEW n \in Node, Concludes(loop[n])
      PROVE  loop[n].result \in Results'
  <2>1. loop'[n] = loop[n] /\ Concludes(loop'[n])
    BY <1>4
  <2>2. QED
    BY <2>1 DEF Results, Concludes
<1>5. {e \in UNION {Inbound(n) : n \in Node} : e.type = "AggResult"} \subseteq Results'
  BY <1>2
<1>6. (UNION {{aggResults[n][s] : s \in Session} : n \in Node}) \ {None} \subseteq Results'
  BY <1>3
<1>7. {loop[n].result : n \in {p \in Node : loop[p] # None
                                      /\ loop[p].do \in {"store", "broadcast"}}}
        \subseteq Results'
  BY <1>4 DEF Concludes
<1>8. QED
  BY <1>5, <1>6, <1>7 DEF Results

LEMMA SubmitIsRound ==
  ASSUME IInv, IInv', [Next]_vars, NEW s \in Session, NEW m \in Submitted,
         SubmitSignRequest(s, m)
  PROVE  Round!Ask(s, m)
<1>1. /\ up[Coordinator]
      /\ requests' = Append(requests, [sid |-> s, message |-> m])
      /\ UNCHANGED <<up, net, inCh, aggResults, loop>>
  BY DEF SubmitSignRequest, transportVars, nodeVars
<1>2. PICK q : q = Len(requests')
  OBVIOUS
<1>3. sessions' = [sessions EXCEPT ![s] = NewSession(m, q)]
  BY <1>2 DEF SubmitSignRequest
<1>4. /\ sessions'[s] = NewSession(m, q)
      /\ \A t \in Session \ {s} : sessions'[t] = sessions[t]
  BY <1>3 DEF IInv, SessionsOK
<1>5. \A r : OpenIn(sessions'[s], r) <=> r = q
  <2>1. q \in Request /\ m \in Payload
    <3>1. requests' \in Seq([sid : Session, message : Payload]) /\ Len(requests') <= MaxRequests
      BY DEF IInv, RequestsOK
    <3>2. q \in Nat
      BY <1>2, <3>1
    <3>3. QED
      BY <1>2, <3>1, <3>2, SigningAssumption DEF Request, Payload
  <2>2. NewSession(m, q) \in SessionState
    BY <2>1 DEF NewSession, SessionState
  <2>3. NewSession(m, q) # None
    BY <2>2, NoneIsNoSession
  <2>4. NewSession(m, q).request = q /\ ~NewSession(m, q).aggregated
    BY DEF NewSession
  <2>5. QED
    BY <1>4, <2>3, <2>4 DEF OpenIn
<1> DEFINE replaced == {r \in Open : /\ OpenIn(sessions[s], r)
                                     /\ ~OpenAt(loop[Coordinator], r)}
<1>6. replaced \in SUBSET {r \in Open : requests[r].sid = s}
  BY OpenIsRequested
<1>7. \A r : r \in Open' <=> r \in (Open \ replaced) \cup {q}
  <2>1. ASSUME NEW r
        PROVE  r \in Open' <=> \/ r = q
                               \/ \E t \in Session \ {s} : OpenIn(sessions[t], r)
                               \/ OpenAt(loop[Coordinator], r)
    BY <1>1, <1>4, <1>5, OpenIsNext
  <2>2. ASSUME NEW r, NEW t \in Session \ {s}, OpenIn(sessions[t], r)
        PROVE  ~OpenIn(sessions[s], r)
    BY <2>2, OpenIsRequested
  <2>3. ASSUME NEW r
        PROVE  r \in Open \ replaced <=> \/ \E t \in Session \ {s} : OpenIn(sessions[t], r)
                                         \/ OpenAt(loop[Coordinator], r)
    BY <2>2, OpenIs
  <2>4. QED
    BY <2>1, <2>3
<1>8. Open' = (Open \ replaced) \cup {Len(requests')}
  BY <1>2, <1>7
<1>9. Results' = Results
  <2>1. \A n \in Node : ~Aggregate(n)
    BY <1>3 DEF Aggregate, SubmitSignRequest, roundVars, vars
  <2>2. QED
    BY <1>1, <2>1, ResultsStay, ResultsRemain
<1>10. QED
  BY <1>1, <1>6, <1>8, <1>9 DEF Round!Ask

LEMMA AggregateIsRound ==
  ASSUME IInv, RoundInv, NEW n \in Node, Aggregate(n)
  PROVE  \E r \in Open : Round!Sign(r) \/ Round!GiveUp(r) \/ Round!Lose
<1> DEFINE s == loop[n].sid
           state == loop[n].session
           r == state.request
<1>1. n = Coordinator /\ loop[n] \in Aggregating /\ HasCopy(loop[n])
  BY JobIsAggregation DEF Aggregate, HasCopy
<1>2. /\ s \in Session
      /\ state \in GoodSession(s) /\ sessions[s] \in GoodSession(s)
      /\ Cardinality(Responders(state)) >= Threshold
  BY <1>1 DEF Aggregating
<1>3. /\ r \in Open /\ r \in DOMAIN requests
      /\ requests[r] = [sid |-> s, message |-> state.message]
  BY <1>1, <1>2, OpenIs DEF OpenAt, GoodSession, Requested
<1>4. UNCHANGED <<up, net, inCh, requests, aggResults>>
  BY DEF Aggregate, transportVars, nodeVars
<1>5. ~HasCopy(loop'[n])
  BY DEF Aggregate, HasCopy, IInv, LoopsOK
<1>6. Results \subseteq Results'
  <2>1. \A p \in Node : Concludes(loop[p]) => loop'[p] = loop[p]
    BY <1>1 DEF Concludes, HasCopy, Aggregate, IInv, LoopsOK
  <2>2. QED
    BY <1>4, <2>1, ResultsRemain
<1>7. \A t \in Session \ {s} : ~OpenIn(sessions[t], r)
  BY <1>3, OpenIsRequested
<1>8. CASE VerifyAggregate(state, key[n])
  <2>1. /\ sessions' = MarkAggregated(s, state)
        /\ loop' = [loop EXCEPT ![n] = [do |-> "store", result |-> Aggregated(n)]]
    BY <1>8 DEF Aggregate, Aggregated
  <2>2. Aggregated(n) \in GoodResult
    BY <1>1, <1>2, <1>8, AggregateIsGood DEF Aggregated
  <2>3. Results' = Results \cup {Aggregated(n)}
    <3>1. loop'[n] = [do |-> "store", result |-> Aggregated(n)]
      BY <2>1 DEF IInv, LoopsOK
    <3>2. loop'[n] # None
      BY <2>2, <3>1, NoneIsNoJob DEF LoopJob, GoodResult
    <3>3. Aggregated(n) \in Results'
      BY <3>1, <3>2 DEF Results
    <3>4. Results' \subseteq Results \cup {Aggregated(n)}
      BY AggregateAddsOne
    <3>5. QED
      BY <1>6, <3>3, <3>4
  <2>4. \A q : q \in Open' <=> q \in Open \ {r}
    <3>1. ASSUME NEW q
          PROVE  (\E t \in Session : OpenIn(sessions'[t], q))
                   <=> q # r /\ \E t \in Session : OpenIn(sessions[t], q)
      <4>1. CASE sessions[s].request = r
        <5>1. sessions' = [sessions EXCEPT ![s].aggregated = TRUE]
          BY <2>1, <4>1 DEF MarkAggregated
        <5>2. /\ sessions'[s].aggregated
              /\ \A t \in Session \ {s} : sessions'[t] = sessions[t]
          BY <1>2, <5>1 DEF IInv, SessionsOK, GoodSession, SessionState
        <5>3. \A t \in Session \ {s} : OpenIn(sessions'[t], q) <=> OpenIn(sessions[t], q)
          BY <5>2
        <5>4. ~OpenIn(sessions'[s], q) /\ (OpenIn(sessions[s], q) => q = r)
          BY <4>1, <5>2 DEF OpenIn
        <5>5. QED
          BY <1>7, <5>3, <5>4
      <4>2. CASE sessions[s].request # r
        <5>1. sessions' = sessions
          BY <2>1, <4>2 DEF MarkAggregated
        <5>2. ~OpenIn(sessions[s], r)
          BY <4>2 DEF OpenIn
        <5>3. QED
          BY <1>7, <5>1, <5>2
      <4>3. QED
        BY <4>1, <4>2
    <3>2. \A q : OpenAt(loop[Coordinator], q) <=> q = r
      BY <1>1 DEF OpenAt
    <3>3. \A q : ~OpenAt(loop'[Coordinator], q)
      BY <1>1, <1>5 DEF OpenAt
    <3>4. QED
      BY <3>1, <3>2, <3>3, OpenIs, OpenIsNext
  <2>5. Open' = Open \ {r}
    BY <2>4
  <2>6. /\ Aggregated(n) = Round!SignedBy(r, Responders(state))
        /\ Responders(state) \in Signatories
        /\ state.message # None
    <3>1. PICK x : x = Aggregated(n)
      OBVIOUS
    <3>2. /\ x = AggResult(s, state.message, r, Responders(state), key[n])
          /\ x.signers = Responders(state) /\ x.key = key[n]
          /\ x.message = state.message
      BY <3>1 DEF Aggregated, AggResult
    <3>3. /\ x.key = KeyOf[Coordinator] /\ x.message \in Message
          /\ \A i \in x.signers : i \in Node /\ KeyOf[i] = x.key
      BY <2>2, <3>1 DEF GoodResult, Result
    <3>4. Responders(state) \in Signatories
      BY <1>2, <3>2, <3>3 DEF Signatories, Responders
    <3>5. x = Round!SignedBy(r, Responders(state))
      BY <1>3, <3>2, <3>3 DEF AggResult, Round!SignedBy
    <3>6. QED
      BY <3>1, <3>2, <3>3, <3>4, <3>5, SigningAssumption
  <2>7. requests[r].message # None
    BY <1>3, <2>6
  <2>8. Round!Sign(r)
    BY <1>3, <1>4, <2>3, <2>5, <2>6, <2>7 DEF Round!Sign
  <2>9. QED
    BY <1>3, <2>8
<1>9. CASE ~VerifyAggregate(state, key[n])
  <2>1. sessions' = sessions
    BY <1>9 DEF Aggregate
  <2>2. Results' = Results
    BY <1>6, <1>9, AggregateAddsOne
  <2>3. CASE sessions[s].request = r
    <3>1. OpenIn(sessions[s], r)
      <4>1. sessions[s] # None
        BY <1>2, NoneIsNoSession DEF GoodSession
      <4>2. ~sessions[s].aggregated
        BY <1>1, <2>3 DEF RoundInv, CopyIsOpen
      <4>3. QED
        BY <2>3, <4>1, <4>2 DEF OpenIn
    <3>2. \A q : q \in Open' <=> q \in Open
      <4>1. \A q : OpenAt(loop[Coordinator], q) => q = r
        BY <1>1 DEF OpenAt
      <4>2. \A q : ~OpenAt(loop'[Coordinator], q)
        BY <1>1, <1>5 DEF OpenAt
      <4>3. QED
        BY <1>2, <2>1, <3>1, <4>1, <4>2, OpenIs, OpenIsNext
    <3>3. Open' = Open
      BY <3>2
    <3>4. Round!Lose
      BY <1>4, <2>2, <3>3 DEF Round!Lose
    <3>5. QED
      BY <1>3, <3>4
  <2>4. CASE sessions[s].request # r
    <3>1. Superseded(r)
      <4>1. up[Coordinator]
        BY <1>1, SigningAssumption DEF RoundInv, IdleWhenDown, HasCopy
      <4>2. requests[r].sid = s
        BY <1>3
      <4>3. QED
        BY <1>3, <2>4, <4>1, <4>2 DEF RoundInv, SessionsCurrent
    <3>2. \A q : q \in Open' <=> q \in Open \ {r}
      <4>1. ~OpenIn(sessions[s], r)
        BY <2>4 DEF OpenIn
      <4>2. \A q : OpenAt(loop[Coordinator], q) <=> q = r
        BY <1>1 DEF OpenAt
      <4>3. \A q : ~OpenAt(loop'[Coordinator], q)
        BY <1>1, <1>5 DEF OpenAt
      <4>4. QED
        BY <1>7, <2>1, <4>1, <4>2, <4>3, OpenIs, OpenIsNext
    <3>3. Open' = Open \ {r}
      BY <3>2
    <3>4. Round!GiveUp(r)
      BY <1>3, <1>4, <2>2, <3>1, <3>3 DEF Round!GiveUp, Superseded
    <3>5. QED
      BY <1>3, <3>4
  <2>5. QED
    BY <2>3, <2>4
<1>10. QED
  BY <1>8, <1>9

\* A result that is there is stored.
LEMMA StoreIsRound ==
  ASSUME NEW n \in Node, NEW x \in Results, up[n], StoreAggregateResult(n, x),
         Results' \subseteq Results, UNCHANGED <<up, requests, sessions>>,
         \/ loop'[Coordinator] = loop[Coordinator]
         \/ ~HasCopy(loop[Coordinator]) /\ ~HasCopy(loop'[Coordinator])
  PROVE  Round!Store(n, x)
BY OpenStays DEF Round!Store, StoreAggregateResult

LEMMA CrashIsRound ==
  ASSUME IInv, NEW n \in Node, Crash(n), Results' \subseteq Results
  PROVE  Round!End(n)
<1>1. /\ up[n] /\ up' = [up EXCEPT ![n] = FALSE]
      /\ aggResults' = [aggResults EXCEPT ![n] = Round!Nothing]
      /\ UNCHANGED requests
  BY DEF Crash, StopProcess, Round!Nothing
<1>2. CASE n = Coordinator
  <2>1. /\ \A s \in Session : sessions'[s] = None
        /\ loop'[Coordinator] = None
    BY <1>2 DEF Crash, IInv, LoopsOK
  <2>2. \A r : r \notin Open'
    BY <2>1, OpenIsNext DEF OpenIn, OpenAt, HasCopy
  <2>3. Open' = {}
    BY <2>2
  <2>4. QED
    BY <1>1, <1>2, <2>3 DEF Round!End
<1>3. CASE n # Coordinator
  <2>1. UNCHANGED sessions /\ loop'[Coordinator] = loop[Coordinator]
    BY <1>3, SigningAssumption DEF Crash, IInv, LoopsOK
  <2>2. Open' = Open
    BY <2>1, OpenStays
  <2>3. QED
    BY <1>1, <1>3, <2>2 DEF Round!End
<1>4. QED
  BY <1>2, <1>3

LEMMA ResponseIsRound ==
  ASSUME IInv, NEW n \in Node, OnSignResponse(n), Results' \subseteq Results
  PROVE  Round!Lose
<1> DEFINE m == Head(inCh[n])
           added == [sessions[m.sid] EXCEPT !.responses[m.signer] =
                       [message |-> m.message, key |-> m.key]]
<1>1. UNCHANGED <<up, requests, aggResults>> /\ loop[n] = None
  BY DEF OnSignResponse, Handles, nodeVars
<1>2. CASE ~(n = Coordinator /\ Accepts(sessions[m.sid], m))
  BY <1>1, <1>2, QuietIsRound DEF OnSignResponse
<1>3. CASE n = Coordinator /\ Accepts(sessions[m.sid], m)
  <2>1. sessions' = [sessions EXCEPT ![m.sid] = added]
    BY <1>3 DEF OnSignResponse
  <2>2. m.sid \in Session
    <3>1. m \in GoodEnvelope /\ m.type = "SignResponse"
      BY TakeEnvelope DEF OnSignResponse, Handles
    <3>2. QED
      BY <3>1
         DEF GoodEnvelope, GoodRequest, GoodResponse, GoodResult, RequestEnvelope,
             ResponseEnvelope, Result
  <2>3. /\ m \in GoodResponse /\ sessions[m.sid] \in GoodSession(m.sid)
        /\ sessions[m.sid] \in SessionState
    <3>1. m \in GoodEnvelope /\ m.type = "SignResponse"
      BY TakeEnvelope DEF OnSignResponse, Handles
    <3>2. m \in GoodResponse
      BY <3>1 DEF GoodEnvelope, GoodRequest, GoodResult, RequestEnvelope, Result
    <3>3. QED
      BY <1>3, <2>2, <3>2 DEF Accepts, IInv, SessionsOK
  <2>4. /\ added # None /\ added.request = sessions[m.sid].request
        /\ ~added.aggregated /\ ~sessions[m.sid].aggregated /\ sessions[m.sid] # None
    <3>1. added \in GoodSession(m.sid)
      BY <1>3, <2>3, AcceptedIsGood
    <3>2. added # None
      BY <3>1, NoneIsNoSession DEF GoodSession
    <3>3. QED
      BY <1>3, <2>3, <3>2 DEF Accepts, SessionState
  <2>5. \A s \in Session : \A r : OpenIn(sessions'[s], r) <=> OpenIn(sessions[s], r)
    <3>1. /\ sessions'[m.sid] = added
          /\ \A s \in Session \ {m.sid} : sessions'[s] = sessions[s]
      BY <2>1, <2>2 DEF IInv, SessionsOK
    <3>2. \A r : OpenIn(sessions'[m.sid], r) <=> OpenIn(sessions[m.sid], r)
      BY <2>4, <3>1 DEF OpenIn
    <3>3. QED
      BY <3>1, <3>2
  <2>6. \A r : ~OpenAt(loop[Coordinator], r)
    BY <1>1, <1>3 DEF OpenAt, HasCopy
  <2>7. \A r : OpenAt(loop'[Coordinator], r) => OpenIn(sessions[m.sid], r)
    <3>1. CASE loop' = loop
      BY <2>6, <3>1
    <3>2. CASE loop' # loop
      <4>1. loop' = [loop EXCEPT ![n] = [do |-> "aggregate", sid |-> m.sid,
                                         session |-> added]]
        BY <1>3, <3>2 DEF OnSignResponse
      <4>2. loop'[Coordinator].session = added
        BY <1>3, <4>1 DEF IInv, LoopsOK
      <4>3. QED
        BY <2>4, <4>2 DEF OpenAt, OpenIn
    <3>3. QED
      BY <3>1, <3>2
  <2>8. \A r : r \in Open' <=> r \in Open
    BY <2>2, <2>5, <2>6, <2>7, OpenIs, OpenIsNext
  <2>9. Open' = Open
    BY <2>8
  <2>10. QED
    BY <1>1, <2>9 DEF Round!Lose
<1>4. QED
  BY <1>2, <1>3

\* What a main loop does.
LEMMA MainLoopIsRound ==
  ASSUME IInv, RoundInv, [Next]_vars, NEW n \in Node, MainLoop(n)
  PROVE  Round!Next
<1>1. CASE Aggregate(n)
  BY <1>1, AggregateIsRound DEF Round!Next
<1>2. CASE ~Aggregate(n)
  <2>1. Results' \subseteq Results
    <3>1. \A p \in Node : ~Aggregate(p)
      <4>1. ASSUME NEW p \in Node, Aggregate(p)
            PROVE  p = n
        <5>1. PICK L : loop \in [Node -> L]
          BY DEF IInv, LoopsOK
        <5>2. loop'[p] # loop[p]
          BY <4>1, <5>1, JobIsAggregation DEF Aggregate, Aggregating
        <5>3. QED
          BY <5>1, <5>2
             DEF MainLoop, OnSignRequest, QueueRequest, RespondToRequest, OnSignResponse,
                 Aggregate, StoreResult, BroadcastResult, OnAggResult
      <4>2. QED
        BY <1>2, <4>1
    <3>2. QED
      BY <3>1, ResultsStay
  <2>2. CASE OnSignRequest(n)
    <3>1. /\ UNCHANGED <<up, requests, sessions>>
          /\ \/ loop'[Coordinator] = loop[Coordinator]
             \/ ~HasCopy(loop[Coordinator]) /\ ~HasCopy(loop'[Coordinator])
      BY <2>2, OnSignRequestBeginsNothing DEF RoundInv, HasCopy
    <3>2. UNCHANGED aggResults
      BY <2>2 DEF OnSignRequest, nodeVars
    <3>3. QED
      BY <2>1, <3>1, <3>2, QuietIsRound DEF Round!Next
  <2>3. CASE QueueRequest(n) \/ RespondToRequest(n) \/ BroadcastResult(n)
    <3>1. UNCHANGED <<up, requests, sessions, aggResults>>
      BY <2>3 DEF QueueRequest, RespondToRequest, BroadcastResult, roundVars, nodeVars,
                  transportVars
    <3>2. \/ loop'[Coordinator] = loop[Coordinator]
          \/ ~HasCopy(loop[Coordinator]) /\ ~HasCopy(loop'[Coordinator])
      BY <2>3, SigningAssumption
         DEF QueueRequest, RespondToRequest, BroadcastResult, HasCopy, IInv, LoopsOK
    <3>3. QED
      BY <2>1, <3>1, <3>2, QuietIsRound DEF Round!Next
  <2>4. CASE OnSignResponse(n)
    BY <2>1, <2>4, ResponseIsRound DEF Round!Next
  <2>5. CASE StoreResult(n)
    <3>1. loop[n] \in Concluding
      BY <2>5, JobIsConclusion DEF StoreResult
    <3>2. loop[n].result \in Results
      BY <2>5 DEF StoreResult, Results
    <3>3. UNCHANGED <<up, requests, sessions>> /\ up[n]
      BY <2>5 DEF StoreResult, roundVars, transportVars, RoundInv, IdleWhenDown
    <3>4. \/ loop'[Coordinator] = loop[Coordinator]
          \/ ~HasCopy(loop[Coordinator]) /\ ~HasCopy(loop'[Coordinator])
      <4>1. loop' = [loop EXCEPT ![n] = [loop[n] EXCEPT !.do = "broadcast"]]
        BY <2>5 DEF StoreResult
      <4>2. ~HasCopy([loop[n] EXCEPT !.do = "broadcast"]) /\ ~HasCopy(loop[n])
        BY <3>1 DEF Concluding, HasCopy
      <4>3. QED
        BY <4>1, <4>2, SigningAssumption DEF IInv, LoopsOK
    <3>5. Round!Store(n, loop[n].result)
      BY <2>1, <2>5, <3>2, <3>3, <3>4, StoreIsRound DEF StoreResult
    <3>6. QED
      BY <3>2, <3>5 DEF Round!Next
  <2>6. CASE OnAggResult(n)
    <3>1. /\ UNCHANGED <<up, requests, sessions, loop>> /\ up[n]
          /\ inCh[n] # <<>> /\ Head(inCh[n]).type = "AggResult"
          /\ StoreAggregateResult(n, Head(inCh[n]))
      BY <2>6 DEF OnAggResult, Handles, Received, roundVars
    <3>2. Head(inCh[n]) \in Results
      <4>1. Head(inCh[n]) \in Carrying(Results)
        <5>1. \A M : ChannelsCarry(M) => Head(inCh[n]) \in M
          BY <3>1, ConsumeType, <2>6 DEF OnAggResult, Handles, Received
        <5>2. PICK M : M = Carrying(Results) /\ ChannelsCarry(M)
          BY HoldsItsResults DEF HoldsOnly
        <5>3. QED
          BY <5>1, <5>2
      <4>2. QED
        BY <3>1, <4>1 DEF Carrying, RequestEnvelope, ResponseEnvelope
    <3>3. Round!Store(n, Head(inCh[n]))
      BY <2>1, <3>1, <3>2, StoreIsRound
    <3>4. QED
      BY <3>2, <3>3 DEF Round!Next
  <2>7. QED
    BY <1>2, <2>2, <2>3, <2>4, <2>5, <2>6 DEF MainLoop
<1>3. QED
  BY <1>1, <1>2

LEMMA InitIsRound == Init => Round!Init
<1> SUFFICES ASSUME Init PROVE Round!Init
  OBVIOUS
<1>1. Results = {}
  <2>1. HoldsOnly({})
    BY TransportAssumption DEF Init, HoldsOnly, ChannelsCarry
  <2>2. QED
    BY <2>1, ResultsAreHeld
<1>2. Open = {}
  BY SigningAssumption DEF Init, Open
<1>3. QED
  BY <1>1, <1>2 DEF Init, Round!Init, Round!Nothing

LEMMA NextIsRound ==
  ASSUME IInv, IInv', RoundInv, [Next]_vars
  PROVE  [Round!Next]_<<up, requests, Open, Results, aggResults>>
<1>1. ASSUME NEW n \in Node, MainLoop(n)
      PROVE  Round!Next
  BY <1>1, MainLoopIsRound
<1>2. CASE \A n \in Node : ~MainLoop(n)
  <2>1. Results' \subseteq Results
    BY <1>2, ResultsStay DEF MainLoop
  <2>2. ASSUME NEW s \in Session, NEW m \in Submitted, SubmitSignRequest(s, m)
        PROVE  Round!Next
    <3>1. m \in Message \cup {None}
      BY SigningAssumption
    <3>2. QED
      BY <2>2, <3>1, SubmitIsRound DEF Round!Next, Payload
  <2>3. ASSUME NEW n \in Node, Crash(n)
        PROVE  Round!Next
    BY <2>1, <2>3, CrashIsRound DEF Round!Next
  <2>4. CASE UNCHANGED <<up, requests, sessions, aggResults, loop>>
    BY <2>1, <2>4, QuietIsRound DEF Round!Next
  <2>5. ASSUME NEW n \in Node, LearnKey(n) \/ BecomeReady(n) \/ SetAutoSign(n)
        PROVE  UNCHANGED <<up, requests, sessions, aggResults, loop>>
    BY <2>5 DEF LearnKey, BecomeReady, SetAutoSign, roundVars, transportVars
  <2>6. ASSUME NEW n \in Node, NEW s \in Session, NEW m \in Override,
               SubmitLocalSign(n, s, m)
        PROVE  UNCHANGED <<up, requests, sessions, aggResults, loop>>
    BY <2>6 DEF SubmitLocalSign, transportVars
  <2>7. ASSUME NEW n \in Node, NEW job \in signing[n], PublishLocalSign(n, job)
        PROVE  UNCHANGED <<up, requests, sessions, aggResults, loop>>
    BY <2>7 DEF PublishLocalSign, nodeVars
  <2>8. ASSUME NEW r \in submitting, PublishSignRequest(r)
        PROVE  UNCHANGED <<up, requests, sessions, aggResults, loop>>
    BY <2>8 DEF PublishSignRequest, nodeVars
  <2>9. CASE Transfer \/ Loss \/ UNCHANGED vars
    <3>1. UNCHANGED <<up, requests, sessions, aggResults, loop>>
      BY <2>9 DEF Transfer, Loss, ReadLoop, LoseFrame, vars, transportVars, roundVars,
                  nodeVars
    <3>2. QED
      BY <2>4, <3>1
  <2>10. CASE Operator
    BY <2>2, <2>4, <2>5, <2>6, <2>10, SigningAssumption DEF Operator
  <2>11. QED
    BY <1>2, <2>3, <2>4, <2>5, <2>7, <2>8, <2>9, <2>10 DEF Next
<1>3. QED
  BY <1>1, <1>2

\* Whatever is lost, overflows, crashes, is overridden or replaced, the service
\* does what SigningRound promises: a request stays open until a quorum has signed
\* it, which it does once, or a later request of its session replaces it, or the
\* coordinator ends; and a node that runs stores nothing but what was signed
\* (SubmitSignRequest, onSignRequest, onSignResponse, onAggResult).
THEOREM RoundIsImplemented == Spec => ImplementsSigningRound
<1>1. Spec => []IInv /\ []RoundInv
  BY IInvIsInvariant, InitEstablishesRoundInv, NextKeepsRoundInv, PTL DEF Spec
<1>2. IInv /\ IInv' /\ RoundInv /\ [Next]_vars
        => [Round!Next]_<<up, requests, Open, Results, aggResults>>
  BY NextIsRound
<1>3. Spec => Round!Spec
  BY <1>1, <1>2, InitIsRound, PTL DEF Spec, Round!Spec, Round!vars
<1>4. QED
  BY <1>3 DEF ImplementsSigningRound

================================================================================
