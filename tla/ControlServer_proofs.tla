-------------------------- MODULE ControlServer_proofs ---------------------------
(***************************************************************************)
(* What the commands report is true, for any number of connections and     *)
(* any requests on them.                                                   *)
(***************************************************************************)
EXTENDS ControlServer, TLAPS

Phase ==
  {"running", "interrupted", "listener closed", "network closing",
   "network stopped", "exited", "panicked"}

TypeOK ==
  /\ phase \in Phase
  /\ client \in [Conn -> {"idle", "connected", "sent"} \cup Reported]
  /\ response \in [Conn -> {"none", "ok", "refused"}]
  /\ handler \in [Conn -> {"none", "backlog", "reading", "handling", "publish",
                           "push", "ok", "refused", "closed"}]
  /\ executed \subseteq Conn
  /\ published \subseteq executed
  /\ overflowed \subseteq executed

\* The request on connection k has taken effect as far as it will: the envelope
\* it stands for, if any, is published, had no room in the channel and no other
\* addressee, or the process is on its way down.
Settled(k) ==
  /\ k \in executed
  /\ Publishes(Action[k]) =>
       \/ k \in published
       \/ k \in overflowed /\ ~Broadcasts(Action[k])
       \/ phase # "running"

\* What the server does with connection k, and what has come of it.
HandlerOK(k) ==
  /\ handler[k] \in {"none", "backlog", "reading", "handling", "refused"}
       => k \notin executed
  /\ handler[k] \in {"publish", "push"} => k \in executed
  /\ handler[k] = "ok" => Settled(k)

\* What the server has answered, and what the client has made of that.
AnswerOK(k) ==
  /\ response[k] # "none" => handler[k] = "closed"
  /\ response[k] = "ok" => Settled(k)
  /\ response[k] = "refused" => k \notin executed
  /\ client[k] \in {"idle", "unreachable"} => handler[k] = "none"
  /\ client[k] \in {"ok", "refused"} => response[k] = client[k]

\* The inductive invariant.
IInv == TypeOK /\ \A k \in Conn : HandlerOK(k) /\ AnswerOK(k)

LEMMA InitEstablishesIInv == Init => IInv
  BY DEF Init, IInv, TypeOK, Phase, Reported, HandlerOK, AnswerOK

\* What has settled stays so: nobody starts the process again, or undoes a request.
LEMMA SettledStays ==
  ASSUME NEW k, Settled(k), executed \subseteq executed', published \subseteq published',
         overflowed \subseteq overflowed', phase # "running" => phase' # "running"
  PROVE  Settled(k)'
  BY DEF Settled

\* A step of the client of connection c.
LEMMA ClientPreserves ==
  ASSUME IInv, NEW c \in Conn, Dial(c) \/ Send(c) \/ Receive(c) \/ GiveUp(c)
  PROVE  IInv'
<1>1. UNCHANGED <<phase, response, executed, published, overflowed>>
  BY DEF Dial, Send, Receive, GiveUp
<1>2. CASE Dial(c)
  BY <1>1, <1>2, SettledStays
     DEF IInv, TypeOK, Reported, HandlerOK, AnswerOK, Dial
<1>3. CASE Send(c) \/ Receive(c) \/ GiveUp(c)
  <2>1. UNCHANGED handler
    BY <1>3 DEF Send, Receive, GiveUp
  <2>2. TypeOK'
    BY <1>1, <1>3, <2>1 DEF IInv, TypeOK, Reported, Send, Receive, GiveUp
  <2>3. ASSUME NEW k \in Conn
        PROVE  HandlerOK(k)'
    BY <1>1, <2>1 DEF IInv, HandlerOK, Settled
  <2>4. ASSUME NEW k \in Conn
        PROVE  AnswerOK(k)'
    BY <1>1, <1>3, <2>1
       DEF IInv, TypeOK, AnswerOK, Settled, Reported, Send, Receive, GiveUp
  <2>5. QED
    BY <2>2, <2>3, <2>4 DEF IInv
<1>4. QED
  BY <1>2, <1>3

\* A step of the server's goroutine of connection c.
LEMMA ServePreserves ==
  ASSUME IInv, NEW c \in Conn, Serve(c)
  PROVE  IInv'
<1>1. /\ UNCHANGED client
      /\ executed \subseteq executed' /\ published \subseteq published'
      /\ overflowed \subseteq overflowed'
      /\ phase # "running" => phase' # "running"
  BY DEF Serve, Accept, ReadRequest, Execute, CheckClosed, PublishEnvelope,
         PushInbound, Respond
<1>2. ASSUME NEW k \in Conn \ {c}
      PROVE  HandlerOK(k)' /\ AnswerOK(k)'
  <2>1. /\ handler'[k] = handler[k] /\ response'[k] = response[k]
        /\ k \in executed' <=> k \in executed
    BY DEF IInv, TypeOK, Serve, Accept, ReadRequest, Execute, CheckClosed,
           PublishEnvelope, PushInbound, Respond
  <2>2. QED
    BY <1>1, <2>1, SettledStays DEF IInv, HandlerOK, AnswerOK
<1>3. TypeOK' /\ HandlerOK(c)' /\ AnswerOK(c)'
  <2>1. CASE Accept(c) \/ ReadRequest(c)
    BY <2>1 DEF IInv, TypeOK, HandlerOK, AnswerOK, Settled, Accept, ReadRequest
  <2>2. CASE Execute(c)
    BY <2>2 DEF IInv, TypeOK, HandlerOK, AnswerOK, Settled, Execute, AfterExecution
  <2>3. CASE CheckClosed(c)
    BY <2>3
       DEF IInv, TypeOK, HandlerOK, AnswerOK, Settled, CheckClosed, AfterCheck, Closed
  <2>4. CASE PublishEnvelope(c)
    BY <2>4
       DEF IInv, TypeOK, Phase, HandlerOK, AnswerOK, Settled, PublishEnvelope,
           PushInbound, Closed
  <2>5. CASE Respond(c)
    BY <2>5 DEF IInv, TypeOK, HandlerOK, AnswerOK, Settled, Respond
  <2>6. QED
    BY <2>1, <2>2, <2>3, <2>4, <2>5 DEF Serve
<1>4. QED
  BY <1>2, <1>3 DEF IInv

\* A step of the process that leaves its connections alone.
LEMMA ProcessPreserves ==
  ASSUME IInv, UNCHANGED <<client, response, handler, executed, published, overflowed>>,
         phase' \in Phase, phase # "running" => phase' # "running"
  PROVE  IInv'
<1>1. TypeOK'
  BY DEF IInv, TypeOK
<1>2. ASSUME NEW k \in Conn
      PROVE  HandlerOK(k)' /\ AnswerOK(k)'
  BY SettledStays DEF IInv, HandlerOK, AnswerOK
<1>3. QED
  BY <1>1, <1>2 DEF IInv

LEMMA CloseListenerPreserves ==
  ASSUME IInv, CloseListener
  PROVE  IInv'
<1>1. TypeOK'
  BY DEF IInv, TypeOK, Phase, CloseListener
<1>2. ASSUME NEW k \in Conn
      PROVE  HandlerOK(k)' /\ AnswerOK(k)'
  BY SettledStays DEF IInv, TypeOK, HandlerOK, AnswerOK, CloseListener
<1>3. QED
  BY <1>1, <1>2 DEF IInv

LEMMA NextPreservesIInv == IInv /\ [Next]_vars => IInv'
<1> SUFFICES ASSUME IInv, [Next]_vars PROVE IInv'
  OBVIOUS
<1>1. ASSUME NEW k \in Conn, Dial(k) \/ Send(k) \/ Receive(k) \/ GiveUp(k) \/ Serve(k)
      PROVE  IInv'
  BY <1>1, ClientPreserves, ServePreserves
<1>2. CASE CloseListener
  BY <1>2, CloseListenerPreserves
<1>3. CASE \/ BecomeReady \/ Interrupt \/ AutoSubmit \/ AutoCheckClosed \/ AutoPublish
           \/ AutoReturn \/ BeginStopNetwork \/ EndStopNetwork \/ Exit
           \/ PeersConnect \/ PeersLeave \/ Arrive \/ TakeEnvelope \/ UNCHANGED vars
  <2>1. UNCHANGED <<client, response, handler, executed, published, overflowed>>
    BY <1>3
       DEF BecomeReady, Interrupt, AutoSubmit, AutoCheckClosed, AutoPublish,
           PushInbound, AutoReturn, BeginStopNetwork, EndStopNetwork,
           Exit, PeersConnect, PeersLeave, Arrive, TakeEnvelope, vars
  <2>2. phase' \in Phase /\ (phase # "running" => phase' # "running")
    BY <1>3
       DEF IInv, TypeOK, Phase, BecomeReady, Interrupt, AutoSubmit, AutoCheckClosed,
           AutoPublish, PushInbound, AutoReturn, BeginStopNetwork, EndStopNetwork,
           Exit, PeersConnect, PeersLeave, Arrive, TakeEnvelope, vars
  <2>3. QED
    BY <2>1, <2>2, ProcessPreserves
<1>4. QED
  BY <1>1, <1>2, <1>3 DEF Next

\* What a command line reports of its request is what has come of it at the
\* control server (handleControlConn, sendControlRequest), at whatever moment
\* clients give up and the process is interrupted.
THEOREM ReportsTrue == Spec => []ReportsAreTrue
<1>1. IInv => ReportsAreTrue
  BY DEF IInv, TypeOK, HandlerOK, AnswerOK, Settled, ReportsAreTrue
<1>2. QED
  BY <1>1, InitEstablishesIInv, NextPreservesIInv, PTL DEF Spec
================================================================================
