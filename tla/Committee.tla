------------------------------- MODULE Committee -------------------------------
(***************************************************************************)
(* The service as one program: the key generation and the signing rounds   *)
(* share the transport and the main loop of every node                     *)
(* (internal/committee/service.go, Start and handleEnvelope), and the      *)
(* rounds take their key and their readiness from the key generation.      *)
(*                                                                         *)
(* All processes run from the beginning, as scripts/run.sh starts them;    *)
(* late starts and restarts are a matter of DKG, auto-sign and manual      *)
(* signing one of Signing.                                                 *)
(***************************************************************************)
EXTENDS Transport, FiniteSets

CONSTANTS
  CommitteeSize,  \* cfg.CommitteeSize
  Threshold,      \* cfg.Threshold
  Coordinator,    \* cfg.CoordinatorID
  Session,        \* session identifiers
  Message,        \* messages to sign
  Submitted,      \* the messages the operator of the coordinator submits
  MayCrash,       \* the nodes whose process may end
  MaxRequests,    \* bound: how many requests are submitted
  None            \* no value

ASSUME CommitteeAssumption ==
  /\ CommitteeSize \in Nat \ {0}
  /\ Threshold \in 1 .. CommitteeSize
  /\ Coordinator \in Node
  /\ None \notin Session \cup Message
  /\ Submitted \subseteq Message
  /\ MayCrash \subseteq Node
  /\ MaxRequests \in Nat

VARIABLES
  \* of the key generation
  starts, dealt, dkgShares, dealerPubKeys, blsKey, committeePubKey, dkgReady,
  \* of the signing rounds
  autoSign, pending, sessions, aggResults, lastAgg, requests, loop,
  submitting, signing, overrides,
  readyThen  \* ghost: the nodes that were ready when request r was submitted

KeyGen == INSTANCE DKG WITH MaxStarts <- 1

\* The committee key of node n as Signing numbers it: 1 is the key that the
\* dealings of all dealers add up to, 2 would be any other one.
key ==
  [n \in Node |-> IF ~KeyGen!HasKey(n) THEN 0
                  ELSE IF committeePubKey[n] = KeyGen!FirstKey THEN 1 ELSE 2]

OneKey == [n \in Node |-> 1]

Rounds == INSTANCE Signing
            WITH KeyOf <- OneKey, AlreadyReady <- {}, Manual <- {},
                 Override <- {}, MaxOverrides <- 0, ready <- dkgReady

\* No value is not a value of the rounds.
ASSUME NoneIsNoData ==
  None \notin UNION {Rounds!SessionState, Rounds!Response, Rounds!Result,
                     Rounds!LoopJob, Rounds!Queued}

keyGenVars == <<starts, dealt, dkgShares, dealerPubKeys, blsKey, committeePubKey,
                dkgReady>>
roundVars == <<autoSign, pending, sessions, aggResults, lastAgg, requests, loop,
               submitting, signing, overrides>>
vars == <<transportVars, keyGenVars, roundVars, readyThen>>

------------------------------------------------------------------------------
Init ==
  /\ KeyGen!Init
  /\ Rounds!Init
  /\ readyThen = <<>>

\* The main loop of node n is not in the middle of a signing handler.
LoopIsFree(n) == loop[n] = None

\* The DKG goroutine and the key generation's part of the main loop.
Deal(n) ==
  /\ KeyGen!BroadcastDealerShare(n)
  /\ UNCHANGED <<roundVars, readyThen>>

TakeShare(n) ==
  /\ LoopIsFree(n)
  /\ KeyGen!OnDealShare(n)
  /\ UNCHANGED <<roundVars, readyThen>>

FinishKeyGen(n) ==
  /\ KeyGen!MarkReady(n)
  /\ UNCHANGED <<roundVars, readyThen>>

\* The rest of the main loop.
HandleRound(n) ==
  /\ UNCHANGED <<keyGenVars, readyThen>>
  /\ Rounds!MainLoop(n)

Submit(s, m) ==
  /\ UNCHANGED keyGenVars
  /\ Rounds!SubmitSignRequest(s, m)
  /\ readyThen' = Append(readyThen, {n \in Node : dkgReady[n]})

PublishRequest(r) ==
  /\ UNCHANGED <<keyGenVars, readyThen>>
  /\ Rounds!PublishSignRequest(r)

\* The process of node n ends, and is not started again.
Crash(n) ==
  /\ KeyGen!Crash(n)
  /\ Rounds!Crash(n)
  /\ UNCHANGED readyThen

Transfer ==
  /\ UNCHANGED <<keyGenVars, roundVars, readyThen>>
  /\ \E f \in net : ReadLoop(f)

Next ==
  \/ \E s \in Session, m \in Submitted : Submit(s, m)
  \/ \E r \in submitting : PublishRequest(r)
  \/ \E n \in Node : \/ Deal(n)
                     \/ TakeShare(n)
                     \/ FinishKeyGen(n)
                     \/ HandleRound(n)
                     \/ Crash(n)
  \/ Transfer

Spec == Init /\ [][Next]_vars

\* What the goroutines do by themselves.
Progress ==
  \/ Transfer
  \/ \E r \in submitting : PublishRequest(r)
  \/ \E n \in Node : Deal(n) \/ TakeShare(n) \/ FinishKeyGen(n) \/ HandleRound(n)

(***************************************************************************)
(* Every goroutine of a running process goes on.  No step of the bounded   *)
(* model is ever undone, so that a behaviour comes to rest; that something *)
(* happens while anything can is then as much as that everything does      *)
(* which can.                                                              *)
(***************************************************************************)
Fairness == WF_vars(Progress)

FairSpec == Spec /\ Fairness

------------------------------------------------------------------------------
(***************************************************************************)
(* Properties.                                                             *)
(***************************************************************************)
\* The envelopes of the rounds among those in flight or queued.
OfRounds(env) == env.type # "DealShare"

\* How many of the first i envelopes of a queue are of the rounds.
RoundsAmong(queue, i) == Cardinality({j \in 1 .. i : OfRounds(queue[j])})

\* The queue without the shares: at place k the envelope with k - 1 of the
\* rounds before it.
RoundsOnly(queue) ==
  [k \in 1 .. RoundsAmong(queue, Len(queue)) |->
     CHOOSE env \in {queue[i] : i \in {j \in DOMAIN queue : /\ OfRounds(queue[j])
                                                         /\ RoundsAmong(queue, j) = k}} :
       TRUE]

\* The transport as the rounds see it.
roundNet == {f \in net : OfRounds(f.env)}
roundCh == [n \in Node |-> RoundsOnly(inCh[n])]

AsSigning == INSTANCE Signing
               WITH KeyOf <- OneKey, AlreadyReady <- {}, Manual <- {},
                    Override <- {}, MaxOverrides <- 0, ready <- dkgReady,
                    net <- roundNet, inCh <- roundCh

\* What Signing leaves out of the key generation changes nothing for the
\* rounds: with the shares taken out of the channels the service is Signing,
\* whatever the order in which shares and requests reach a node.
ImplementsSigning == AsSigning!Spec

\* A request is lost only to nodes that were not ready when it was submitted.
\* A member that was answers it: until a later request takes its place, the
\* member's answer is underway, is counted, or is needed no more.
OnlyUnreadyMembersMissRequests ==
  \A r \in DOMAIN requests : \A n \in readyThen[r] \cap Rounds!Member :
    (up[n] /\ up[Coordinator] /\ ~Rounds!Superseded(r))
      => LET session == sessions[requests[r].sid]
         IN  \/ Rounds!Underway(r, n)
             \/ session.aggregated
             \/ n \in Rounds!Responders(session)

\* At least Threshold members that still run were ready when request r was
\* submitted.
EnoughWereReady(r) ==
  Cardinality({n \in readyThen[r] \cap Rounds!Member : up[n]}) >= Threshold

\* No goroutine has anything left to do.
AtRest ==
  /\ submitting = {} /\ net = {}
  /\ \A n \in Node : up[n] => /\ inCh[n] = <<>> /\ loop[n] = None
                             /\ dealt[n] = CommitteeSize

\* When the service comes to rest, as it always does, every running node has
\* the result of such a request, those included that finished their key
\* generation later, or never.
ReadyCommitteeHasSigned ==
  AtRest => \A r \in DOMAIN requests :
              (EnoughWereReady(r) /\ up[Coordinator])
                => Rounds!Superseded(r) \/ Rounds!KnownEverywhere(r)

\* The key generation ends at every node, although requests already arrive in
\* the middle of it, unless a process ends.
KeyGenerationCompletes ==
  <>((\E n \in Node : ~up[n]) \/ (\A n \in Node : dkgReady[n]))

\* While every process is started once only, the committee learns one key, in
\* the middle of its signing rounds as much as without them.
ImplementsCommitteeKey == KeyGen!ImplementsCommitteeKey
================================================================================
