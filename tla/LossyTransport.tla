---------------------------- MODULE LossyTransport ----------------------------
(***************************************************************************)
(* What the rest of the service is promised about the transport: the       *)
(* operators of Transport as a specification of their own.  An envelope is *)
(* published once, reaches only nodes it is addressed to, each of them at  *)
(* most once, and waits in a channel of bounded length; any of its frames  *)
(* may be lost on the way.                                                 *)
(***************************************************************************)
EXTENDS Transport

CONSTANT Envelope  \* records with the fields from and to (a set of nodes)

VARIABLE sent      \* the envelopes published so far

vars == <<transportVars, sent>>

Init ==
  /\ up \in [Node -> BOOLEAN]
  /\ net = {}
  /\ inCh = [n \in Node |-> <<>>]
  /\ sent = {}

\* The sender's process publishes env, to some of the nodes it is meant for.
Send(env) ==
  /\ env \notin sent
  /\ sent' = sent \cup {env}
  /\ up[env.from]
  /\ \E to \in SUBSET env.to : Publish(env.from, to, env)
  /\ UNCHANGED up

Read == \E f \in net : ReadLoop(f) /\ UNCHANGED sent

Lose ==
  /\ \E F \in SUBSET net : net' = net \ F
  /\ UNCHANGED <<up, inCh, sent>>

Take(n) ==
  /\ Received(n)
  /\ inCh' = Consume(n)
  /\ UNCHANGED <<up, net, sent>>

\* The process of n ends, and with it any of the frames it has sent.
End(n) ==
  /\ up[n]
  /\ up' = [up EXCEPT ![n] = FALSE]
  /\ inCh' = [inCh EXCEPT ![n] = <<>>]
  /\ net' \in SUBSET {f \in net : f.dst # n}
  /\ UNCHANGED sent

Begin(n) == StartProcess(n) /\ UNCHANGED sent

Next ==
  \/ \E env \in Envelope : Send(env)
  \/ Read
  \/ Lose
  \/ \E n \in Node : Take(n) \/ End(n) \/ Begin(n)

Spec == Init /\ [][Next]_vars
==============================================================================
