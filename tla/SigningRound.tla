----------------------------- MODULE SigningRound ------------------------------
(***************************************************************************)
(* What the operator of a committee is promised about its signing rounds.  *)
(* A request that is asked for stays open until a quorum has signed it: it *)
(* is given up only for a later request of the same session, or with the   *)
(* coordinator itself.  No request is signed twice, none that was not      *)
(* asked for is signed, and a node stores nothing but what was signed, as  *)
(* long as its process runs.  Results may be lost on their way to a node,  *)
(* overtake each other and be stored again.                                *)
(* (SubmitSignRequest, onSignResponse, onAggResult and AggregateResult in  *)
(* internal/committee/service.go.)                                         *)
(***************************************************************************)
EXTENDS Naturals, Sequences

CONSTANTS
  Node,          \* the nodes
  Coordinator,   \* the node that makes the results
  Session,       \* session identifiers
  Payload,       \* what may be asked for: messages, and None
  None,          \* the empty message; no result
  Quorum,        \* the sets of members that can sign for the committee
  CommitteeKey   \* the key their signatures verify under

VARIABLES
  up,       \* up[n]: the process of node n runs
  asked,    \* the requests so far, as a sequence
  open,     \* the requests, by number, that may still be signed
  results,  \* the results that are signed and not lost
  stored    \* stored[n][s]: the result of session s at node n, or None

vars == <<up, asked, open, results, stored>>

\* Request r, signed by the members of Q.
SignedBy(r, Q) ==
  [type |-> "AggResult", sid |-> asked[r].sid, message |-> asked[r].message,
   request |-> r, signers |-> Q, key |-> CommitteeKey]

Nothing == [s \in Session |-> None]

Init ==
  /\ up = [n \in Node |-> TRUE]
  /\ asked = <<>>
  /\ open = {}
  /\ results = {}
  /\ stored = [n \in Node |-> Nothing]

\* The operator asks for a message.  Only a request of the same session may be
\* given up for it.
Ask(s, m) ==
  /\ up[Coordinator]
  /\ asked' = Append(asked, [sid |-> s, message |-> m])
  /\ \E replaced \in SUBSET {r \in open : asked[r].sid = s} :
       open' = (open \ replaced) \cup {Len(asked')}
  /\ UNCHANGED <<up, results, stored>>

\* A request that was replaced is given up later.
GiveUp(r) ==
  /\ r \in open
  /\ \E q \in DOMAIN asked : q > r /\ asked[q].sid = asked[r].sid
  /\ open' = open \ {r}
  /\ UNCHANGED <<up, asked, results, stored>>

\* A quorum has signed request r.
Sign(r) ==
  /\ r \in open
  /\ asked[r].message # None
  /\ open' = open \ {r}
  /\ \E Q \in Quorum : results' = results \cup {SignedBy(r, Q)}
  /\ UNCHANGED <<up, asked, stored>>

\* Node n stores result x; the one it takes the place of may be gone with it.
Store(n, x) ==
  /\ up[n]
  /\ x \in results
  /\ stored' = [stored EXCEPT ![n][x.sid] = x]
  /\ UNCHANGED <<up, asked, open>>
  /\ results' \subseteq results

Lose == UNCHANGED <<up, asked, open, stored>> /\ results' \subseteq results

\* The process of node n ends, with all it stores.  Nothing is signed without
\* the coordinator.
End(n) ==
  /\ up[n]
  /\ up' = [up EXCEPT ![n] = FALSE]
  /\ stored' = [stored EXCEPT ![n] = Nothing]
  /\ open' = IF n = Coordinator THEN {} ELSE open
  /\ UNCHANGED asked
  /\ results' \subseteq results

Next ==
  \/ Lose
  \/ \E s \in Session, m \in Payload : Ask(s, m)
  \/ \E r \in open : Sign(r) \/ GiveUp(r)
  \/ \E n \in Node, x \in results : Store(n, x)
  \/ \E n \in Node : End(n)

Spec == Init /\ [][Next]_vars
==============================================================================
