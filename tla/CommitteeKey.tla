---------------------------- MODULE CommitteeKey -----------------------------
(***************************************************************************)
(* What the key generation promises to the rest of the service: there is   *)
(* one committee key, every process either has it or has none, a process   *)
(* reports it is ready only after it has the key, and it keeps the key     *)
(* until it ends.  (CommitteePublicKey and isDKGReady in                   *)
(* internal/committee/service.go.)                                         *)
(***************************************************************************)
CONSTANTS
  Node,   \* the nodes
  Key,    \* the committee key
  None    \* the value of a key that is not known

VARIABLES
  key,    \* key[n]: the committee key node n returns
  ready   \* ready[n]: node n reports that the key generation is complete

Init ==
  /\ key = [n \in Node |-> None]
  /\ ready = [n \in Node |-> FALSE]

\* Node n learns the committee key.
Learn(n) ==
  /\ key[n] = None
  /\ key' = [key EXCEPT ![n] = Key]
  /\ UNCHANGED ready

\* Node n, which knows the key, reports that it does.
Announce(n) ==
  /\ key[n] = Key
  /\ ready' = [ready EXCEPT ![n] = TRUE]
  /\ UNCHANGED key

\* The process of node n ends; nothing it knew survives.
Forget(n) ==
  /\ key' = [key EXCEPT ![n] = None]
  /\ ready' = [ready EXCEPT ![n] = FALSE]

Next == \E n \in Node : Learn(n) \/ Announce(n) \/ Forget(n)

Spec == Init /\ [][Next]_<<key, ready>>
==============================================================================
