------------------------------ MODULE MCSigning ------------------------------
(***************************************************************************)
(* Instances of Signing for TLC: which committee key the key generation    *)
(* gave each of three nodes.                                               *)
(***************************************************************************)
EXTENDS Signing

\* No dealer restarted during the key generation.
OneKey == [n \in Node |-> 1]

\* The last node summed another dealing than the others.
SplitKey == [n \in Node |-> IF n = NodeCount - 1 THEN 2 ELSE 1]
==============================================================================
