--------------------------- MODULE MCStaticNetwork ----------------------------
(***************************************************************************)
(* Instances of StaticNetwork for TLC: which node has which in its         *)
(* static_node_addrs.                                                      *)
(***************************************************************************)
EXTENDS StaticNetwork

\* Only the first node knows the other one.
OneWay == {<<0, 1>>}

\* The lists gen.sh writes: everybody, the node itself included.
Everybody == Node \X Node
==============================================================================
