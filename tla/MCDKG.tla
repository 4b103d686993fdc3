-------------------------------- MODULE MCDKG --------------------------------
(***************************************************************************)
(* Instances of DKG for TLC.  The committee is the whole static_nodes      *)
(* list, as gen.sh writes it.                                              *)
(***************************************************************************)
EXTENDS DKG

\* The nodes that may stop and, when MaxStarts allows, start again.
FirstCrashes == {0}
==============================================================================
