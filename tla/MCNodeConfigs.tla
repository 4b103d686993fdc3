----------------------------- MODULE MCNodeConfigs -----------------------------
(***************************************************************************)
(* Instances of NodeConfigs for TLC: two members, the file of a third one  *)
(* from an earlier call of gen.sh, and the commands of the operators.      *)
(***************************************************************************)
EXTENDS NodeConfigs

TwoMembers == <<2, 4>>
ThreeMembers == <<2, 4, 6>>

AddPeerTo(tool, from, peer, addr) ==
  [tool |-> tool, from |-> from, peer |-> peer, addr |-> addr]

\* A peer whose name comes before one of a member, one whose name comes last, and
\* the script, which is not told an address and moves the members when both have
\* been added.
Overlapping == {AddPeerTo("cli", All, 3, "a"), AddPeerTo("cli", 2, 8, "a"),
                AddPeerTo("script", 2, 8, NoAddr)}
================================================================================
