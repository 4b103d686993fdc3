---------------------------- MODULE MCControlServer ----------------------------
(***************************************************************************)
(* Instances of ControlServer for TLC: two commands for the committee,     *)
(* given in any order, which may overlap, as those of two consoles do.     *)
(***************************************************************************)
EXTENDS ControlServer

Commands == <<"submit_sign_request", "sign_session">>
================================================================================
