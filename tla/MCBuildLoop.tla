---------------------------- MODULE MCBuildLoop ----------------------------
(***************************************************************************)
(* Instances of BuildLoop for TLC, whose constants the configurations      *)
(* give.                                                                   *)
(***************************************************************************)
EXTENDS BuildLoop
=============================================================================
