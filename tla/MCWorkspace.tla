---------------------------- MODULE MCWorkspace ----------------------------
(* Model-checking instances of the pages of the rollout path. *)
EXTENDS Workspace
=============================================================================
