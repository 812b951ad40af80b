------------------------------- MODULE MCPull -------------------------------
(* Two jobs at once on one pull request. *)
EXTENDS PullRequest

CONSTANTS j1, j2
=============================================================================
