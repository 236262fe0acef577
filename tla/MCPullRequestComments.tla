------------------------ MODULE MCPullRequestComments ------------------------
(***************************************************************************)
(* Instances of PullRequestComments for TLC.                               *)
(***************************************************************************)
EXTENDS PullRequestComments
=============================================================================
