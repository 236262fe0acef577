------------------------- MODULE MCPullRequestScans -------------------------
(***************************************************************************)
(* Instances of PullRequestScans for TLC.                                  *)
(***************************************************************************)
EXTENDS PullRequestScans

Setup(scmType, delegated, names) ==
    [scm |-> scmType, delegates |-> delegated, naming |-> names]

\* Each SCM; each way to name the project with an orchestrator that looks scans
\* up and with one that does not; agents with both kinds.
MCSetups ==
    {Setup("gh", TRUE, "none"), Setup("gh", FALSE, "dynamic"),
     Setup("bbdc", FALSE, "legacy"),
     Setup("adoe", TRUE, "none"), Setup("bbc", TRUE, "dynamic"),
     Setup("gl", FALSE, "legacy")}
=============================================================================
