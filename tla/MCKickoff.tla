------------------------------ MODULE MCKickoff ------------------------------
(***************************************************************************)
(* Instances of Kickoff: two branches of one repository, and a second      *)
(* repository.                                                             *)
(***************************************************************************)
EXTENDS Kickoff

CONSTANTS main, dev, other, repo, repo2, trunk, branch

TwoClients == {main, dev}

OneClient == {other}

ProjectsOf == [c \in Clients |-> IF c = other THEN repo2 ELSE repo]

BranchesOf == [c \in Clients |-> IF c = dev THEN branch ELSE trunk]

Setup(tagged, old, n) == [delegated |-> tagged, legacy |-> old, pushes |-> n]

\* Plain and legacy projects with a push, delegated ones without.
FourSetups ==
    {Setup({}, {}, 1), Setup({}, Projects, 1),
     Setup(Projects, {}, 0), Setup(Projects, Projects, 0)}

DelegatedSetups == {Setup(Projects, {}, 0)}
=============================================================================
