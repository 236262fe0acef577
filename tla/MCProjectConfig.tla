--------------------------- MODULE MCProjectConfig ---------------------------
(***************************************************************************)
(* Instances of ProjectConfig: events served by one worker process.        *)
(***************************************************************************)
EXTENDS ProjectConfig

CONSTANTS t1, t2, w1

Workplaces == [t \in Loads |-> w1]

TwoPaths == <<"a", "b">>
=============================================================================
