---------------------------- MODULE MCScmSession ----------------------------
(***************************************************************************)
(* Instances of ScmSession for TLC: two installations of one server, and   *)
(* one of another server with the same id.                                 *)
(***************************************************************************)
EXTENDS ScmSession

TheOwners == {[server |-> "A", id |-> "i"], [server |-> "A", id |-> "k"],
              [server |-> "B", id |-> "i"]}
=============================================================================
