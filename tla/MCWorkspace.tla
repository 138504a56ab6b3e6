---------------------------- MODULE MCWorkspace ----------------------------
(* A small instance of Workspace: two profiles, of one capability each.     *)
EXTENDS Workspace

Policy(id) == [required |-> <<id>>,
               providers |-> [codex |-> <<[id |-> id, tool |-> "t1", pin |-> "k"]>>]]

TwoPolicies == {Policy("read"), Policy("write")}
=============================================================================
