---------------------------- MODULE MCCapabilities ----------------------------
(* A small instance of Capabilities: two capabilities, on tools of their    *)
(* own or on a shared one, and policies that are good, that pin one tool    *)
(* twice, and that leave a capability out for the other provider.           *)
EXTENDS Capabilities

Cap(i, t, k) == [id |-> i, tool |-> t, pin |-> k]

Good == [required |-> <<"read", "write">>,
         providers |-> [codex |-> <<Cap("write", "t2", "k"), Cap("read", "t1", "k")>>,
                        claude |-> <<Cap("read", "t1", "k"), Cap("write", "t1", "k")>>]]

Clash == [required |-> <<"read", "write">>,
          providers |-> [codex |-> <<Cap("read", "t1", "k"), Cap("write", "t1", "other")>>]]

Short == [required |-> <<"read", "write">>,
          providers |-> [codex |-> <<Cap("read", "t1", "k"), Cap("write", "t1", "k")>>,
                         claude |-> <<Cap("read", "t1", "k")>>]]

AllPolicies == {Good, Clash, Short}

=============================================================================
