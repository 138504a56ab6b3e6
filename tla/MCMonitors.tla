---------------------------- MODULE MCMonitors ----------------------------
(* A small instance of Monitors: an owner, a grantee and a stranger. *)
EXTENDS Monitors

CONSTANTS o, g, s, x

Everybody == {o, g, s}
OneGrantee == {g}

AnyRow == [types |-> NoList, tag |-> NoList, since |-> Absent, until |-> Absent]
SomeRows == [types |-> {"t1"}, tag |-> {x}, since |-> Absent, until |-> 1]

TwoFilters == {AnyRow, SomeRows}

(* Every list key and both times, missing, empty or given. *)
AskedFilters == {f \in Filter : f.types \in {NoList, {}, {"t1"}, {"t1", Prefix}} /\ f.since \in {Absent, 2}}
=============================================================================
