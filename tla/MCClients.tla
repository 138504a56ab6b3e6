----------------------------- MODULE MCClients -----------------------------
(* A small instance of Clients: a policy that resets, or none. *)
EXTENDS Clients

SomePolicies == {"none", "latest"}
=============================================================================
