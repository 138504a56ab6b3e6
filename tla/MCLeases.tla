------------------------------ MODULE MCLeases ------------------------------
(* A small instance of Leases: two workers of one monitor and one of        *)
(* another that publishes the same subject.                                 *)
EXTENDS Leases, TLC

CONSTANTS m1, m2, s1, s2, s3, x1

AllSubs == {s1, s2, s3}
TwoOnM1 == (s1 :> m1) @@ (s2 :> m1) @@ (s3 :> m2)
Workers == Permutations({s1, s2})
=============================================================================
