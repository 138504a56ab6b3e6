---------------------------- MODULE LeasesProofs ----------------------------
(***************************************************************************)
(* What Leases states of the leases on subjects, for every value of the    *)
(* constants: any number of subscriptions and subjects, any durations and  *)
(* any limit.                                                              *)
(***************************************************************************)
EXTENDS Leases, TLAPS

Lease == [exists : BOOLEAN, holder : Subs \cup {Nobody}, expires : Int,
          attempts : 0..MaxAttempts, dead : BOOLEAN]

Table == [Subjects -> Lease]
Lists == [Monitors -> SUBSET Subjects]

Shape ==
    /\ now \in 0..MaxTime
    /\ leases \in Table /\ active \subseteq Subs /\ published \in Lists
    /\ disk \in [leases : Table, active : SUBSET Subs, published : Lists]
    /\ logged \in [Subjects -> [holder : Subs \cup {Nobody}, expires : Int]]
    /\ told \in [Subs -> [Subjects -> Int]]
    /\ halfway \subseteq Subjects

(* A lease of x, be it in memory or on disk: whoever believes it holds x is *)
(* its holder, its holder was told when it ends, and so was the log.        *)
Right(lease, x) ==
    /\ lease.exists \/ lease = NoLease
    /\ lease.dead => lease.holder = Nobody
    /\ x \notin halfway =>
        /\ \A s \in Subs : Believes(s, x) => lease.holder = s
        /\ \A s \in Subs : lease.holder = s => told[s][x] = lease.expires
        /\ lease.holder # Nobody =>
              logged[x] = [holder |-> lease.holder, expires |-> lease.expires]

(* What is in memory is on disk, but for a holder whose time was up. *)
Saved(x) ==
    /\ leases[x].dead = disk.leases[x].dead
    /\ x \notin halfway => leases[x] = disk.leases[x] \/ leases[x].holder = Nobody

IInv ==
    /\ Shape
    /\ \A x \in Subjects : Right(leases[x], x) /\ Right(disk.leases[x], x) /\ Saved(x)

(* No dead letter comes back to life. *)
DeadStay == \A x \in Subjects : leases[x].dead => leases'[x].dead

-----------------------------------------------------------------------------
(* Rights.                                                                  *)

(* The types the lemmas below speak of. *)
LEMMA Numbers ==
    ASSUME Shape
    PROVE  /\ now \in Int /\ now >= 0 /\ Never \in Int /\ Never < now
           /\ \A x \in Subjects : leases[x] \in Lease /\ disk.leases[x] \in Lease
           /\ \A s \in Subs : s # Nobody /\ \A x \in Subjects : told[s][x] \in Int
<1>1. now \in Int /\ now >= 0 /\ Never \in Int /\ Never < now
  BY LeasesAssumption DEF Shape, Never
<1>2. \A s \in Subs : s # Nobody
  BY LeasesAssumption
<1> QED BY <1>1, <1>2 DEF Shape, Table

(* A subject a step does not touch stays in order, as time goes on and      *)
(* claims on other subjects fail.                                           *)
LEMMA Unmoved ==
    ASSUME IInv, NEW x \in Subjects, logged'[x] = logged[x],
           \A s \in Subs : told'[s][x] = told[s][x],
           now' \in Int, now <= now', halfway \subseteq halfway'
    PROVE  /\ leases'[x] = leases[x] => Right(leases[x], x)'
           /\ leases'[x] = disk.leases[x] => Right(leases[x], x)'
           /\ disk'.leases[x] = disk.leases[x] => Right(disk.leases[x], x)'
<1>1. \A s \in Subs : Believes(s, x)' => Believes(s, x)
  BY Numbers DEF IInv, Believes
<1>2. Right(leases[x], x) /\ Right(disk.leases[x], x)
  BY DEF IInv
<1> QED BY <1>1, <1>2 DEF Right

(* A handler that logs writes everything. *)
LEMMA Written ==
    ASSUME Shape, Persist, leases' \in Table, active' \subseteq Subs, published' \in Lists,
           now' = now, halfway' = halfway,
           logged' \in [Subjects -> [holder : Subs \cup {Nobody}, expires : Int]],
           told' \in [Subs -> [Subjects -> Int]],
           \A x \in Subjects : Right(leases[x], x)'
    PROVE  IInv'
<1>1. disk' = [leases |-> leases', active |-> active', published |-> published']
  BY DEF Persist
<1>2. Shape'
  BY <1>1 DEF Shape
<1>3. \A x \in Subjects : Right(disk.leases[x], x)'
  BY <1>1 DEF Right
<1>4. \A x \in Subjects : Saved(x)'
  BY <1>1 DEF Saved
<1> QED BY <1>2, <1>3, <1>4 DEF IInv

(* Where a lease is free, or s holds it, nobody else believes it is his. *)
LEMMA NobodyElse ==
    ASSUME IInv, NEW s \in Subs, NEW x \in Subjects \ halfway, HolderNow(x) \in {Nobody, s},
           NEW t \in Subs, Believes(t, x)
    PROVE  t = s
<1>1. /\ Believes(t, x) => leases[x].holder = t
      /\ leases[x].holder = t => told[t][x] = leases[x].expires
  BY DEF IInv, Right
<1>2. t # Nobody /\ told[t][x] >= now /\ now \in Int /\ told[t][x] \in Int
  BY Numbers DEF Believes, IInv
<1> QED BY <1>1, <1>2 DEF HolderNow, Expired

(* Who holds a lease and is in time believes it. *)
LEMMA HolderBelieves ==
    ASSUME IInv, NEW s \in Subs, NEW x \in Subjects, HolderNow(x) = s
    PROVE  /\ leases[x].holder = s /\ leases[x].expires >= now
           /\ leases[x].exists /\ ~leases[x].dead
           /\ x \notin halfway => Believes(s, x)
<1>1. s # Nobody /\ leases[x] \in Lease /\ now \in Int
  BY Numbers DEF IInv
<1>2. leases[x].holder = s /\ leases[x].expires >= now
  BY <1>1 DEF HolderNow, Expired, Lease
<1>3. Right(leases[x], x)
  BY DEF IInv
<1>4. x \notin halfway => Believes(s, x)
  BY <1>2, <1>3 DEF Right, Believes
<1> QED BY <1>1, <1>2, <1>3, <1>4 DEF Right, NoLease

(* A handler that assigns the lease of x, on which s alone may count.       *)
LEMMA AssignStep ==
    ASSUME IInv, Persist, NEW s \in Subs, NEW x \in Subjects, HolderNow(x) \in {Nobody, s},
           NEW lease \in Lease, NEW line \in [holder : Subs \cup {Nobody}, expires : Int],
           NEW until \in Int,
           leases' = [leases EXCEPT ![x] = lease], logged' = [logged EXCEPT ![x] = line],
           told' = [told EXCEPT ![s][x] = until],
           UNCHANGED <<now, active, published, halfway>>,
           lease.exists \/ lease = NoLease, lease.dead => lease.holder = Nobody,
           \/ lease.holder = s /\ until = lease.expires
              /\ line = [holder |-> s, expires |-> until]
           \/ lease.holder = Nobody /\ until = Never
    PROVE  IInv'
<1>1. /\ leases \in Table /\ told \in [Subs -> [Subjects -> Int]]
      /\ logged \in [Subjects -> [holder : Subs \cup {Nobody}, expires : Int]]
      /\ active \subseteq Subs /\ published \in Lists /\ Shape
  BY DEF IInv, Shape
<1>2. /\ leases' \in Table
      /\ logged' \in [Subjects -> [holder : Subs \cup {Nobody}, expires : Int]]
  BY <1>1 DEF Table
<1>3. told' \in [Subs -> [Subjects -> Int]]
  BY <1>1
<1>4. /\ told'[s][x] = until /\ leases'[x] = lease /\ logged'[x] = line
      /\ \A t \in Subs \ {s} : told'[t] = told[t]
      /\ \A y \in Subjects \ {x} : /\ leases'[y] = leases[y] /\ logged'[y] = logged[y]
                                   /\ told'[s][y] = told[s][y]
  BY <1>1 DEF Table
<1>5. ASSUME NEW y \in Subjects \ {x} PROVE Right(leases[y], y)'
  <2>1. now' \in Int /\ now <= now'
    BY <1>1, Numbers
  <2>2. \A t \in Subs : told'[t][y] = told[t][y]
    BY <1>4
  <2> QED BY <1>4, <2>1, <2>2, Unmoved
<1>6. Right(leases[x], x)'
  <2>1. ASSUME x \notin halfway', NEW t \in Subs, Believes(t, x)' PROVE lease.holder = t
    <3>1. CASE t = s
      <4>1. until >= now /\ Never < now
        BY <1>1, <1>4, <2>1, <3>1, Numbers DEF Believes
      <4> QED BY <1>1, <3>1, <4>1, Numbers
    <3>2. CASE t # s
      <4>1. Believes(t, x)
        BY <1>4, <2>1, <3>2 DEF Believes
      <4> QED BY <2>1, <3>2, <4>1, NobodyElse
    <3> QED BY <3>1, <3>2
  <2>2. ASSUME NEW t \in Subs, lease.holder = t PROVE told'[t][x] = lease.expires
    BY <1>1, <1>4, <2>2, Numbers
  <2>3. lease.holder # Nobody => line = [holder |-> lease.holder, expires |-> lease.expires]
    OBVIOUS
  <2> QED BY <1>4, <2>1, <2>2, <2>3 DEF Right
<1>7. \A y \in Subjects : Right(leases[y], y)'
  BY <1>5, <1>6
<1> QED BY <1>1, <1>2, <1>3, <1>7, Written

-----------------------------------------------------------------------------
(* Handlers on one subject.                                                 *)

(* claim and renew: the subject is s's until the time it is told. *)
LEMMA ClaimStep ==
    ASSUME IInv, NEW s \in Subs, NEW x \in Subjects, NEW dur \in Durations,
           Claim(s, x, dur) \/ Renew(s, x, dur)
    PROVE  IInv' /\ DeadStay
<1>1. /\ leases[x] \in Lease /\ leases \in Table /\ now \in Int /\ dur \in Int
  BY Numbers, LeasesAssumption DEF IInv, Shape
<1>2. CASE Claim(s, x, dur)
  <2>1. PICK lease : lease = [exists |-> TRUE, holder |-> s, expires |-> now + dur,
                              attempts |-> leases[x].attempts + 1, dead |-> FALSE]
    OBVIOUS
  <2>2. /\ leases[x].attempts < MaxAttempts /\ HolderNow(x) \in {Nobody, s}
        /\ ~leases[x].dead
    BY <1>2 DEF Claim, MayClaim
  <2>3. lease \in Lease
    BY <1>1, <2>1, <2>2, LeasesAssumption DEF Lease
  <2>4. leases' = [leases EXCEPT ![x] = lease]
    BY <1>1, <1>2, <2>1 DEF Claim, Table
  <2>5. DeadStay
    BY <1>1, <2>2, <2>4 DEF DeadStay, Table
  <2>6. PICK line, until : /\ line = [holder |-> s, expires |-> now + dur]
                           /\ until = now + dur
    OBVIOUS
  <2>7. /\ line \in [holder : Subs \cup {Nobody}, expires : Int] /\ until \in Int
        /\ logged' = [logged EXCEPT ![x] = line] /\ told' = [told EXCEPT ![s][x] = until]
        /\ UNCHANGED <<now, active, published, halfway>> /\ Persist
    BY <1>1, <1>2, <2>6 DEF Claim
  <2>8. /\ lease.exists /\ ~lease.dead /\ lease.holder = s /\ until = lease.expires
        /\ line = [holder |-> s, expires |-> until]
    BY <2>1, <2>6
  <2>9. IInv'
    BY <2>2, <2>3, <2>4, <2>7, <2>8, AssignStep
  <2> QED BY <2>5, <2>9
<1>3. CASE Renew(s, x, dur)
  <2>1. PICK lease : lease = [leases[x] EXCEPT !.expires = now + dur]
    OBVIOUS
  <2>2. HolderNow(x) = s
    BY <1>3 DEF Renew, Holds
  <2>3. leases[x].holder = s /\ leases[x].exists /\ ~leases[x].dead
    BY <2>2, HolderBelieves
  <2>4. /\ lease \in Lease /\ lease.exists /\ ~lease.dead /\ lease.holder = s
        /\ lease.expires = now + dur
    BY <1>1, <2>1, <2>3 DEF Lease
  <2>5. leases' = [leases EXCEPT ![x] = lease]
    BY <1>1, <1>3, <2>1 DEF Renew, Table
  <2>6. DeadStay
    BY <1>1, <2>3, <2>5 DEF DeadStay, Table
  <2>7. PICK line, until : /\ line = [holder |-> s, expires |-> now + dur]
                           /\ until = now + dur
    OBVIOUS
  <2>8. /\ line \in [holder : Subs \cup {Nobody}, expires : Int] /\ until \in Int
        /\ logged' = [logged EXCEPT ![x] = line] /\ told' = [told EXCEPT ![s][x] = until]
        /\ UNCHANGED <<now, active, published, halfway>> /\ Persist
    BY <1>1, <1>3, <2>7 DEF Renew
  <2>9. until = lease.expires /\ line = [holder |-> s, expires |-> until]
    BY <2>4, <2>7
  <2>10. IInv'
    BY <2>2, <2>4, <2>5, <2>8, <2>9, AssignStep
  <2> QED BY <2>6, <2>10
<1> QED BY <1>2, <1>3

(* complete, release and reject: the subject is nobody's. *)
LEMMA EndStep ==
    ASSUME IInv, NEW s \in Subs, NEW x \in Subjects,
           Complete(s, x) \/ \E rejected \in BOOLEAN : GiveBack(s, x, rejected)
    PROVE  IInv' /\ DeadStay
<1>1. leases[x] \in Lease /\ leases \in Table
  BY Numbers DEF IInv, Shape
<1>2. HolderNow(x) = s
  BY DEF Complete, GiveBack, Holds
<1>3. leases[x].exists /\ ~leases[x].dead
  BY <1>2, HolderBelieves
<1>4. PICK lease \in Lease :
         /\ leases' = [leases EXCEPT ![x] = lease]
         /\ lease.holder = Nobody /\ (lease.exists \/ lease = NoLease)
  <2>1. CASE Complete(s, x)
    <3>1. NoLease \in Lease /\ NoLease.holder = Nobody
      BY LeasesAssumption DEF NoLease, Lease, Never
    <3> QED BY <2>1, <3>1 DEF Complete
  <2>2. ASSUME NEW rejected \in BOOLEAN, GiveBack(s, x, rejected)
        PROVE  \E lease \in Lease :
                 /\ leases' = [leases EXCEPT ![x] = lease]
                 /\ lease.holder = Nobody /\ lease.exists
    <3>1. PICK dead \in BOOLEAN :
             leases' = [leases EXCEPT ![x].holder = Nobody, ![x].dead = @ \/ dead]
      BY <2>2 DEF GiveBack
    <3>2. PICK lease : lease = [leases[x] EXCEPT !.holder = Nobody, !.dead = dead]
      OBVIOUS
    <3>3. lease \in Lease /\ lease.holder = Nobody /\ lease.exists
      BY <1>1, <1>3, <3>2 DEF Lease
    <3>4. (leases[x].dead \/ dead) = dead
      BY <1>3
    <3>5. leases' = [leases EXCEPT ![x] = lease]
      BY <1>1, <3>1, <3>2, <3>4 DEF Table, Lease
    <3> QED BY <3>3, <3>5
  <2> QED BY <2>1, <2>2
<1>5. /\ logged' = [logged EXCEPT ![x] = Unheld] /\ told' = [told EXCEPT ![s][x] = Never]
      /\ UNCHANGED <<now, active, published, halfway>> /\ Persist
  BY DEF Complete, GiveBack, ForgetTold
<1>6. Unheld \in [holder : Subs \cup {Nobody}, expires : Int] /\ Never \in Int
  BY DEF Unheld, Never
<1>7. PICK line, until : line = Unheld /\ until = Never
  OBVIOUS
<1>8. IInv'
  BY <1>2, <1>4, <1>5, <1>6, <1>7, AssignStep
<1>9. DeadStay
  BY <1>1, <1>3, <1>4 DEF DeadStay, Table
<1> QED BY <1>8, <1>9

-----------------------------------------------------------------------------
(* Handlers that free many subjects.                                        *)

(* Retirements in R, and expiries: the lease of x is freed or stays.        *)
LEMMA FreedRight ==
    ASSUME IInv, NEW R \in SUBSET Subs, NEW x \in Subjects, now' = now, halfway' = halfway,
           \A t \in Subs : told'[t][x] = IF t \in R THEN Never ELSE told[t][x],
           \/ /\ leases'[x] = [leases[x] EXCEPT !.holder = Nobody]
              /\ leases[x].holder \in R \/ Expired(x)
           \/ /\ leases'[x] = leases[x] /\ leases[x].holder \notin R
              /\ x \notin halfway /\ leases[x].holder # Nobody => logged'[x] = logged[x]
    PROVE  Right(leases[x], x)'
<1>1. Right(leases[x], x) /\ leases[x] \in Lease /\ now \in Int /\ Never < now
  BY Numbers DEF IInv
<1>2. ASSUME NEW t \in Subs, Believes(t, x)', x \notin halfway
      PROVE  t \notin R /\ leases[x].holder = t /\ ~Expired(x)
  <2>1. t \notin R /\ told[t][x] >= now
    BY <1>1, <1>2 DEF Believes, Never
  <2>2. leases[x].holder = t /\ told[t][x] = leases[x].expires
    BY <1>1, <1>2, <2>1 DEF Right, Believes
  <2> QED BY <1>1, <2>1, <2>2 DEF Expired, Lease
<1>3. CASE /\ leases'[x] = [leases[x] EXCEPT !.holder = Nobody]
           /\ leases[x].holder \in R \/ Expired(x)
  <2>1. leases[x].exists
    BY <1>1, <1>3, Numbers DEF Right, NoLease, Expired, IInv
  <2>2. leases'[x].exists /\ leases'[x].holder = Nobody
    BY <1>1, <1>3, <2>1 DEF Lease
  <2>3. \A t \in Subs : t # Nobody
    BY LeasesAssumption
  <2>4. ASSUME NEW t \in Subs, x \notin halfway PROVE ~Believes(t, x)'
    BY <1>2, <1>3, <2>4
  <2> QED BY <2>2, <2>3, <2>4 DEF Right
<1>4. CASE /\ leases'[x] = leases[x] /\ leases[x].holder \notin R
           /\ x \notin halfway /\ leases[x].holder # Nobody => logged'[x] = logged[x]
  BY <1>1, <1>2, <1>4 DEF Right
<1> QED BY <1>3, <1>4

(* The tables stay tables. *)
LEMMA FreedShape ==
    ASSUME Shape, NEW R \in SUBSET Subs
    PROVE  /\ Freed(R) \in Table
           /\ \A x \in Subjects : Freed(R)[x] = IF leases[x].holder \in R
                                 THEN [leases[x] EXCEPT !.holder = Nobody] ELSE leases[x]
           /\ LoggedWithout(R) \in [Subjects -> [holder : Subs \cup {Nobody}, expires : Int]]
           /\ ToldWithout(R) \in [Subs -> [Subjects -> Int]]
<1>1. \A x \in Subjects : leases[x] \in Lease
  BY Numbers
<1>2. Freed(R) \in Table
  BY <1>1 DEF Freed, Table, Lease
<1>3. LoggedWithout(R) \in [Subjects -> [holder : Subs \cup {Nobody}, expires : Int]]
  BY DEF LoggedWithout, Unheld, Never, Shape
<1>4. ToldWithout(R) \in [Subs -> [Subjects -> Int]]
  BY DEF ToldWithout, Never, Shape
<1> QED BY <1>2, <1>3, <1>4 DEF Freed

(* Retiring a subscription, or a monitor with all of its own. *)
LEMMA RetireStep ==
    ASSUME IInv, Persist, NEW R \in SUBSET Subs, leases' = Freed(R),
           logged' = LoggedWithout(R), told' = ToldWithout(R),
           active' \subseteq Subs, UNCHANGED <<now, published, halfway>>
    PROVE  IInv' /\ DeadStay
<1>1. Shape /\ published \in Lists
  BY DEF IInv, Shape
<1>2. ASSUME NEW x \in Subjects PROVE Right(leases[x], x)'
  <2>1. \A t \in Subs : told'[t][x] = IF t \in R THEN Never ELSE told[t][x]
    BY <1>2 DEF ToldWithout
  <2>2. CASE leases[x].holder \in R
    <3>1. leases'[x] = [leases[x] EXCEPT !.holder = Nobody]
      BY <1>1, <2>2, FreedShape
    <3> QED BY <2>1, <2>2, <3>1, FreedRight
  <2>3. CASE leases[x].holder \notin R
    <3>1. leases'[x] = leases[x]
      BY <1>1, <2>3, FreedShape
    <3>2. x \notin halfway /\ leases[x].holder # Nobody => logged'[x] = logged[x]
      <4>1. Right(leases[x], x)
        BY DEF IInv
      <4> QED BY <2>3, <4>1 DEF Right, LoggedWithout
    <3> QED BY <2>1, <2>3, <3>1, <3>2, FreedRight
  <2> QED BY <2>2, <2>3
<1>3. IInv'
  BY <1>1, <1>2, FreedShape, Written
<1>4. DeadStay
  <2> SUFFICES ASSUME NEW x \in Subjects, leases[x].dead PROVE leases'[x].dead
    BY DEF DeadStay
  <2>1. leases'[x] = leases[x] \/ leases'[x] = [leases[x] EXCEPT !.holder = Nobody]
    BY <1>1, FreedShape
  <2>2. leases[x] \in Lease
    BY <1>1, Numbers
  <2> QED BY <2>1, <2>2 DEF Lease
<1> QED BY <1>3, <1>4

(* The sweep frees what is expired too. *)
LEMMA SweepStep ==
    ASSUME IInv, NEW R \in SUBSET active, Sweep(R)
    PROVE  IInv' /\ DeadStay
<1>1. Shape /\ published \in Lists /\ R \in SUBSET Subs /\ active \subseteq Subs
  BY DEF IInv, Shape
<1> DEFINE kept == Freed(R)
           over == {x \in Subjects : kept[x].holder # Nobody /\ kept[x].expires < now}
<1>2. /\ active' = active \ R /\ told' = ToldWithout(R)
      /\ leases' = [x \in Subjects |-> IF x \in over
                                       THEN [kept[x] EXCEPT !.holder = Nobody] ELSE kept[x]]
      /\ logged' = [x \in Subjects |-> IF x \in over THEN Unheld ELSE LoggedWithout(R)[x]]
      /\ UNCHANGED <<now, published, halfway>> /\ Persist
  BY DEF Sweep
<1>3. /\ kept \in Table
      /\ \A x \in Subjects : kept[x] = IF leases[x].holder \in R
                             THEN [leases[x] EXCEPT !.holder = Nobody] ELSE leases[x]
      /\ LoggedWithout(R) \in [Subjects -> [holder : Subs \cup {Nobody}, expires : Int]]
      /\ told' \in [Subs -> [Subjects -> Int]]
  BY <1>1, <1>2, FreedShape
<1>4. \A x \in over : /\ kept[x] = leases[x] /\ leases[x].holder \notin R /\ Expired(x)
                      /\ leases'[x] = [leases[x] EXCEPT !.holder = Nobody]
  <2> SUFFICES ASSUME NEW x \in over
               PROVE  kept[x] = leases[x] /\ leases[x].holder \notin R /\ Expired(x)
    BY <1>2
  <2>1. leases[x] \in Lease
    BY <1>1, Numbers
  <2>2. leases[x].holder \notin R
    BY <1>3, <2>1 DEF Lease
  <2> QED BY <1>3, <2>2 DEF Expired
<1> HIDE DEF kept, over
<1>5. ASSUME NEW x \in Subjects PROVE Right(leases[x], x)'
  <2>1. \A t \in Subs : told'[t][x] = IF t \in R THEN Never ELSE told[t][x]
    BY <1>2 DEF ToldWithout
  <2>2. CASE x \in over
    BY <1>1, <1>2, <1>4, <2>1, <2>2, FreedRight
  <2>3. CASE x \notin over /\ leases[x].holder \in R
    <3>1. leases'[x] = [leases[x] EXCEPT !.holder = Nobody]
      BY <1>2, <1>3, <2>3
    <3> QED BY <1>1, <1>2, <2>1, <2>3, <3>1, FreedRight
  <2>4. CASE x \notin over /\ leases[x].holder \notin R
    <3>1. leases'[x] = leases[x]
      BY <1>2, <1>3, <2>4
    <3>2. x \notin halfway /\ leases[x].holder # Nobody => logged'[x] = logged[x]
      <4>1. Right(leases[x], x)
        BY DEF IInv
      <4> QED BY <1>2, <2>4, <4>1 DEF Right, LoggedWithout
    <3> QED BY <1>1, <1>2, <2>1, <2>4, <3>1, <3>2, FreedRight
  <2> QED BY <2>2, <2>3, <2>4
<1>6. leases' \in Table
  BY <1>2, <1>3 DEF Table, Lease
<1>7. logged' \in [Subjects -> [holder : Subs \cup {Nobody}, expires : Int]]
  BY <1>2, <1>3 DEF Unheld, Never
<1>8. IInv'
  BY <1>1, <1>2, <1>3, <1>5, <1>6, <1>7, Written
<1>9. DeadStay
  <2> SUFFICES ASSUME NEW x \in Subjects, leases[x].dead PROVE leases'[x].dead
    BY DEF DeadStay
  <2>1. leases[x] \in Lease
    BY <1>1, Numbers
  <2>2. leases'[x] = leases[x] \/ leases'[x] = [leases[x] EXCEPT !.holder = Nobody]
    BY <1>2, <1>3, <1>4
  <2> QED BY <2>1, <2>2 DEF Lease
<1> QED BY <1>8, <1>9

-----------------------------------------------------------------------------
(* Steps that write nothing.                                                *)

(* A step that writes nothing keeps the invariant where it keeps each lease *)
(* in memory right, and does not make it differ from the one on disk.       *)
LEMMA UnwrittenStep ==
    ASSUME IInv, Shape', disk' = disk, UNCHANGED logged, now <= now', halfway \subseteq halfway',
           \A x \in Subjects : /\ Right(leases[x], x)' /\ Saved(x)'
                               /\ \/ \A s \in Subs : told'[s][x] = told[s][x]
                                  \/ Right(disk.leases[x], x)'
    PROVE  IInv'
<1>1. now' \in Int
  BY LeasesAssumption DEF Shape
<1>2. \A x \in Subjects : Right(disk.leases[x], x)'
  BY <1>1, Unmoved
<1> QED BY <1>2 DEF IInv

(* The clock. *)
LEMMA TickStep ==
    ASSUME IInv, Tick
    PROVE  IInv' /\ DeadStay
<1>1. /\ now' = now + 1 /\ now < MaxTime
      /\ UNCHANGED <<leases, active, published, disk, logged, told, halfway>>
  BY DEF Tick
<1>2. Shape' /\ now <= now' /\ now' \in Int
  BY <1>1, LeasesAssumption DEF IInv, Shape
<1>3. \A x \in Subjects : Right(leases[x], x)'
  BY <1>1, <1>2, Unmoved
<1>4. \A x \in Subjects : Saved(x)'
  BY <1>1 DEF IInv, Saved
<1>5. IInv'
  BY <1>1, <1>2, <1>3, <1>4, UnwrittenStep
<1> QED BY <1>1, <1>5 DEF DeadStay

(* A claim repeated is told what the lease, and its copy on disk, say. *)
LEMMA ClaimAgainStep ==
    ASSUME IInv, NEW s \in Subs, NEW x \in Subjects, ClaimAgain(s, x)
    PROVE  IInv' /\ DeadStay
<1>1. /\ HolderNow(x) = s /\ told' = [told EXCEPT ![s][x] = leases[x].expires]
      /\ UNCHANGED <<now, leases, active, published, disk, logged, halfway>>
  BY DEF ClaimAgain
<1>2. Shape /\ told \in [Subs -> [Subjects -> Int]] /\ leases[x] \in Lease /\ now \in Int
  BY Numbers DEF IInv, Shape
<1>3. told' \in [Subs -> [Subjects -> Int]]
  BY <1>1, <1>2 DEF Lease
<1>4. Shape' /\ now <= now' /\ now' \in Int
  BY <1>1, <1>2, <1>3 DEF Shape
<1>5. leases[x].holder = s /\ s # Nobody
  BY <1>1, <1>2, HolderBelieves, Numbers
<1>6. \A t \in Subs, y \in Subjects : told'[t][y] = told[t][y] \/ (t = s /\ y = x)
  BY <1>1, <1>2
<1>7. x \notin halfway => \A t \in Subs : told'[t][x] = told[t][x]
  <2> SUFFICES ASSUME x \notin halfway PROVE told'[s][x] = told[s][x]
    BY <1>6
  <2>1. told[s][x] = leases[x].expires
    BY <1>5 DEF IInv, Right
  <2> QED BY <1>1, <1>2, <2>1
<1>8. ASSUME NEW y \in Subjects PROVE Right(leases[y], y)' /\ Right(disk.leases[y], y)'
  <2>1. CASE \A t \in Subs : told'[t][y] = told[t][y]
    BY <1>1, <1>4, <2>1, Unmoved
  <2>2. CASE y = x /\ x \in halfway
    BY <1>1, <2>2 DEF IInv, Right
  <2> QED BY <1>6, <1>7, <2>1, <2>2
<1>9. \A y \in Subjects : Saved(y)'
  BY <1>1 DEF IInv, Saved
<1>10. IInv'
  BY <1>1, <1>4, <1>8, <1>9, UnwrittenStep
<1> QED BY <1>1, <1>10 DEF DeadStay

(* A request that is refused, and a claim that fails half way, touch the    *)
(* holder and the attempts of one lease in memory.                          *)
LEMMA TouchStep ==
    ASSUME IInv, NEW s \in Subs, NEW x \in Subjects, Refused(s, x) \/ ClaimThrows(s, x)
    PROVE  IInv' /\ DeadStay
<1>1. UNCHANGED <<now, active, published, disk, logged, told>>
  BY DEF Refused, ClaimThrows
<1>2. /\ Shape /\ leases \in Table /\ leases[x] \in Lease /\ now \in Int
      /\ Right(leases[x], x) /\ Saved(x) /\ halfway \subseteq Subjects
  BY Numbers DEF IInv, Shape
<1>3. PICK lease \in Lease :
         /\ leases' = [leases EXCEPT ![x] = lease]
         /\ lease.exists /\ lease.dead = leases[x].dead
         /\ lease.dead => lease.holder = Nobody
         /\ \/ Expired(x) /\ lease.holder = Nobody /\ halfway' = halfway
            \/ halfway' = halfway \cup {x}
  <2>1. CASE Refused(s, x)
    <3>1. PICK lease : lease = [leases[x] EXCEPT !.holder = Nobody]
      OBVIOUS
    <3>2. leases' = [leases EXCEPT ![x] = lease]
      BY <1>2, <2>1, <3>1 DEF Refused, Table
    <3>3. leases[x].exists
      BY <1>2, <2>1 DEF Refused, Expired, Right, NoLease
    <3>4. /\ lease \in Lease /\ lease.exists /\ lease.dead = leases[x].dead
          /\ lease.holder = Nobody
      BY <1>2, <3>1, <3>3 DEF Lease
    <3> QED BY <2>1, <3>2, <3>4 DEF Refused
  <2>2. CASE ClaimThrows(s, x)
    <3>1. PICK lease : lease = [leases[x] EXCEPT !.holder = s, !.attempts = @ + 1]
      OBVIOUS
    <3>2. leases' = [leases EXCEPT ![x] = lease]
      BY <1>2, <2>2, <3>1 DEF ClaimThrows, Table
    <3>3. leases[x].exists /\ ~leases[x].dead /\ leases[x].attempts < MaxAttempts
      BY <2>2 DEF ClaimThrows, MayClaim
    <3>4. /\ lease \in Lease /\ lease.exists /\ lease.dead = leases[x].dead /\ ~lease.dead
      <4>1. leases[x].attempts + 1 \in 0..MaxAttempts
        BY <1>2, <3>3, LeasesAssumption DEF Lease
      <4>2. lease = [leases[x] EXCEPT !.holder = s, !.attempts = leases[x].attempts + 1]
        BY <1>2, <3>1 DEF Lease
      <4> QED BY <1>2, <3>3, <4>1, <4>2 DEF Lease
    <3> QED BY <2>2, <3>2, <3>4 DEF ClaimThrows
  <2> QED BY <2>1, <2>2
<1>4. leases'[x] = lease /\ \A y \in Subjects \ {x} : leases'[y] = leases[y]
  BY <1>2, <1>3 DEF Table
<1>5. Shape' /\ now <= now' /\ now' \in Int /\ halfway \subseteq halfway'
  <2>1. leases' \in Table /\ halfway' \subseteq Subjects
    BY <1>2, <1>3 DEF Table
  <2> QED BY <1>1, <1>2, <1>3, <2>1 DEF Shape
<1>6. ASSUME NEW y \in Subjects PROVE Right(leases[y], y)' /\ Saved(y)'
  <2>1. CASE y # x
    <3>1. Right(leases[y], y)'
      BY <1>1, <1>4, <1>5, <2>1, Unmoved
    <3> QED BY <1>1, <1>4, <1>5, <2>1, <3>1 DEF IInv, Saved
  <2>2. CASE y = x
    <3>1. ASSUME x \notin halfway', NEW t \in Subs PROVE ~Believes(t, x)' /\ lease.holder # t
      <4>1. Expired(x) /\ lease.holder = Nobody /\ x \notin halfway
        BY <1>3, <3>1
      <4>2. Believes(t, x) => leases[x].holder = t /\ told[t][x] = leases[x].expires
        BY <1>2, <4>1 DEF Right
      <4>3. ~Believes(t, x)
        BY <1>2, <4>1, <4>2 DEF Believes, Expired, Lease
      <4> QED BY <1>1, <4>1, <4>3, LeasesAssumption DEF Believes
    <3>2. x \notin halfway' => lease.holder = Nobody
      BY <1>3
    <3> QED BY <1>1, <1>2, <1>3, <1>4, <2>2, <3>1, <3>2 DEF Right, Saved
  <2> QED BY <2>1, <2>2
<1>7. IInv'
  BY <1>1, <1>5, <1>6, UnwrittenStep
<1>8. DeadStay
  BY <1>3, <1>4 DEF DeadStay
<1> QED BY <1>7, <1>8

(* A restart takes the leases from disk, where they are right too. *)
LEMMA RestartStep ==
    ASSUME IInv, Restart
    PROVE  IInv' /\ DeadStay
<1>1. /\ leases' = disk.leases /\ active' = disk.active /\ published' = disk.published
      /\ UNCHANGED <<now, disk, logged, told, halfway>>
  BY DEF Restart
<1>2. Shape' /\ now <= now' /\ now' \in Int
  BY <1>1, LeasesAssumption DEF IInv, Shape
<1>3. \A x \in Subjects : Right(leases[x], x)'
  BY <1>1, <1>2, Unmoved
<1>4. \A x \in Subjects : Saved(x)'
  BY <1>1 DEF Saved
<1>5. IInv'
  BY <1>1, <1>2, <1>3, <1>4, UnwrittenStep
<1> QED BY <1>1, <1>5 DEF DeadStay, IInv, Saved

(* publish, and a subscription that comes back: no lease changes. *)
LEMMA OtherStep ==
    ASSUME IInv, \/ \E m \in Monitors, x \in Subjects : Publish(m, x)
                 \/ \E s \in Subs : Reactivate(s)
    PROVE  IInv' /\ DeadStay
<1>1. UNCHANGED <<now, leases, logged, told, halfway>> /\ Persist
  BY DEF Publish, Reactivate
<1>2. active' \subseteq Subs /\ published' \in Lists
  BY DEF Publish, Reactivate, IInv, Shape, Lists
<1>3. Shape /\ now' \in Int /\ now <= now'
  BY <1>1, Numbers DEF IInv
<1>4. \A x \in Subjects : Right(leases[x], x)'
  BY <1>1, <1>3, Unmoved
<1>5. IInv'
  BY <1>1, <1>2, <1>3, <1>4, Written DEF Shape
<1> QED BY <1>1, <1>5 DEF DeadStay

-----------------------------------------------------------------------------
(* The theorems.                                                            *)

(* Every step keeps the leases right, and the dead letters dead. *)
LEMMA NextIInv ==
    ASSUME IInv, [Next]_vars
    PROVE  IInv' /\ DeadStay
<1>1. ASSUME NEW s \in Subs, RetireSub(s) PROVE IInv' /\ DeadStay
  <2>1. active' \subseteq Subs /\ {s} \in SUBSET Subs
    BY <1>1 DEF RetireSub, IInv, Shape
  <2> QED BY <1>1, <2>1, RetireStep DEF RetireSub
<1>2. ASSUME NEW m \in Monitors, RetireMonitor(m) PROVE IInv' /\ DeadStay
  <2>1. active' \subseteq Subs /\ {s \in Subs : MonitorOf[s] = m} \in SUBSET Subs
    BY <1>2 DEF RetireMonitor, IInv, Shape
  <2> QED BY <1>2, <2>1, RetireStep DEF RetireMonitor
<1>3. CASE UNCHANGED vars
  <2>1. UNCHANGED <<now, leases, active, published, disk, logged, told, halfway>>
    BY <1>3 DEF vars
  <2>2. Shape' /\ now <= now' /\ now' \in Int
    BY <2>1, Numbers DEF IInv, Shape
  <2>3. \A x \in Subjects : Right(leases[x], x)' /\ Saved(x)'
    BY <2>1, <2>2, Unmoved DEF IInv, Saved
  <2>4. IInv'
    BY <2>1, <2>2, <2>3, UnwrittenStep
  <2> QED BY <2>1, <2>4 DEF DeadStay
<1> QED BY <1>1, <1>2, <1>3, ClaimStep, EndStep, SweepStep, TickStep, ClaimAgainStep,
           TouchStep, RestartStep, OtherStep
        DEF Next

(* The invariant of the leases. *)
LEMMA LeaseInvariant == Spec => []IInv
<1>1. ASSUME Init PROVE IInv
  <2>1. NoLease \in Lease /\ Unheld \in [holder : Subs \cup {Nobody}, expires : Int]
    BY LeasesAssumption DEF NoLease, Unheld, Lease, Never
  <2>2. Shape
    BY <1>1, <2>1, LeasesAssumption DEF Init, Shape, Table, Lists, Never
  <2>3. ASSUME NEW x \in Subjects
        PROVE  Right(leases[x], x) /\ Right(disk.leases[x], x) /\ Saved(x)
    <3>1. leases[x] = NoLease /\ disk.leases[x] = NoLease /\ NoLease.holder = Nobody
          /\ ~NoLease.dead
      BY <1>1 DEF Init, NoLease
    <3>2. ASSUME NEW s \in Subs PROVE ~Believes(s, x) /\ s # Nobody
      <4>1. told[s][x] = -1 /\ now = 0
        BY <1>1, <2>3, <3>2 DEF Init, Never
      <4> QED BY <4>1, LeasesAssumption DEF Believes
    <3> QED BY <3>1, <3>2 DEF Right, Saved
  <2> QED BY <2>2, <2>3 DEF IInv
<1>2. IInv /\ [Next]_vars => IInv'
  BY NextIInv
<1> QED BY <1>1, <1>2, PTL DEF Spec

(* Leases stay well formed. *)
THEOREM LeasesTypeCorrect == Spec => []TypeOK
<1>1. IInv => TypeOK
  BY DEF IInv, Shape, Table, Lists, Lease, Right, TypeOK
<1> QED BY <1>1, LeaseInvariant, PTL

(* No two subscriptions have reason to believe that they hold one subject,  *)
(* whatever expires, is renewed, retired, swept or restarted, unless a      *)
(* claim on it has failed half way (leaseAction, core.ts).                  *)
THEOREM OneWorkerCorrect == Spec => []OneWorker
<1>1. IInv => OneWorker
  <2> SUFFICES ASSUME IInv, NEW x \in Subjects \ halfway, NEW s \in Subs, NEW t \in Subs,
                      Believes(s, x), Believes(t, x)
               PROVE  s = t
    BY DEF OneWorker
  <2>1. Right(leases[x], x)
    BY DEF IInv
  <2> QED BY <2>1 DEF Right
<1> QED BY <1>1, LeaseInvariant, PTL

(* The log tells who holds a subject and until when (the log calls of       *)
(* leaseAction, sweep and subAction, core.ts).                              *)
THEOREM LogTellsCorrect == Spec => []LogTellsHolder
<1>1. IInv => LogTellsHolder
  <2> SUFFICES ASSUME IInv, NEW x \in Subjects \ halfway, HolderNow(x) # Nobody
               PROVE  logged[x] = [holder |-> leases[x].holder, expires |-> leases[x].expires]
    BY DEF LogTellsHolder
  <2>1. Right(leases[x], x) /\ leases[x].holder # Nobody
    BY DEF IInv, HolderNow, Expired
  <2> QED BY <2>1 DEF Right
<1> QED BY <1>1, LeaseInvariant, PTL

(* Who renews, completes, releases or rejects is in time (leaseAction).     *)
THEOREM InTimeCorrect == Spec => StaleNeverFinishes
<1>1. ASSUME IInv, NEW s \in Subs, NEW x \in Subjects \ halfway,
             \/ Complete(s, x)
             \/ \E dur \in Durations : Renew(s, x, dur)
             \/ \E rejected \in BOOLEAN : GiveBack(s, x, rejected)
      PROVE  Believes(s, x)
  <2>1. HolderNow(x) = s
    BY <1>1 DEF Complete, Renew, GiveBack, Holds
  <2> QED BY <1>1, <2>1, HolderBelieves
<1>2. IInv /\ [Next]_vars =>
        [\A s \in Subs, x \in Subjects \ halfway :
            \/ Complete(s, x)
            \/ \E dur \in Durations : Renew(s, x, dur)
            \/ \E rejected \in BOOLEAN : GiveBack(s, x, rejected)
            => Believes(s, x)]_vars
  BY <1>1
<1> QED BY <1>2, LeaseInvariant, PTL DEF Spec, StaleNeverFinishes

(* A dead letter stays dead and unheld, through restarts too (claim and     *)
(* reject in leaseAction, core.ts).                                         *)
THEOREM DeadCorrect == Spec => DeadStaysDead
<1>1. IInv /\ [Next]_vars =>
        [\A x \in Subjects : leases[x].dead =>
            leases'[x].dead /\ leases'[x].holder = Nobody]_vars
  <2> SUFFICES ASSUME IInv, [Next]_vars, NEW x \in Subjects, leases[x].dead
               PROVE  leases'[x].dead /\ leases'[x].holder = Nobody
    OBVIOUS
  <2>1. IInv' /\ leases'[x].dead
    BY NextIInv DEF DeadStay
  <2> QED BY <2>1 DEF IInv, Right
<1> QED BY <1>1, LeaseInvariant, PTL DEF Spec, DeadStaysDead
=============================================================================
