------------------------------- MODULE Leases -------------------------------
(***************************************************************************)
(* Leases on subjects (leaseAction, sweep and releaseHolder in             *)
(* src/src/server/core.ts): exclusive, expiring work claimed through a     *)
(* subscription.  There is one lease per subject, whichever monitor's      *)
(* subscription claims it.                                                 *)
(*                                                                         *)
(* Every handler is one step: it appends at most one row per change, and   *)
(* an append writes the snapshot.  An expiry that a request merely notices *)
(* is neither logged nor written.                                          *)
(***************************************************************************)
EXTENDS Integers

CONSTANTS
    Subs,          \* subscriptions that may act
    Nobody,        \* the holder of a free lease
    Subjects,      \* subjects that can be claimed
    Monitors,      \* monitor ids
    MonitorOf,     \* subscription -> its monitor
    Durations,     \* lease durations asked for
    CountLimit,    \* delivery_count_limit (5 in the code)
    MaxAttempts,   \* bound on attempts
    MaxTime        \* bound on the clock

ASSUME LeasesAssumption ==
    /\ Nobody \notin Subs
    /\ MonitorOf \in [Subs -> Monitors]
    /\ Durations \subseteq Nat
    /\ CountLimit \in Nat /\ MaxAttempts \in Nat /\ MaxTime \in Nat

VARIABLES
    now,           \* the clock
    leases,        \* subject -> lease, or NoLease
    active,        \* subscriptions that are not retired
    published,     \* monitor -> subjects it has published
    disk,          \* what a restart loads
    logged,        \* subject -> holder and expiry a reader of the log finds
    told,          \* sub -> subject -> until when the sub was told it holds it
    halfway        \* subjects on which a claim has failed half way

vars == <<now, leases, active, published, disk, logged, told, halfway>>

Never == -1
NoLease == [exists |-> FALSE, holder |-> Nobody, expires |-> Never,
            attempts |-> 0, dead |-> FALSE]
Unheld == [holder |-> Nobody, expires |-> Never]

Persist == disk' = [leases |-> leases', active |-> active', published |-> published']

Expired(x) == leases[x].holder # Nobody /\ leases[x].expires < now

(* The holder once the request's own look at the clock has freed an expired *)
(* lease.                                                                   *)
HolderNow(x) == IF Expired(x) THEN Nobody ELSE leases[x].holder

(* What each subscription believes: it was told it holds x, its time is not *)
(* up, and no row has told it otherwise.  The rows of a retirement count as *)
(* telling: a worker that does not read its feed works on until its time is *)
(* up, while the subject may already be someone else's.                     *)
Believes(s, x) == told[s][x] >= now

ForgetTold(s, x) == [told EXCEPT ![s][x] = Never]

Init ==
    /\ now = 0
    /\ leases = [x \in Subjects |-> NoLease]
    /\ active = Subs
    /\ published = [m \in Monitors |-> {}]
    /\ disk = [leases |-> leases, active |-> active, published |-> published]
    /\ logged = [x \in Subjects |-> Unheld]
    /\ told = [s \in Subs |-> [x \in Subjects |-> Never]]
    /\ halfway = {}

Tick ==
    /\ now < MaxTime
    /\ now' = now + 1
    /\ UNCHANGED <<leases, active, published, disk, logged, told, halfway>>

(* append() notes the subject of an observation. *)
Publish(m, x) ==
    /\ published' = [published EXCEPT ![m] = @ \cup {x}]
    /\ UNCHANGED <<now, leases, active, logged, told, halfway>>
    /\ Persist

-----------------------------------------------------------------------------
MayClaim(s, x) ==
    /\ s \in active
    /\ x \in published[MonitorOf[s]]
    /\ ~leases[x].dead
    /\ HolderNow(x) \in {Nobody, s}

(* claim of a lease the subscription does not hold; a further claimant      *)
(* counts one more attempt.                                                 *)
Claim(s, x, dur) ==
    /\ MayClaim(s, x)
    /\ HolderNow(x) # s
    /\ leases[x].attempts < MaxAttempts
    /\ leases' = [leases EXCEPT ![x] =
           [exists |-> TRUE, holder |-> s, expires |-> now + dur,
            attempts |-> @.attempts + 1, dead |-> FALSE]]
    /\ logged' = [logged EXCEPT ![x] = [holder |-> s, expires |-> now + dur]]
    /\ told' = [told EXCEPT ![s][x] = now + dur]
    /\ UNCHANGED <<now, active, published, halfway>>
    /\ Persist

(* claim of a lease the subscription holds: the same answer again. *)
ClaimAgain(s, x) ==
    /\ MayClaim(s, x)
    /\ HolderNow(x) = s
    /\ told' = [told EXCEPT ![s][x] = leases[x].expires]
    /\ UNCHANGED <<now, leases, active, published, disk, logged, halfway>>

(* claim of a lease that exists, with a duration that is no number: the new *)
(* expiry cannot be computed, and the handler fails half way through its    *)
(* assignments, nothing logged or written.                                  *)
ClaimThrows(s, x) ==
    /\ MayClaim(s, x)
    /\ leases[x].exists
    /\ HolderNow(x) # s
    /\ leases[x].attempts < MaxAttempts
    /\ leases' = [leases EXCEPT ![x].holder = s, ![x].attempts = @ + 1]
    /\ halfway' = halfway \cup {x}
    /\ UNCHANGED <<now, active, published, disk, logged, told>>

(* A request on an expired lease that is then refused: the holder is gone   *)
(* from memory all the same.                                                *)
Refused(s, x) ==
    /\ s \in active
    /\ Expired(x)
    /\ leases' = [leases EXCEPT ![x].holder = Nobody]
    /\ UNCHANGED <<now, active, published, disk, logged, told, halfway>>

-----------------------------------------------------------------------------
(* Mutant of Renew: the longer lease is not logged, nor written. *)
RenewInMemory(s, x, dur) ==
    /\ s \in active
    /\ HolderNow(x) = s
    /\ leases' = [leases EXCEPT ![x].expires = now + dur]
    /\ told' = [told EXCEPT ![s][x] = now + dur]
    /\ UNCHANGED <<now, active, published, disk, logged, halfway>>

(* Mutant of Holds: the clock is not looked at. *)
HoldsUntimed(s, x) == s \in active /\ leases[x].holder = s

(* What renew, complete, release and reject ask first. *)
Holds(s, x) == s \in active /\ HolderNow(x) = s

Renew(s, x, dur) ==
    /\ Holds(s, x)
    /\ leases' = [leases EXCEPT ![x].expires = now + dur]
    /\ logged' = [logged EXCEPT ![x] = [holder |-> s, expires |-> now + dur]]
    /\ told' = [told EXCEPT ![s][x] = now + dur]
    /\ UNCHANGED <<now, active, published, halfway>>
    /\ Persist

(* Mutant of Complete: the attempts survive the record. *)
CompleteKeepingAttempts(s, x) ==
    /\ Holds(s, x)
    /\ leases' = [leases EXCEPT ![x] = [NoLease EXCEPT !.attempts = leases[x].attempts]]
    /\ logged' = [logged EXCEPT ![x] = Unheld]
    /\ told' = ForgetTold(s, x)
    /\ UNCHANGED <<now, active, published, halfway>>
    /\ Persist

(* complete: the record goes, attempts and all. *)
Complete(s, x) ==
    /\ Holds(s, x)
    /\ leases' = [leases EXCEPT ![x] = NoLease]
    /\ logged' = [logged EXCEPT ![x] = Unheld]
    /\ told' = ForgetTold(s, x)
    /\ UNCHANGED <<now, active, published, halfway>>
    /\ Persist

(* Mutant of GiveBack: the dead letter is marked after the row is written. *)
GiveBackMarkLate(s, x, rejected) ==
    /\ Holds(s, x)
    /\ LET dead == rejected /\ leases[x].attempts >= CountLimit
       IN  leases' = [leases EXCEPT ![x].holder = Nobody, ![x].dead = @ \/ dead]
    /\ logged' = [logged EXCEPT ![x] = Unheld]
    /\ told' = ForgetTold(s, x)
    /\ UNCHANGED <<now, active, published, halfway>>
    /\ disk' = [leases |-> [leases EXCEPT ![x].holder = Nobody],
                active |-> active, published |-> published]

(* release, and reject, which dead-letters the subject once its attempts    *)
(* have reached the limit.  The expiry stays as it was.                     *)
GiveBack(s, x, rejected) ==
    /\ Holds(s, x)
    /\ LET dead == rejected /\ leases[x].attempts >= CountLimit
       IN  leases' = [leases EXCEPT ![x].holder = Nobody, ![x].dead = @ \/ dead]
    /\ logged' = [logged EXCEPT ![x] = Unheld]
    /\ told' = ForgetTold(s, x)
    /\ UNCHANGED <<now, active, published, halfway>>
    /\ Persist

-----------------------------------------------------------------------------
(* Mutant of Freed: retirement leaves the leases alone. *)
Kept(R) == leases

(* releaseHolder for the subscriptions in R. *)
Freed(R) == [x \in Subjects |-> IF leases[x].holder \in R
                                THEN [leases[x] EXCEPT !.holder = Nobody] ELSE leases[x]]

(* What the log says once the rows of R's retirement are in it. *)
LoggedWithout(R) == [x \in Subjects |-> IF logged[x].holder \in R THEN Unheld ELSE logged[x]]

ToldWithout(R) == [s \in Subs |-> IF s \in R THEN [x \in Subjects |-> Never] ELSE told[s]]

(* subAction retire. *)
RetireSub(s) ==
    /\ s \in active
    /\ active' = active \ {s}
    /\ leases' = Freed({s})
    /\ logged' = LoggedWithout({s})
    /\ told' = ToldWithout({s})
    /\ UNCHANGED <<now, published, halfway>>
    /\ Persist

(* subscribe, for a retired subscription: active again, without its leases. *)
Reactivate(s) ==
    /\ s \notin active
    /\ active' = active \cup {s}
    /\ UNCHANGED <<now, leases, published, logged, told, halfway>>
    /\ Persist

(* monitorAction retire: its subscriptions stay active but hold nothing.    *)
RetireMonitor(m) ==
    LET R == {s \in Subs : MonitorOf[s] = m}
    IN  /\ leases' = Freed(R)
        /\ logged' = LoggedWithout(R)
        /\ told' = ToldWithout(R)
        /\ UNCHANGED <<now, active, published, halfway>>
        /\ Persist

(* sweep: the mute subscriptions R are retired, then every expired lease is *)
(* freed and logged.                                                        *)
Sweep(R) ==
    LET kept == Freed(R)
        over == {x \in Subjects : kept[x].holder # Nobody /\ kept[x].expires < now}
    IN  /\ R \cup over # {}
        /\ active' = active \ R
        /\ leases' = [x \in Subjects |-> IF x \in over
                                         THEN [kept[x] EXCEPT !.holder = Nobody] ELSE kept[x]]
        /\ logged' = [x \in Subjects |-> IF x \in over THEN Unheld ELSE LoggedWithout(R)[x]]
        /\ told' = ToldWithout(R)
        /\ UNCHANGED <<now, published, halfway>>
        /\ Persist

Restart ==
    /\ leases' = disk.leases
    /\ active' = disk.active
    /\ published' = disk.published
    /\ UNCHANGED <<now, disk, logged, told, halfway>>

Next ==
    \/ Tick
    \/ Restart
    \/ \E m \in Monitors : RetireMonitor(m) \/ \E x \in Subjects : Publish(m, x)
    \/ \E R \in SUBSET active : Sweep(R)
    \/ \E s \in Subs :
        \/ RetireSub(s)
        \/ Reactivate(s)
        \/ \E x \in Subjects :
            \/ \E dur \in Durations : Claim(s, x, dur) \/ Renew(s, x, dur)
            \/ ClaimAgain(s, x)
            \/ ClaimThrows(s, x)
            \/ Refused(s, x)
            \/ Complete(s, x)
            \/ \E rejected \in BOOLEAN : GiveBack(s, x, rejected)

Spec == Init /\ [][Next]_vars
-----------------------------------------------------------------------------
(* The state is what the code can hold. *)
TypeOK ==
    /\ now \in 0..MaxTime
    /\ \A x \in Subjects :
        /\ leases[x].holder \in Subs \cup {Nobody}
        /\ leases[x].attempts \in 0..MaxAttempts
        /\ leases[x].dead \in BOOLEAN
        /\ ~leases[x].exists => leases[x] = NoLease
    /\ active \subseteq Subs
    /\ published \in [Monitors -> SUBSET Subjects]
    /\ halfway \subseteq Subjects

(* One worker at a time: two subscriptions never both have reason to        *)
(* believe that they hold a subject, across expiry, renewal, retirement,    *)
(* sweeps and restarts, as long as no claim on it has failed half way       *)
(* (leaseAction, core.ts; C12).                                             *)
OneWorker ==
    \A x \in Subjects \ halfway, s, t \in Subs : Believes(s, x) /\ Believes(t, x) => s = t

(* Only a subscription whose time is not up renews, completes, releases or  *)
(* rejects, as long as no claim has failed half way (the lazy expiry of     *)
(* leaseAction; C13).                                                       *)
StaleNeverFinishes ==
    [][\A s \in Subs, x \in Subjects \ halfway :
          \/ Complete(s, x)
          \/ \E dur \in Durations : Renew(s, x, dur)
          \/ \E rejected \in BOOLEAN : GiveBack(s, x, rejected)
          => Believes(s, x)]_vars

(* A dead-lettered subject stays dead and unheld, after a restart too       *)
(* (claim and reject in leaseAction; spec/04-delivery.md, Attempt cap).     *)
DeadStaysDead ==
    [][\A x \in Subjects : leases[x].dead => leases'[x].dead /\ leases'[x].holder = Nobody]_vars

(* Whoever holds a lease, the log tells who and until when: the last claim  *)
(* or renew row of the subject that no later row takes back, as long as no  *)
(* claim on it has failed half way (the log calls of leaseAction, sweep and *)
(* subAction).                                                              *)
LogTellsHolder ==
    \A x \in Subjects \ halfway :
        HolderNow(x) # Nobody =>
            logged[x] = [holder |-> leases[x].holder, expires |-> leases[x].expires]
=============================================================================
