---------------------------- MODULE Subscription ----------------------------
(***************************************************************************)
(* One subscription of src/src/server/core.ts, as a single remote consumer *)
(* meets it: the shared log, the committed cursor, and what everybody else *)
(* may do to them meanwhile.  A read asks for one row and does not wait.   *)
(*                                                                         *)
(* Every handler here is one step that ends with the snapshot on disk; see *)
(* Feed and StateFile for what lies below that.                            *)
(***************************************************************************)
EXTENDS Integers, Sequences

CONSTANTS
    MaxSeq,        \* bound on the log
    ScanCap,       \* rows one read looks at (20000 in the code)
    Policies       \* reset policies the subscription may have

ASSUME SubscriptionAssumption ==
    /\ MaxSeq \in Nat /\ MaxSeq >= 2
    /\ ScanCap \in Nat \ {0}
    /\ Policies \subseteq {"none", "earliest", "latest"}

VARIABLES
    log,           \* every row ever appended; those below the floor are gone
    cursor,        \* the committed cursor
    floor,         \* retention floor (0: never compacted)
    active,        \* the subscription is neither retired nor re-keyed
    policy,        \* its reset policy
    passed,        \* rows below the cursor because somebody else moved it there
    moved          \* somebody else has moved the cursor

serverVars == <<log, cursor, floor, active, policy, passed, moved>>

(* A row the filters let through, another row of the same monitor, or a row *)
(* of another monitor on the same log.                                      *)
Kinds == {"matching", "own", "foreign"}

(* The monitor's own high-water mark: no row of it comes later.             *)
OwnRows == {i \in DOMAIN log : log[i] # "foreign"}
HighWater(S) == CHOOSE x \in S : \A y \in S : y <= x
OwnHead == HighWater({0} \cup OwnRows)

(* Compaction removed rows of this monitor at or after the stored cursor. *)
LostSince == \E i \in OwnRows : cursor <= i /\ i < floor

(* read(): the first ScanCap rows at or after c that compaction has left,   *)
(* whoever emitted them.                                                    *)
Scanned(c) ==
    LET start == IF c > floor THEN c ELSE floor
    IN  {i \in DOMAIN log : start <= i /\ i < start + ScanCap}

(* What a read from c finds among them, and a read from the stored cursor.  *)
From(c) == {i \in Scanned(c) : log[i] = "matching"}
Due == From(cursor)

(* Row i lies so far beyond c that a read from there finds nothing.         *)
OutOfReach(i, c) == From(c) = {} /\ c <= i

First(S) == CHOOSE i \in S : \A j \in S : i <= j

(* The cursor moves to n without the consumer having asked for it. *)
MovedAway(n) ==
    /\ cursor' = n
    /\ passed' = passed \cup cursor..(n - 1)
    /\ moved' = TRUE

-----------------------------------------------------------------------------
(* The monitor and the subscription are there: their `configured` and       *)
(* `subscribed` rows, the cursor as subscribe() left it, between them.      *)
StartsWith(rows) ==
    /\ log = rows
    /\ cursor = 2
    /\ floor = 0
    /\ active = TRUE
    /\ policy \in Policies
    /\ passed = {}
    /\ moved = FALSE

ServerInit == StartsWith(<<"own", "own">>)

Publish(k) ==
    /\ Len(log) < MaxSeq
    /\ log' = Append(log, k)
    /\ UNCHANGED <<cursor, floor, active, policy, passed, moved>>

(* compact(u), for u in the log. *)
Compact(u) ==
    /\ u >= floor
    /\ floor' = u + 1
    /\ UNCHANGED <<log, cursor, active, policy, passed, moved>>

(* ack by another holder of the reader's token. *)
OtherAck(n) ==
    /\ active
    /\ cursor < n /\ n <= OwnHead + 1
    /\ MovedAway(n)
    /\ UNCHANGED <<log, floor, active, policy>>

(* seek, in either direction, with its row. *)
Seek(n) ==
    /\ active
    /\ Len(log) < MaxSeq
    /\ n >= floor /\ n <= OwnHead + 1
    /\ MovedAway(n)
    /\ log' = Append(log, "own")
    /\ UNCHANGED <<floor, active, policy>>

(* The subscription is retired, or re-keyed: the consumer's token is no     *)
(* longer good.  Either way there is a row.                                 *)
Retire ==
    /\ active
    /\ Len(log) < MaxSeq
    /\ active' = FALSE
    /\ log' = Append(log, "own")
    /\ UNCHANGED <<cursor, floor, policy, passed, moved>>

Server ==
    \/ \E k \in Kinds : Publish(k)
    \/ \E u \in 1..Len(log) : Compact(u)
    \/ \E n \in 1..MaxSeq + 1 : OtherAck(n) \/ Seek(n)
    \/ Retire

-----------------------------------------------------------------------------
(* What a read answers.  Refused: the token is no good, or rows are lost    *)
(* and there is no policy.                                                  *)
Refused == ~active \/ (LostSince /\ policy = "none")

(* First half of a read that finds rows lost and has a policy: the log row  *)
(* and the move.  The read then goes on from the new cursor.                *)
ResetDue == active /\ LostSince /\ policy # "none"

Reset ==
    /\ ResetDue
    /\ Len(log) < MaxSeq
    /\ log' = Append(log, "own")
    /\ MovedAway(IF policy = "latest" THEN OwnHead + 1 ELSE floor)
    /\ UNCHANGED <<floor, active, policy>>

(* ack: whether n is taken, and the cursor it leaves.                       *)
AckTaken(n) == active /\ n >= cursor

AckTo(n) == cursor' = IF n <= OwnHead + 1 THEN n ELSE OwnHead + 1

ServerTypeOK ==
    /\ log \in Seq(Kinds) /\ Len(log) <= MaxSeq
    /\ cursor \in 1..Len(log) + 1
    /\ floor \in 0..Len(log) + 1
    /\ active \in BOOLEAN
    /\ policy \in Policies
    /\ passed \subseteq DOMAIN log
    /\ moved \in BOOLEAN
=============================================================================
