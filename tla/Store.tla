------------------------------- MODULE Store -------------------------------
(***************************************************************************)
(* The MemoryStore of src/src/store.ts: one log shared by every monitor,   *)
(* the per-monitor high-water marks, what compaction removed, the tables   *)
(* of monitors and subscriptions, and the snapshot the last persist() left *)
(* on disk.  The log is a set of rows, each carrying its own seq.          *)
(*                                                                         *)
(* A write of the snapshot is one step here; StateFile opens it up.        *)
(***************************************************************************)
EXTENDS Integers, FiniteSets

CONSTANTS
    Monitors,      \* monitor ids
    Kinds,         \* what a filter can tell apart: observations, protocol rows
    MaxSeq         \* bound on the log: no step assigns a larger seq

ASSUME MaxSeqAssumption == MaxSeq \in Nat \ {0}

VARIABLES
    seq,           \* seq of the last row appended
    rows,          \* the rows still in the log
    heads,         \* monitor -> highest seq it has emitted (0: none)
    floor,         \* retention floor (0: never compacted)
    dropped,       \* monitor -> highest seq compaction removed (-1: none)
    monitors,      \* monitor -> its row
    subs,          \* subscription -> its row
    disk,          \* the snapshot a restart loads
    history        \* every row ever appended; for the properties only

storeVars == <<seq, rows, heads, floor, dropped, monitors, subs, disk, history>>

Row == [seq : 1..MaxSeq, mon : Monitors, kind : Kinds]

(* The largest element of S. *)
HighWater(S) == CHOOSE x \in S : \A y \in S : y <= x

SeqsOf(m, R) == {r.seq : r \in {q \in R : q.mon = m}}

-----------------------------------------------------------------------------
(* What snapshot() writes: everything but the heads, which load() rebuilds. *)
Snapshot == [seq |-> seq, rows |-> rows, floor |-> floor, dropped |-> dropped,
             monitors |-> monitors, subs |-> subs]

Persist == disk' = Snapshot'

(* append(): the row takes the next seq and becomes its monitor's head.     *)
(* The bound on seq stands in the guard.                                    *)
Append(m, k) ==
    /\ seq < MaxSeq
    /\ LET row == [seq |-> seq + 1, mon |-> m, kind |-> k]
       IN  /\ rows' = rows \cup {row}
           /\ history' = history \cup {row}
    /\ seq' = seq + 1
    /\ heads' = [heads EXCEPT ![m] = seq + 1]
    /\ UNCHANGED <<floor, dropped>>

(* Nothing of the log moves. *)
LogUnchanged == UNCHANGED <<seq, rows, heads, floor, dropped, history>>

(* Mutant of DroppedAfter: only what this compaction removed.               *)
DroppedNow(m, gone) == HighWater({-1} \cup SeqsOf(m, gone))

(* The last row of m that compaction has removed, once `gone` is gone too. *)
DroppedAfter(m, gone) == HighWater({dropped[m]} \cup SeqsOf(m, gone))

(* compact(): drop every row up to u, remember per monitor the last one     *)
(* dropped, raise the floor.  u is not compared with seq.                   *)
CompactUpTo(u) ==
    LET gone == {r \in rows : r.seq <= u}
    IN  /\ rows' = rows \ gone
        /\ floor' = IF u + 1 > floor THEN u + 1 ELSE floor
        /\ dropped' = [m \in Monitors |-> DroppedAfter(m, gone)]
        /\ UNCHANGED <<seq, heads, monitors, subs, history>>
        /\ Persist

(* Mutant of LoadedHead: the rows alone.                                    *)
HeadOfRows(m) == HighWater({0} \cup SeqsOf(m, disk.rows))

(* The head of m comes from the rows that are left and from what was        *)
(* dropped; a monitor with neither has head 0.                              *)
LoadedHead(m) == HighWater({0, disk.dropped[m]} \cup SeqsOf(m, disk.rows))

(* load(): everything comes from the snapshot but the heads, rebuilt.       *)
Load ==
    /\ seq' = disk.seq
    /\ rows' = disk.rows
    /\ floor' = disk.floor
    /\ dropped' = disk.dropped
    /\ monitors' = disk.monitors
    /\ subs' = disk.subs
    /\ heads' = [m \in Monitors |-> LoadedHead(m)]
    /\ UNCHANGED <<disk, history>>

-----------------------------------------------------------------------------
(* retentionFloor() as a test: cursor n lies below it.  Before the first    *)
(* compaction the floor is the oldest row, if there is one.                 *)
BelowFloor(n) ==
    IF floor # 0 THEN n < floor ELSE rows # {} /\ \A r \in rows : n < r.seq

(* Mutant of LostSince: the cursor itself is left out.                      *)
LostAfter(m, n) == dropped[m] > n

(* lostSince(): compaction removed a row of m at or after cursor n. *)
LostSince(m, n) == dropped[m] >= n
=============================================================================
