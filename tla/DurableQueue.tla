---------------------------- MODULE DurableQueue ----------------------------
(***************************************************************************)
(* What the feed promises its subscribers, with nothing of how it keeps    *)
(* the promise: no pulls, no waiting, no compaction, no disk.  Rows are    *)
(* emitted in order.  A subscription has a position that outlives every    *)
(* crash; it moves up over rows its client has settled, and otherwise only *)
(* in the open, when the client is told or has asked for it.               *)
(*                                                                         *)
(* A row is settled for a subscription once its client has received it,    *)
(* has been told that it is gone, or has chosen to pass it over.           *)
(***************************************************************************)
EXTENDS Integers

CONSTANTS Monitors, Kinds, MaxSeq, Subs, MonitorOf, MonitorFilter

VARIABLES
    emitted,       \* every row so far
    settled,       \* subscription -> seqs its client has settled
    position,      \* subscription -> the first seq it may still be given
    wants          \* subscription -> the kinds it asks for

vars == <<emitted, settled, position, wants>>

Row == [seq : 1..MaxSeq, mon : Monitors, kind : Kinds]

Wanted(s) ==
    {r \in emitted : r.mon = MonitorOf[s] /\ r.kind \in MonitorFilter[MonitorOf[s]] \cap wants[s]}

(* n is the position past every row of the monitor of s. *)
PastTheEnd(s, n) ==
    /\ \A r \in emitted : r.mon = MonitorOf[s] => r.seq < n
    /\ n = 1 \/ \E r \in emitted : r.mon = MonitorOf[s] /\ r.seq = n - 1
-----------------------------------------------------------------------------
Init ==
    /\ emitted = {}
    /\ settled = [s \in Subs |-> {}]
    /\ position = [s \in Subs |-> 0]
    /\ wants = [s \in Subs |-> {}]

NewRow(r) == (\A q \in emitted : q.seq < r.seq) /\ emitted' = emitted \cup {r}

Emit(r) == NewRow(r) /\ UNCHANGED <<settled, position, wants>>

(* The client of s receives rows it asked for. *)
Receive(s, S) ==
    /\ S \subseteq {r.seq : r \in Wanted(s)}
    /\ settled' = [settled EXCEPT ![s] = @ \cup S]
    /\ UNCHANGED <<emitted, position, wants>>

(* The position moves to n over rows that are all settled.  It moves back   *)
(* only from beyond the end, to the end.                                    *)
Commit(s, n) ==
    /\ n >= position[s] \/ PastTheEnd(s, n)
    /\ \A r \in Wanted(s) : r.seq < n => r.seq \in settled[s]
    /\ position' = [position EXCEPT ![s] = n]
    /\ UNCHANGED <<emitted, settled, wants>>

(* Everything below n is settled at once. *)
PassOver(s, n) ==
    /\ position' = [position EXCEPT ![s] = n]
    /\ settled' = [settled EXCEPT ![s] = @ \cup 0..(n - 1)]

(* The client is told that it lost rows: the position only moves up. *)
Reset(s, n) == n >= position[s] /\ PassOver(s, n) /\ UNCHANGED <<emitted, wants>>

(* The client chooses its position, in either direction, on the record. *)
Seek(s, n, r) == r.mon = MonitorOf[s] /\ PassOver(s, n) /\ NewRow(r) /\ UNCHANGED wants

(* The client subscribes, for the first time or again, with other wants. *)
Subscribe(s, n, f, r) ==
    /\ n >= position[s] \/ PastTheEnd(s, n)
    /\ r.mon = MonitorOf[s]
    /\ PassOver(s, n)
    /\ NewRow(r)
    /\ wants' = [wants EXCEPT ![s] = f]

Next ==
    \/ \E r \in Row : Emit(r)
    \/ \E s \in Subs :
        \/ \E S \in SUBSET (1..MaxSeq) : Receive(s, S)
        \/ \E n \in 0..(MaxSeq + 1) :
            \/ Commit(s, n)
            \/ Reset(s, n)
            \/ \E r \in Row : Seek(s, n, r) \/ \E f \in SUBSET Kinds : Subscribe(s, n, f, r)

Spec == Init /\ [][Next]_vars
=============================================================================
