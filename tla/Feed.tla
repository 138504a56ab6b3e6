-------------------------------- MODULE Feed --------------------------------
(***************************************************************************)
(* The feed of src/src/server/core.ts over the store: monitors that append *)
(* rows, subscriptions with a committed cursor, pulls that wait for rows,  *)
(* acknowledgements, seeks, retirement, compaction and restarts.           *)
(*                                                                         *)
(* The server is one thread.  A handler runs to its end before the next    *)
(* request; only a pull gives the thread up, while it waits for an append. *)
(* An append wakes every waiting pull, and the woken ones read again       *)
(* before any other request is handled.  A handler that writes the         *)
(* snapshot more than once is split at the writes, so that a crash can     *)
(* fall between them, and keeps the thread (Busy) until it is done.        *)
(***************************************************************************)
EXTENDS Store

CONSTANTS
    Subs,          \* subscriptions, one per (monitor, subscriber)
    MonitorOf,     \* subscription -> the monitor it reads
    MonitorFilter, \* monitor -> the kinds its own filter lets through
    Filters,       \* the filters subscribers ask for, as sets of kinds
    Policies,      \* reset policies subscribers ask for
    Named,         \* cursors named in requests (from, seek, replay, compact)
    Actions,       \* what owners do to their monitors
    Calls,         \* pulls the server can have in progress at once
    Limit,         \* observations per reply
    ScanCap        \* rows one read looks at (20000 in the code)

ASSUME FeedAssumption ==
    /\ MonitorOf \in [Subs -> Monitors]
    /\ MonitorFilter \in [Monitors -> SUBSET Kinds]
    /\ Filters \subseteq SUBSET Kinds
    /\ Policies \subseteq {"none", "earliest", "latest"}
    /\ Named \subseteq 0..MaxSeq
    /\ Actions \subseteq {"pause", "resume", "retire", "update"}
    /\ {"obs", "proto"} \subseteq Kinds
    /\ Limit \in Nat \ {0}
    /\ ScanCap \in Nat \ {0}

VARIABLES
    calls,         \* pull in progress, or NoCall
    sweeping,      \* a sweep has subscriptions left to visit
    pages,         \* replies clients hold and may acknowledge
    accounted,     \* sub -> seqs its client received, was told of, or chose to skip
    handed,        \* sub -> seqs some pull from its cursor has returned
    reply          \* the reply the last step sent, or NoReply

vars == <<seq, rows, heads, floor, dropped, monitors, subs, disk, history,
          calls, sweeping, pages, accounted, handed, reply>>

Cursor == 0..(MaxSeq + 1)

NoMonitor == [exists |-> FALSE, active |-> FALSE, paused |-> FALSE]
NoSub == [exists |-> FALSE, active |-> FALSE, cursor |-> 0, deliveredMax |-> 0,
          policy |-> "none", filter |-> {}]
NoCall == [at |-> "free"]
NoReply == [sent |-> FALSE]

(* A pull in progress: where it is, whose it is, where it reads from, with  *)
(* which filter, whether it replays from an explicit cursor, and whether    *)
(* the token it came with is still the subscription's.                      *)
Call == [at : {"resetting", "reading", "waiting"}, sub : Subs, start : Cursor,
         filter : SUBSET Kinds, replay : BOOLEAN, live : BOOLEAN]

Reply == [sent : {TRUE}, sub : Subs, start : Cursor, next : Cursor,
          filter : SUBSET Kinds, seqs : SUBSET (1..MaxSeq), marked : SUBSET (1..MaxSeq)]

Busy == sweeping \/ \E c \in Calls : calls[c].at \in {"resetting", "reading"}

Live(s) == subs[s].exists /\ subs[s].active

Matches(r, m, f) == r.mon = m /\ r.kind \in MonitorFilter[m] /\ r.kind \in f

-----------------------------------------------------------------------------
Init ==
    /\ seq = 0 /\ rows = {} /\ floor = 0 /\ history = {}
    /\ heads = [m \in Monitors |-> 0]
    /\ dropped = [m \in Monitors |-> -1]
    /\ monitors = [m \in Monitors |-> NoMonitor]
    /\ subs = [s \in Subs |-> NoSub]
    /\ disk = Snapshot
    /\ calls = [c \in Calls |-> NoCall]
    /\ sweeping = FALSE
    /\ pages = {}
    /\ accounted = [s \in Subs |-> {}]
    /\ handed = [s \in Subs |-> {}]
    /\ reply = NoReply

(* The "append" event: every waiting pull will read again. *)
Woken == [c \in Calls |-> IF calls[c].at = "waiting" THEN [calls[c] EXCEPT !.at = "reading"]
                                                     ELSE calls[c]]

(* log() and append() as a handler sees them: a row, the wake-ups, and a    *)
(* snapshot of the tables as the handler has left them.                     *)
Log(m, k) == Append(m, k) /\ Persist

ClientsUnchanged == UNCHANGED <<pages, accounted, handed>>

-----------------------------------------------------------------------------
(* Monitors.                                                                *)

(* createMonitor: the table entry, then the `configured` row. *)
CreateMonitor(m) ==
    /\ ~Busy
    /\ ~monitors[m].exists
    /\ monitors' = [monitors EXCEPT ![m] = [exists |-> TRUE, active |-> TRUE, paused |-> FALSE]]
    /\ UNCHANGED <<subs, sweeping>>
    /\ Log(m, "proto")
    /\ calls' = Woken
    /\ reply' = NoReply
    /\ ClientsUnchanged

(* monitorAction: what each action does to the monitor's flags, then the    *)
(* `configured` row.  An update changes no flag.                            *)
Configured(mon, action) ==
    CASE action = "pause"  -> [mon EXCEPT !.paused = TRUE]
      [] action = "resume" -> [mon EXCEPT !.paused = FALSE, !.active = TRUE]
      [] action = "retire" -> [mon EXCEPT !.active = FALSE]
      [] action = "update" -> mon

MonitorAction(m, action) ==
    /\ ~Busy
    /\ monitors[m].exists
    /\ monitors' = [monitors EXCEPT ![m] = Configured(@, action)]
    /\ UNCHANGED <<subs, sweeping>>
    /\ Log(m, "proto")
    /\ calls' = Woken
    /\ reply' = NoReply
    /\ ClientsUnchanged

(* publish: an accepted observation, or the `rejected` row of one refused.  *)
(* A monitor that is paused or retired accepts none.                        *)
Publish(m, k) ==
    /\ ~Busy
    /\ monitors[m].exists
    /\ k = "obs" => monitors[m].active /\ ~monitors[m].paused
    /\ UNCHANGED <<monitors, subs, sweeping>>
    /\ Log(m, k)
    /\ calls' = Woken
    /\ reply' = NoReply
    /\ ClientsUnchanged

-----------------------------------------------------------------------------
(* Subscriptions.                                                           *)

(* The cursors subscribe() can leave: the head, or what was there before (0 *)
(* for a new subscription), or an integer no lower than that.               *)
SubscribeCursors(s) ==
    {heads[MonitorOf[s]] + 1, subs[s].cursor} \cup
        {n \in Named : n >= subs[s].cursor}

(* Mutant of Rekey: the old token stays good.                               *)
KeepToken(s) == calls' = Woken /\ UNCHANGED pages

(* A new token for s: pulls and replies under the old one are cut off from  *)
(* the client that now holds the new one.                                   *)
Rekey(s) ==
    /\ calls' = [c \in Calls |-> IF calls[c] # NoCall /\ calls[c].sub = s
                                 THEN [Woken[c] EXCEPT !.live = FALSE] ELSE Woken[c]]
    /\ pages' = {p \in pages : p.sub # s}

(* subscribe: an existing subscription is re-keyed and reactivated; only a  *)
(* new one sets deliveredMax.  Pulls and replies under the old token are    *)
(* cut off from the client that now holds the new one.                      *)
Subscribe(s, cursor, policy, f) ==
    /\ ~Busy
    /\ monitors[MonitorOf[s]].exists
    /\ cursor \in SubscribeCursors(s)
    /\ subs' = [subs EXCEPT ![s] =
           [exists |-> TRUE, active |-> TRUE, cursor |-> cursor,
            deliveredMax |-> IF @.exists THEN @.deliveredMax ELSE cursor,
            policy |-> policy, filter |-> f]]
    /\ accounted' = [accounted EXCEPT ![s] = @ \cup 0..(cursor - 1)]
    /\ UNCHANGED <<monitors, sweeping, handed>>
    /\ Log(MonitorOf[s], "proto")
    /\ Rekey(s)
    /\ reply' = NoReply

(* Mutant of Ack: not compared with the stored cursor.                      *)
AckAnyOrder(s, n) ==
    /\ ~Busy
    /\ Live(s)
    /\ n = subs[s].cursor \/ [sub |-> s, next |-> n] \in pages
    /\ LET top == heads[MonitorOf[s]] + 1
       IN  subs' = [subs EXCEPT ![s].cursor = IF n < top THEN n ELSE top]
    /\ UNCHANGED monitors
    /\ LogUnchanged
    /\ Persist
    /\ reply' = NoReply
    /\ UNCHANGED <<calls, sweeping>>
    /\ ClientsUnchanged

(* subAction ack: below the cursor is refused; above the head is clamped.   *)
(* A client acknowledges a reply it holds, or repeats the cursor the server *)
(* last reported to it.                                                     *)
Ack(s, n) ==
    /\ ~Busy
    /\ Live(s)
    /\ n = subs[s].cursor \/ [sub |-> s, next |-> n] \in pages
    /\ n >= subs[s].cursor
    /\ LET top == heads[MonitorOf[s]] + 1
       IN  subs' = [subs EXCEPT ![s].cursor = IF n < top THEN n ELSE top]
    /\ UNCHANGED monitors
    /\ LogUnchanged
    /\ Persist
    /\ reply' = NoReply
    /\ UNCHANGED <<calls, sweeping>>
    /\ ClientsUnchanged

(* Mutant of Seek: the row is logged, and the snapshot written, before the  *)
(* cursor moves.                                                            *)
SeekAfterLog(s, n) ==
    /\ ~Busy
    /\ Live(s)
    /\ ~BelowFloor(n)
    /\ LET top == heads[MonitorOf[s]] + 1
           to  == IF n < top THEN n ELSE top
       IN  /\ subs' = [subs EXCEPT ![s].cursor = to]
           /\ accounted' = [accounted EXCEPT ![s] = @ \cup 0..(to - 1)]
    /\ UNCHANGED <<monitors, sweeping, pages, handed>>
    /\ Append(MonitorOf[s], "proto")
    /\ disk' = [Snapshot' EXCEPT !.subs = subs]
    /\ calls' = Woken
    /\ reply' = NoReply

(* subAction seek: refused below the floor, clamped to the head, logged. *)
Seek(s, n) ==
    /\ ~Busy
    /\ Live(s)
    /\ ~BelowFloor(n)
    /\ LET top == heads[MonitorOf[s]] + 1
           to  == IF n < top THEN n ELSE top
       IN  /\ subs' = [subs EXCEPT ![s].cursor = to]
           /\ accounted' = [accounted EXCEPT ![s] = @ \cup 0..(to - 1)]
    /\ UNCHANGED <<monitors, sweeping, pages, handed>>
    /\ Log(MonitorOf[s], "proto")
    /\ calls' = Woken
    /\ reply' = NoReply

(* subAction retire: inactive, cursor kept, logged. *)
RetireSub(s) ==
    /\ ~Busy
    /\ Live(s)
    /\ subs' = [subs EXCEPT ![s].active = FALSE]
    /\ UNCHANGED <<monitors, sweeping>>
    /\ Log(MonitorOf[s], "proto")
    /\ calls' = Woken
    /\ reply' = NoReply
    /\ ClientsUnchanged

(* sweep: every subscription that has been mute too long is retired, each   *)
(* with its own row and its own write.  Any active one may have been mute;  *)
(* `more` says that the loop has not ended.                                 *)
Sweep(s, more) ==
    /\ sweeping \/ ~Busy
    /\ Live(s)
    /\ subs' = [subs EXCEPT ![s].active = FALSE]
    /\ sweeping' = more
    /\ UNCHANGED monitors
    /\ Log(MonitorOf[s], "proto")
    /\ calls' = Woken
    /\ reply' = NoReply
    /\ ClientsUnchanged

SweepEnds ==
    /\ sweeping
    /\ sweeping' = FALSE
    /\ reply' = NoReply
    /\ UNCHANGED <<storeVars, calls>>
    /\ ClientsUnchanged

-----------------------------------------------------------------------------
(* Pulls.                                                                   *)

(* pull with no cursor, nothing lost since the stored one: read from there. *)
PullStored(c, s) ==
    /\ ~Busy
    /\ Live(s)
    /\ calls[c] = NoCall
    /\ ~LostSince(MonitorOf[s], subs[s].cursor)
    /\ calls' = [calls EXCEPT ![c] =
           [at |-> "reading", sub |-> s, start |-> subs[s].cursor,
            filter |-> subs[s].filter, replay |-> FALSE, live |-> TRUE]]
    /\ reply' = NoReply
    /\ UNCHANGED <<storeVars, sweeping>>
    /\ ClientsUnchanged

(* pull from an explicit cursor, which may not lie below the floor. *)
PullReplay(c, s, n) ==
    /\ ~Busy
    /\ Live(s)
    /\ calls[c] = NoCall
    /\ ~BelowFloor(n)
    /\ calls' = [calls EXCEPT ![c] =
           [at |-> "reading", sub |-> s, start |-> n,
            filter |-> subs[s].filter, replay |-> TRUE, live |-> TRUE]]
    /\ reply' = NoReply
    /\ UNCHANGED <<storeVars, sweeping>>
    /\ ClientsUnchanged

(* pull with no cursor when compaction took rows at or after the stored     *)
(* one: without a reset policy it is refused and nothing changes; with one, *)
(* the target is fixed, the reset is logged and written ...                 *)
PullReset(c, s) ==
    /\ ~Busy
    /\ Live(s)
    /\ calls[c] = NoCall
    /\ LostSince(MonitorOf[s], subs[s].cursor)
    /\ subs[s].policy \in {"earliest", "latest"}
    /\ LET to == IF subs[s].policy = "latest" THEN heads[MonitorOf[s]] + 1 ELSE floor
       IN  calls' = [Woken EXCEPT ![c] =
              [at |-> "resetting", sub |-> s, start |-> to,
               filter |-> subs[s].filter, replay |-> FALSE, live |-> TRUE]]
    /\ UNCHANGED <<monitors, subs, sweeping>>
    /\ Log(MonitorOf[s], "proto")
    /\ reply' = NoReply
    /\ ClientsUnchanged

(* ... and then the cursor moves there, with a second write.                *)
MoveToReset(c) ==
    /\ calls[c].at = "resetting"
    /\ LET s == calls[c].sub
       IN  /\ subs' = [subs EXCEPT ![s].cursor = calls[c].start]
           /\ accounted' = [accounted EXCEPT ![s] = @ \cup 0..(calls[c].start - 1)]
    /\ calls' = [calls EXCEPT ![c].at = "reading"]
    /\ UNCHANGED monitors
    /\ LogUnchanged
    /\ Persist
    /\ reply' = NoReply
    /\ UNCHANGED <<sweeping, pages, handed>>

(* P holds the first n elements of R, or all of R when it has fewer. *)
IsFirst(P, R, n) ==
    /\ P \subseteq R
    /\ \A p \in P, r \in R : r.seq < p.seq => r \in P
    /\ Cardinality(P) <= n
    /\ P = R \/ Cardinality(P) = n

(* read(): from the first ScanCap rows at or after `start`, whoever emitted *)
(* them, the first Limit that both filters let through.                     *)
IsPage(P, call) ==
    \E W \in SUBSET rows :
        /\ IsFirst(W, {r \in rows : r.seq >= call.start}, ScanCap)
        /\ IsFirst(P, {r \in W : Matches(r, MonitorOf[call.sub], call.filter)}, Limit)

(* A read is due: the pull has just started, or an append or a timer has    *)
(* woken it.                                                                *)
ReadDue(c) ==
    /\ ~sweeping
    /\ \A d \in Calls : calls[d].at # "resetting"
    /\ calls[c].at = "reading"

(* The reply to call c, and whether it reaches the client.  A reply to a    *)
(* pull from the cursor is one the client may acknowledge, once it has      *)
(* handled what it carries, while it still holds the token.                 *)
Answer(c, next, seqs, marked) ==
    LET call == calls[c]
        s    == call.sub
    IN  /\ calls' = [calls EXCEPT ![c] = NoCall]
        /\ reply' = [sent |-> TRUE, sub |-> s, start |-> call.start, next |-> next,
                     filter |-> call.filter, seqs |-> seqs, marked |-> marked]
        /\ \/ /\ call.live /\ ~call.replay
              /\ pages' = pages \cup {[sub |-> s, next |-> next]}
              /\ accounted' = [accounted EXCEPT ![s] = @ \cup seqs]
           \/ UNCHANGED <<pages, accounted>>

(* Mutant of Deliver: deliveredMax is raised in memory only. *)
DeliverUnwritten(c) ==
    /\ ReadDue(c)
    /\ UNCHANGED <<monitors, sweeping, disk>>
    /\ LogUnchanged
    /\ \E P \in SUBSET rows :
        LET call == calls[c]
            s    == call.sub
            seqs == {r.seq : r \in P}
        IN  /\ P # {}
            /\ IsPage(P, call)
            /\ IF call.replay
               THEN UNCHANGED <<subs, handed>>
               ELSE /\ subs' = [subs EXCEPT ![s].deliveredMax = HighWater({@} \cup seqs)]
                    /\ handed' = [handed EXCEPT ![s] = @ \cup seqs]
            /\ Answer(c, HighWater(seqs) + 1, seqs,
                      {q \in seqs : q <= subs[s].deliveredMax})

(* The read finds observations.  Those up to deliveredMax are marked; a     *)
(* pull from the cursor raises deliveredMax and writes it before it answers.*)
Deliver(c) ==
    /\ ReadDue(c)
    /\ UNCHANGED <<monitors, sweeping>>
    /\ LogUnchanged
    /\ \E P \in SUBSET rows :
        LET call == calls[c]
            s    == call.sub
            seqs == {r.seq : r \in P}
        IN  /\ P # {}
            /\ IsPage(P, call)
            /\ IF call.replay
               THEN UNCHANGED <<subs, disk, handed>>
               ELSE /\ subs' = [subs EXCEPT ![s].deliveredMax = HighWater({@} \cup seqs)]
                    /\ handed' = [handed EXCEPT ![s] = @ \cup seqs]
                    /\ Persist
            /\ Answer(c, HighWater(seqs) + 1, seqs,
                      {q \in seqs : q <= subs[s].deliveredMax})

(* The read finds nothing and time is left: wait for an append. *)
Wait(c) ==
    /\ ReadDue(c)
    /\ IsPage({}, calls[c])
    /\ calls' = [calls EXCEPT ![c].at = "waiting"]
    /\ reply' = NoReply
    /\ UNCHANGED <<storeVars, sweeping>>
    /\ ClientsUnchanged

(* The timer of a waiting pull: it reads again. *)
Timer(c) ==
    /\ ~Busy
    /\ calls[c].at = "waiting"
    /\ calls' = [calls EXCEPT ![c].at = "reading"]
    /\ reply' = NoReply
    /\ UNCHANGED <<storeVars, sweeping>>
    /\ ClientsUnchanged

(* Mutant of AnswerEmpty: next is one too far. *)
AnswerEmptyPast(c) ==
    /\ ReadDue(c)
    /\ IsPage({}, calls[c])
    /\ Answer(c, heads[MonitorOf[calls[c].sub]] + 2, {}, {})
    /\ UNCHANGED <<storeVars, sweeping, handed>>

(* The read finds nothing and the deadline has passed: an empty reply whose *)
(* next is past the monitor's head.                                         *)
AnswerEmpty(c) ==
    /\ ReadDue(c)
    /\ IsPage({}, calls[c])
    /\ Answer(c, heads[MonitorOf[calls[c].sub]] + 1, {}, {})
    /\ UNCHANGED <<storeVars, sweeping, handed>>

-----------------------------------------------------------------------------
(* compact, and a crash with the restart that follows: memory, the pulls in *)
(* progress and the rest of a sweep are gone, the replies clients hold are  *)
(* not.                                                                     *)
Compact(u) ==
    /\ ~Busy
    /\ CompactUpTo(u)
    /\ reply' = NoReply
    /\ UNCHANGED <<calls, sweeping>>
    /\ ClientsUnchanged

Restart ==
    /\ Load
    /\ calls' = [c \in Calls |-> NoCall]
    /\ sweeping' = FALSE
    /\ reply' = NoReply
    /\ ClientsUnchanged

-----------------------------------------------------------------------------
MonitorNext ==
    \E m \in Monitors :
        \/ CreateMonitor(m)
        \/ \E a \in Actions : MonitorAction(m, a)
        \/ \E k \in {"obs", "proto"} : Publish(m, k)

SubNext ==
    \E s \in Subs :
        \/ \E n \in Cursor, p \in Policies, f \in Filters : Subscribe(s, n, p, f)
        \/ \E n \in Cursor : Ack(s, n)
        \/ \E n \in Named : Seek(s, n)
        \/ RetireSub(s)
        \/ \E more \in BOOLEAN : Sweep(s, more)

PullNext ==
    \E c \in Calls :
        \/ \E s \in Subs : \/ PullStored(c, s)
                            \/ PullReset(c, s)
                            \/ \E n \in Named : PullReplay(c, s, n)
        \/ MoveToReset(c)
        \/ Deliver(c)
        \/ Wait(c)
        \/ Timer(c)
        \/ AnswerEmpty(c)

Next ==
    \/ MonitorNext
    \/ SubNext
    \/ PullNext
    \/ SweepEnds
    \/ \E u \in Named : Compact(u)
    \/ Restart

Spec == Init /\ [][Next]_vars
-----------------------------------------------------------------------------
(* Type invariant.                                                          *)

SubRow == [exists : BOOLEAN, active : BOOLEAN, cursor : Cursor, deliveredMax : Cursor,
           policy : {"none", "earliest", "latest"}, filter : SUBSET Kinds]

MonitorRow == [exists : BOOLEAN, active : BOOLEAN, paused : BOOLEAN]

DiskRow == [seq : 0..MaxSeq, rows : SUBSET Row, floor : 0..(MaxSeq + 1),
            dropped : [Monitors -> (-1)..MaxSeq],
            monitors : [Monitors -> MonitorRow], subs : [Subs -> SubRow]]

(* Every variable holds what the code can put there: seqs and cursors stay  *)
(* within the log, rows are well formed, a call in progress is a whole one. *)
TypeOK ==
    /\ seq \in 0..MaxSeq
    /\ rows \subseteq Row
    /\ history \subseteq Row
    /\ heads \in [Monitors -> 0..MaxSeq]
    /\ floor \in 0..(MaxSeq + 1)
    /\ dropped \in [Monitors -> (-1)..MaxSeq]
    /\ monitors \in [Monitors -> MonitorRow]
    /\ subs \in [Subs -> SubRow]
    /\ disk \in DiskRow
    /\ calls \in [Calls -> Call \cup {NoCall}]
    /\ sweeping \in BOOLEAN
    /\ pages \subseteq [sub : Subs, next : Cursor]
    /\ accounted \in [Subs -> SUBSET (0..MaxSeq)]
    /\ handed \in [Subs -> SUBSET (1..MaxSeq)]
    /\ reply \in Reply \cup {NoReply}

-----------------------------------------------------------------------------
(* Safety.                                                                  *)

(* At least once: a row that a subscription's filter lets through and that  *)
(* lies below its committed cursor was received by its client, or the       *)
(* client was told it is gone (a reset), or chose to pass it over (a seek,  *)
(* a `from`).  Compaction, concurrent pulls, lost replies, late and         *)
(* repeated acknowledgements and restarts never lose one in between         *)
(* (pull and subAction in core.ts; spec/04-delivery.md, Guarantee).         *)
NoSilentLoss ==
    \A s \in Subs : subs[s].exists =>
        \A r \in history :
            Matches(r, MonitorOf[s], subs[s].filter) /\ r.seq < subs[s].cursor
                => r.seq \in accounted[s]

(* A reply is complete over the range it covers: every row ever appended    *)
(* from its start up to its `next` that both filters let through is in it,  *)
(* for a pull from the cursor and for a replay, however long it waited and  *)
(* whatever was compacted while it did (pull, core.ts).                     *)
Covers(rep) ==
    \A r \in history :
        /\ Matches(r, MonitorOf[rep.sub], rep.filter)
        /\ rep.start <= r.seq /\ r.seq < rep.next
        => r.seq \in rep.seqs

ReplyComplete == [][reply'.sent => Covers(reply')]_vars

(* The head of a monitor is the largest seq it ever emitted, after any      *)
(* compaction and any restart (P5; append, compact and load in store.ts).   *)
HeadIsRealHead ==
    \A m \in Monitors : heads[m] = HighWater({0} \cup SeqsOf(m, history))

(* Loss is known exactly: a cursor is reported as having lost rows when and *)
(* only when a row of its monitor at or after it is no longer in the log,   *)
(* whatever was compacted of other monitors and across restarts (lostSince  *)
(* and load in store.ts).                                                   *)
LossIsKnown ==
    \A m \in Monitors, n \in Cursor :
        LostSince(m, n) <=> \E r \in history \ rows : r.mon = m /\ r.seq >= n

(* An observation that a pull from the cursor has already returned is never *)
(* returned again unmarked, not after a restart either, as deliveredMax is  *)
(* written before the reply leaves (pull, core.ts).                         *)
RedeliveryIsMarked ==
    [][reply'.sent => reply'.seqs \cap handed[reply'.sub] \subseteq reply'.marked]_vars

(* A committed cursor moves back only in a step that logs it, or when an    *)
(* acknowledgement beyond the head is clamped to the head; never by a       *)
(* restart (subAction and pull in core.ts, persist in store.ts).            *)
CursorMovesBackLogged ==
    [][\A s \in Subs :
          subs'[s].cursor < subs[s].cursor =>
              \/ \E r \in history' \ history : r.mon = MonitorOf[s] /\ r.kind = "proto"
              \/ subs'[s].cursor = heads[MonitorOf[s]] + 1 /\ heads' = heads /\ disk' = Snapshot']_vars

(* Every step of the feed is a step of the queue it promises, or none at    *)
(* all: compaction, waiting, lost replies, retired subscriptions and        *)
(* restarts move no position and settle nothing, and what moves a position  *)
(* is an acknowledgement over rows received, a reset the client is told of, *)
(* or its own seek or subscribe (core.ts, store.ts; spec/04-delivery.md).   *)
Queue == INSTANCE DurableQueue WITH
    emitted  <- history,
    settled  <- accounted,
    position <- [s \in Subs |-> subs[s].cursor],
    wants    <- [s \in Subs |-> subs[s].filter]

ImplementsQueue == Queue!Spec

-----------------------------------------------------------------------------
(* The inductive invariant.                                                 *)

(* The log: rows are numbered 1..seq without repetition, what is missing    *)
(* from the log lies below the floor, and the marks kept beside it are      *)
(* right.                                                                   *)
LogInv ==
    /\ rows \subseteq history
    /\ \A r \in history : r.seq <= seq
    /\ \A r, q \in history : r.seq = q.seq => r = q
    /\ \A r \in history \ rows : r.seq < floor
    /\ \A m \in Monitors :
        /\ heads[m] \in {0} \cup SeqsOf(m, history)
        /\ \A n \in SeqsOf(m, history) : n <= heads[m]
        /\ dropped[m] \in {-1} \cup SeqsOf(m, history \ rows)
        /\ \A n \in SeqsOf(m, history \ rows) : n <= dropped[m]

(* Whatever is in memory when a handler is done is on disk. *)
DiskInv == disk = Snapshot

(* Below n there is nothing left to deliver to s: each seq is accounted for *)
(* or belongs to a row its filter does not let through.                     *)
Settled(s, n) ==
    \A k \in 0..(n - 1) :
        \/ k \in accounted[s]
        \/ /\ k <= seq
           /\ \A r \in history : r.seq = k => ~Matches(r, MonitorOf[s], subs[s].filter)

SubInv == \A s \in Subs : subs[s].exists => Settled(s, subs[s].cursor)

PageInv == \A p \in pages : subs[p.sub].exists /\ Settled(p.sub, p.next)

(* The rows a pull in progress is to find: those its filters let through,   *)
(* at or after its start.  A due read finds them all in the log, a waiting  *)
(* pull has none, so that compaction cannot take one away from it.          *)
Wanted(call) ==
    {r \in history : Matches(r, MonitorOf[call.sub], call.filter) /\ r.seq >= call.start}

CallOK(call) ==
    /\ call.at = "waiting" => Wanted(call) = {}
    /\ call.at # "waiting" => Wanted(call) \subseteq rows
    /\ call.live /\ ~call.replay =>
          /\ subs[call.sub].exists
          /\ call.filter = subs[call.sub].filter
          /\ call.at # "resetting" => Settled(call.sub, call.start)

CallInv == \A c \in Calls : calls[c] # NoCall => CallOK(calls[c])

IInv == LogInv /\ DiskInv /\ SubInv /\ PageInv /\ CallInv

-----------------------------------------------------------------------------
(* What the documents say and the code does not do.                         *)

(* Observations are never lost within retention (spec/04-delivery.md):      *)
(* NoSilentLoss for the rows that are still in the log.                     *)
NeverLostWithinRetention ==
    \A s \in Subs : subs[s].exists =>
        \A r \in rows :
            Matches(r, MonitorOf[s], subs[s].filter) /\ r.seq < subs[s].cursor
                => r.seq \in accounted[s]
=============================================================================
