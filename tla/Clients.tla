------------------------------ MODULE Clients ------------------------------
(***************************************************************************)
(* The two readers that follow one subscription over HTTP:                 *)
(*                                                                         *)
(*  - the watch (src/src/watch.ts), a loop that prints what it pulls to a  *)
(*    session, and either acknowledges a batch once it is printed or reads *)
(*    on by itself and leaves the acknowledgement to the session;          *)
(*  - a stream (stream() of src/src/server/http.ts), which writes events   *)
(*    from an explicit cursor to a client that comes back with the last    *)
(*    event it received.                                                   *)
(*                                                                         *)
(* A request and its answer are one step, taken when the answer arrives    *)
(* (see Bridge).  A batch is printed in the step of the answer.  One reader*)
(* is followed at a time: what another one does to the subscription is     *)
(* among what Server does.                                                 *)
(***************************************************************************)
EXTENDS Subscription, FiniteSets

CONSTANTS
    Limit,         \* rows in one answer
    MaxLate        \* bound on the requests that are late at a time

ASSUME ClientsAssumption == Limit \in Nat /\ Limit >= 1 /\ MaxLate \in Nat

VARIABLES
    reader,        \* which of them this behaviour is about
    watch,         \* what the watch waits for, "off" when it does not run
    readFrom,      \* its own place, 0 for none
    asked,         \* the cursor in the request it waits for, 0 for none
    told,          \* the highest floor in a refusal it has printed, or 0
    seen,          \* rows printed to the session that runs now
    handled,       \* rows handled: by a session, or, with AcksPrinted, by printing
    late,          \* <<request, cursor>> on the network that nobody waits for
    stream,        \* "off", "probing" or "open"
    from,          \* where the stream's client began
    last,          \* the last event it received, from - 1 before the first
    place,         \* the stream's cursor
    wire           \* events written to the connection and not received yet

watchVars == <<reader, watch, readFrom, asked, told, seen, handled, late>>
streamVars == <<reader, stream, from, last, place, wire>>
vars == <<serverVars, watchVars, streamVars>>

(* A watch that leaves the acknowledgement to the session, one that         *)
(* acknowledges what it has printed, or a stream.                           *)
Readers == {"watch", "acking watch", "stream"}
AcksPrinted == reader = "acking watch"

(* The first n of a set of seqs. *)
FirstOf(S, n) == {i \in S : Cardinality({j \in S : j < i}) < n}

Matching == {i \in DOMAIN log : log[i] = "matching"}

(* What a pull from an explicit cursor is refused for. *)
RefusedAt(c) == ~active \/ (floor # 0 /\ c < floor)

-----------------------------------------------------------------------------
(* The filters let the subscription's own row through. *)
Init ==
    /\ StartsWith(<<"own", "matching">>)
    /\ reader \in Readers
    /\ watch = "off" /\ readFrom = 0 /\ asked = 0 /\ told = 0
    /\ seen = {} /\ handled = {} /\ late = {}
    /\ stream = "off" /\ from = 0 /\ last = 0 /\ place = 0 /\ wire = <<>>

-----------------------------------------------------------------------------
(* The watch.                                                               *)

(* monitor-protocol watch, with or without --catch-up. *)
Start ==
    /\ watch = "off"
    /\ watch' \in {"catching", "pulling"}
    /\ readFrom' = 0
    /\ UNCHANGED <<serverVars, asked, told, seen, handled, late, streamVars>>

(* Lines on stdout: with AcksPrinted that is all the session will ever do. *)
Show(rows) ==
    IF AcksPrinted THEN handled' = handled \cup rows /\ UNCHANGED seen
            ELSE seen' = seen \cup rows /\ UNCHANGED handled

(* `next` of a page that holds rows. *)
Following(rows) == HighWater(rows) + 1

(* NEXT: otherwise the watch reads on from there. *)
ReadOn(rows) ==
    readFrom' = IF AcksPrinted \/ rows = {} THEN readFrom ELSE Following(rows)

(* The loop goes on, and with c waits for the answer to another request. *)
Goto(w, c) == watch' = w /\ asked' = c

(* The pull finds rows lost and resets the cursor; the answer comes later. *)
PullResets ==
    /\ watch = "catching" \/ (watch = "pulling" /\ readFrom = 0)
    /\ Reset
    /\ UNCHANGED <<watchVars, streamVars>>

(* The backlog, printed and not acknowledged; a refusal is only printed.    *)
CatchUp ==
    /\ watch = "catching"
    /\ ~ResetDue
    /\ Goto("pulling", 0)
    /\ LET rows == IF Refused THEN {} ELSE Due
       IN  /\ seen' = IF AcksPrinted THEN seen ELSE seen \cup rows
           /\ ReadOn(rows)
    /\ UNCHANGED <<serverVars, told, handled, late, streamVars>>

(* The answer to the loop's pull: a page is printed, and acknowledged or    *)
(* read on from.                                                            *)
Page ==
    /\ watch = "pulling"
    /\ IF readFrom = 0 THEN ~Refused /\ ~ResetDue ELSE ~RefusedAt(readFrom)
    /\ LET rows == FirstOf(IF readFrom = 0 THEN Due ELSE From(readFrom), Limit)
       IN  /\ Show(rows)
           /\ ReadOn(rows)
           /\ IF AcksPrinted /\ rows # {} THEN Goto("acking", Following(rows)) ELSE Goto("pulling", 0)
    /\ UNCHANGED <<serverVars, told, late, streamVars>>

(* Mutant of Expired: the watch goes on at the head.                        *)
ExpiredToHead ==
    /\ watch = "pulling"
    /\ active
    /\ IF readFrom = 0 THEN LostSince /\ policy = "none" ELSE RefusedAt(readFrom)
    /\ told' = HighWater({told, floor})
    /\ Goto("seeking", OwnHead + 1)
    /\ UNCHANGED <<serverVars, readFrom, seen, handled, late, streamVars>>

(* 410: EXPIRED with the floor, STATE, and a seek to that floor.            *)
Expired ==
    /\ watch = "pulling"
    /\ active
    /\ IF readFrom = 0 THEN LostSince /\ policy = "none" ELSE RefusedAt(readFrom)
    /\ told' = HighWater({told, floor})
    /\ Goto("seeking", floor)
    /\ UNCHANGED <<serverVars, readFrom, seen, handled, late, streamVars>>

(* 404 ends the watch; a token that is no good does not. *)
Retired ==
    /\ watch = "pulling"
    /\ ~active
    /\ Goto("off", 0)
    /\ UNCHANGED <<serverVars, readFrom, told, seen, handled, late, streamVars>>

(* An acknowledgement at the server, and a seek.  A log that is full takes  *)
(* no row for it.                                                           *)
AckAt(n) ==
    /\ IF AckTaken(n) THEN AckTo(n) ELSE UNCHANGED cursor
    /\ UNCHANGED <<log, floor, active, policy, passed, moved>>

SeekAt(n) ==
    /\ IF active /\ n >= floor
       THEN /\ AckTo(n)
            /\ log' = IF Len(log) < MaxSeq THEN Append(log, "own") ELSE log
       ELSE UNCHANGED <<cursor, log>>
    /\ UNCHANGED <<floor, active, policy, passed, moved>>

(* Whatever is answered, the loop goes on. *)
AckAnswered ==
    /\ watch = "acking"
    /\ AckAt(asked)
    /\ Goto("pulling", 0)
    /\ UNCHANGED <<readFrom, told, seen, handled, late, streamVars>>

(* Mutant of SeekAnswered: the watch keeps its own place.                   *)
SeekKeepingPlace ==
    /\ watch = "seeking"
    /\ SeekAt(asked)
    /\ Goto("pulling", 0)
    /\ UNCHANGED <<readFrom, told, seen, handled, late, streamVars>>

SeekAnswered ==
    /\ watch = "seeking"
    /\ SeekAt(asked)
    /\ Goto("pulling", 0)
    /\ readFrom' = 0
    /\ UNCHANGED <<told, seen, handled, late, streamVars>>

(* A request the watch no longer waits for may still arrive, unless it is   *)
(* lost.                                                                    *)
LeaveLate ==
    IF asked # 0 /\ Cardinality(late) < MaxLate
    THEN late' = late \cup {<<watch, asked>>}
    ELSE UNCHANGED late

(* DOWN: no answer in time, none at all, or a 5xx.  The loop goes on.       *)
Unanswered ==
    /\ watch # "off"
    /\ LeaveLate
    /\ Goto("pulling", 0)
    /\ readFrom' = IF watch = "seeking" THEN 0 ELSE readFrom
    /\ UNCHANGED <<serverVars, told, seen, handled, streamVars>>

Late(r, n) ==
    /\ <<r, n>> \in late
    /\ IF r = "acking" THEN AckAt(n) ELSE SeekAt(n)
    /\ late' = late \ {<<r, n>>}
    /\ UNCHANGED <<watch, readFrom, asked, told, seen, handled, streamVars>>

(* The watch is killed, alone or with its session. *)
Kill ==
    /\ watch # "off"
    /\ LeaveLate
    /\ Goto("off", 0)
    /\ seen' \in {seen, {}}
    /\ UNCHANGED <<serverVars, readFrom, told, handled, streamVars>>

(* The session handles what was printed up to row i, and runs ack with the  *)
(* NEXT that followed.                                                      *)
SessionHandles(i) ==
    /\ i \in seen \ handled
    /\ handled' = handled \cup {j \in seen : j <= i}
    /\ IF Cardinality(late) < MaxLate
       THEN late' = late \cup {<<"acking", i + 1>>}
       ELSE UNCHANGED late
    /\ UNCHANGED <<serverVars, watch, readFrom, asked, told, seen, streamVars>>

-----------------------------------------------------------------------------
(* The stream and its client.                                               *)

(* The client connects.  What the last connection still held is lost.       *)
Connect ==
    /\ stream = "off"
    /\ stream' = "probing"
    /\ wire' = <<>>
    /\ UNCHANGED <<serverVars, watchVars, from, last, place>>

ProbeResets ==
    /\ stream = "probing"
    /\ Reset
    /\ UNCHANGED <<watchVars, streamVars>>

(* The probe answers: the stream goes on after Last-Event-ID, which a       *)
(* client that has received an event sends, or from c.                      *)
Open(c) ==
    /\ stream = "probing"
    /\ ~Refused /\ ~ResetDue
    /\ stream' = "open"
    /\ IF last >= from /\ from # 0
       THEN place' = last + 1 /\ UNCHANGED <<from, last>>
       ELSE place' = c /\ from' = c /\ last' = c - 1
    /\ UNCHANGED <<serverVars, watchVars, wire>>

(* Rows as they are written: each of them once, in order. *)
InOrder(events, rows) ==
    /\ {events[k] : k \in DOMAIN events} = rows
    /\ \A k, l \in DOMAIN events : k < l => events[k] < events[l]

(* Mutant of Write: no cursor is refused.                                   *)
WriteAnyway ==
    /\ stream = "open"
    /\ active
    /\ LET rows == FirstOf(From(place), Limit)
       IN  /\ rows # {}
           /\ \E events \in [1..Cardinality(rows) -> rows] :
                 InOrder(events, rows) /\ wire' = wire \o events
           /\ place' = Following(rows)
    /\ UNCHANGED <<serverVars, watchVars, stream, from, last>>

(* One turn of the loop that finds rows. *)
Write ==
    /\ stream = "open"
    /\ ~RefusedAt(place)
    /\ LET rows == FirstOf(From(place), Limit)
       IN  /\ rows # {}
           /\ \E events \in [1..Cardinality(rows) -> rows] :
                 InOrder(events, rows) /\ wire' = wire \o events
           /\ place' = Following(rows)
    /\ UNCHANGED <<serverVars, watchVars, stream, from, last>>

(* The probe is refused, or a turn of the loop (an `error` event), or the   *)
(* connection breaks.                                                       *)
Disconnect ==
    /\ stream # "off"
    /\ stream' = "off"
    /\ UNCHANGED <<serverVars, watchVars, from, last, place, wire>>

Receive ==
    /\ wire # <<>>
    /\ last' = Head(wire)
    /\ wire' = Tail(wire)
    /\ UNCHANGED <<serverVars, watchVars, stream, from, place>>

(* Another client, which has received nothing. *)
NewClient ==
    /\ stream = "off" /\ from # 0
    /\ from' = 0 /\ last' = 0 /\ place' = 0 /\ wire' = <<>>
    /\ UNCHANGED <<serverVars, watchVars, stream>>

-----------------------------------------------------------------------------
Answered == CatchUp \/ Page \/ Expired \/ Retired

Watch ==
    \/ Start \/ PullResets \/ Answered \/ AckAnswered \/ SeekAnswered \/ Unanswered \/ Kill
    \/ \E i \in seen : SessionHandles(i)
    \/ \E request \in late : Late(request[1], request[2])

Stream ==
    \/ Connect \/ ProbeResets \/ Write \/ Disconnect \/ Receive \/ NewClient
    \/ \E c \in {cursor} \cup 1..Len(log) : Open(c)

(* What happens at the server meanwhile, with one move of the cursor by     *)
(* somebody else at most (a bound).  Rows of the monitor that the filters   *)
(* hold back come from seeks, resets and retirements.                       *)
ServerMoves ==
    \/ \E k \in {"matching", "foreign"} : Publish(k)
    \/ \E u \in 1..Len(log) : Compact(u)
    \/ ~moved /\ \E n \in 1..MaxSeq + 1 : OtherAck(n) \/ Seek(n)
    \/ Retire

Next ==
    \/ ServerMoves /\ UNCHANGED <<watchVars, streamVars>>
    \/ reader # "stream" /\ Watch
    \/ reader = "stream" /\ Stream

Spec == Init /\ [][Next]_vars

(* A watch that runs goes on, since every request ends after a time.  A     *)
(* pull, an acknowledgement or a seek that is repeated for ever is answered *)
(* some day.                                                                *)
Fairness ==
    /\ WF_vars(Answered \/ AckAnswered \/ SeekAnswered \/ Unanswered)
    /\ SF_vars(Answered) /\ SF_vars(AckAnswered) /\ SF_vars(SeekAnswered)

FairSpec == Spec /\ Fairness

-----------------------------------------------------------------------------
(* A row that the filters let through lies below the committed cursor only  *)
(* if the session has handled it (or the watch, told to acknowledge what it *)
(* prints, has printed it), if somebody else moved the cursor past it, or   *)
(* if an EXPIRED line has named a floor beyond it.  Late acknowledgements   *)
(* and late seeks, of this watch or one before it, change nothing of that.  *)
NothingUnseen ==
    \A i \in Matching : i < cursor => i \in handled \/ i \in passed \/ i < told

(* What a stream's client receives, over every connection it makes: each    *)
(* row once, in order, none left out, even when rows are compacted between  *)
(* the connections or while one of them is behind.                          *)
StreamInOrder ==
    LET events == <<last>> \o wire
    IN  \A k \in DOMAIN wire : wire[k] = First({i \in Matching : i > events[k]})

(* Where the watch reads from. *)
ReadsFrom == IF readFrom = 0 THEN cursor ELSE readFrom

(* Every row the filters let through is printed some day, or compacted, as  *)
(* long as the watch runs and nobody else moves the cursor or takes the     *)
(* subscription away: the loop gets over every refusal, also when the floor *)
(* moves again before its seek arrives.  But for one thing: a watch that    *)
(* reads a whole scan without finding a row does not read on, and what lies *)
(* beyond it stays out of its reach.                                        *)
EventuallyPrinted ==
    \A i \in 3..MaxSeq :
        [](i \in Matching =>
           <>(\/ i \in seen \cup handled \/ i < floor \/ moved \/ ResetDue \/ ~active \/ watch = "off"
              \/ []OutOfReach(i, ReadsFrom)))
=============================================================================
