------------------------------- MODULE Bridge -------------------------------
(***************************************************************************)
(* The session bridge (src/src/session/bridge.ts, source.ts, cli.ts,       *)
(* codex.ts): a worker pulls one observation at a time from a subscription *)
(* into a private journal, announces it to a live session, waits for the   *)
(* session's receipt, and only then acknowledges it.                       *)
(*                                                                         *)
(* Workers and `bridge handled` commands are processes that share the      *)
(* journal directory; each is split where it awaits.  Between two awaits a *)
(* worker reads and writes the journal in one step: a kill in there leaves *)
(* what a kill just before or after it leaves.  A request and its answer   *)
(* are one step, taken when the answer arrives: until then the server's    *)
(* state may move on without the answer noticing, but nothing the worker   *)
(* does next reads that state.                                             *)
(***************************************************************************)
EXTENDS Subscription, FiniteSets

CONSTANTS
    Workers,       \* `bridge run` processes on one journal
    Handlers,      \* `bridge handled` processes, each with its own disposition
    Nobody         \* no worker, no disposition

ASSUME BridgeAssumption == Nobody \notin Workers \cup Handlers

VARIABLES
    delivery,      \* seqs in the journal
    queued,        \* those marked as announced
    receipt,       \* seq -> whose disposition is recorded, or Nobody
    acked,         \* those marked as acknowledged
    stopped,       \* stopped.json is there
    lock,          \* who created worker.lock, or Nobody
    live,          \* the bound session is alive
    at,            \* worker -> where it is
    item,          \* worker -> the delivery it is at, or 0
    hand,          \* handler -> the delivery it is at, or 0
    linking,       \* handlers that found no receipt and write one
    late,          \* acknowledgements on the network that nobody waits for
    inbox,         \* deliveries the session's queue has accepted
    told           \* <<seq, handler>>: told that its disposition is recorded

journalVars == <<delivery, queued, receipt, acked, stopped, lock>>
sessionVars == <<live, hand, linking, inbox, told>>
vars == <<serverVars, journalVars, sessionVars, at, item, late>>

Seqs == 1..MaxSeq

Places == {"down", "failed", "starting", "entering", "pulling", "confirming",
           "holding", "acking", "comparing", "announcing", "enqueueing", "asleep"}

Gone == {"down", "failed"}

Pending == delivery \ acked

Handled(i) == receipt[i] # Nobody

(* A page whose floor lies beyond its cursor is refused by the source.      *)
FloorPassed == floor > (IF cursor > 1 THEN cursor ELSE 1)

PageRefused == Refused \/ FloorPassed

-----------------------------------------------------------------------------
Init ==
    /\ ServerInit
    /\ delivery = {} /\ queued = {} /\ acked = {} /\ late = {} /\ inbox = {} /\ told = {}
    /\ receipt = [i \in Seqs |-> Nobody]
    /\ stopped = FALSE
    /\ lock = Nobody
    /\ live = TRUE
    /\ at = [w \in Workers |-> "down"]
    /\ item = [w \in Workers |-> 0]
    /\ hand = [h \in Handlers |-> 0]
    /\ linking = {}

JournalUnchanged == UNCHANGED journalVars
OthersUnchanged == UNCHANGED <<serverVars, sessionVars, late>>

Goto(w, place, i) ==
    /\ at' = [at EXCEPT ![w] = place]
    /\ item' = [item EXCEPT ![w] = i]

Sleep(w) == Goto(w, "asleep", 0)

(* A worker that ends by itself removes the lock. *)
GiveUp(w) ==
    /\ Goto(w, "failed", 0)
    /\ lock' = Nobody
    /\ UNCHANGED <<delivery, queued, receipt, acked, stopped>>

(* A step that found the bridge stopped, or the session dead: the worker    *)
(* stops the journal for good.                                              *)
EndStopped(w) ==
    /\ Goto(w, "down", 0)
    /\ lock' = Nobody
    /\ stopped' = TRUE
    /\ UNCHANGED <<delivery, queued, receipt, acked>>

-----------------------------------------------------------------------------
(* The worker.                                                              *)

(* Mutant of Start: the lock is taken whoever has it. *)
StartAnyway(w) ==
    /\ at[w] \in Gone
    /\ live /\ ~stopped
    /\ lock' = w
    /\ Goto(w, "starting", 0)
    /\ UNCHANGED <<delivery, queued, receipt, acked, stopped>>
    /\ OthersUnchanged

(* bridge run, from within the bound session.                               *)
Start(w) ==
    /\ at[w] \in Gone
    /\ live /\ ~stopped
    /\ lock = Nobody
    /\ lock' = w
    /\ Goto(w, "starting", 0)
    /\ UNCHANGED <<delivery, queued, receipt, acked, stopped>>
    /\ OthersUnchanged

(* startWorker() could not find out its own process: `ps` did not answer.   *)
StartFails(w) ==
    /\ at[w] = "starting"
    /\ GiveUp(w)
    /\ OthersUnchanged

(* Mutant of IfActive: only the session is looked at. *)
IfLive(w, place, i) == Goto(w, place, i) /\ JournalUnchanged

(* active(): the stop mark is read, and then the session looked at, which   *)
(* takes a while: the worker goes on to `place` and waits there.            *)
IfActive(w, place, i) ==
    \/ stopped /\ EndStopped(w)
    \/ ~stopped /\ Goto(w, place, i) /\ JournalUnchanged

(* The loop, from its start or after a sleep: step() begins.                *)
Loop(w) ==
    /\ at[w] \in {"starting", "asleep"}
    /\ IfActive(w, "entering", 0)
    /\ OthersUnchanged

(* The look found no live session: it is dead, or `ps` did not answer in    *)
(* time, which is taken for the same.                                       *)
LookFails(w) ==
    /\ at[w] \in {"entering", "confirming", "announcing"}
    /\ EndStopped(w)
    /\ OthersUnchanged

(* pending(): what is in the journal and not acknowledged comes first; more *)
(* than one such delivery is an error.                                      *)
Enter(w) ==
    /\ at[w] = "entering"
    /\ live
    /\ IF Cardinality(Pending) > 1
       THEN GiveUp(w)
       ELSE /\ \/ Pending = {} /\ Goto(w, "pulling", 0)
               \/ \E i \in Pending : Goto(w, "holding", i)
            /\ JournalUnchanged
    /\ OthersUnchanged

(* The first half of a read that resets the cursor. *)
PullResets(w) ==
    /\ at[w] \in {"pulling", "comparing"}
    /\ Reset
    /\ JournalUnchanged
    /\ UNCHANGED <<sessionVars, at, item, late>>

(* Mutant of Pull: the row is not written down before it is announced.      *)
PullUnwritten(w) ==
    /\ at[w] = "pulling"
    /\ ~ResetDue
    /\ \/ PageRefused /\ GiveUp(w)
       \/ ~PageRefused /\ Due = {} /\ Sleep(w) /\ JournalUnchanged
       \/ ~PageRefused /\ Due # {} /\ Goto(w, "holding", First(Due)) /\ JournalUnchanged
    /\ OthersUnchanged

(* pull() with nothing pending, and add(): the row goes into the journal,   *)
(* unless it is there and acknowledged already.                             *)
Pull(w) ==
    /\ at[w] = "pulling"
    /\ ~ResetDue
    /\ \/ PageRefused /\ GiveUp(w)
       \/ ~PageRefused /\ Due = {} /\ Sleep(w) /\ JournalUnchanged
       \/ ~PageRefused /\ Due # {} /\ First(Due) \in acked /\ GiveUp(w)
       \/ /\ ~PageRefused /\ Due # {} /\ First(Due) \notin acked
          /\ delivery' = delivery \cup {First(Due)}
          /\ Goto(w, "holding", First(Due))
          /\ UNCHANGED <<queued, receipt, acked, stopped, lock>>
    /\ OthersUnchanged

(* Mutant of Take: what is announced counts as handled.                     *)
TakeQueued(w) ==
    /\ at[w] = "holding"
    /\ \/ item[w] \in queued /\ IfActive(w, "confirming", item[w])
       \/ item[w] \notin queued /\ Goto(w, "comparing", item[w]) /\ JournalUnchanged
    /\ OthersUnchanged

(* With the delivery in hand: acknowledge it if it is handled, otherwise    *)
(* compare it with what the subscription now returns.                       *)
Take(w) ==
    /\ at[w] = "holding"
    /\ \/ Handled(item[w]) /\ IfActive(w, "confirming", item[w])
       \/ ~Handled(item[w]) /\ Goto(w, "comparing", item[w]) /\ JournalUnchanged
    /\ OthersUnchanged

Confirm(w) ==
    /\ at[w] = "confirming"
    /\ live
    /\ Goto(w, "acking", item[w])
    /\ JournalUnchanged
    /\ OthersUnchanged

(* Mutant of Acknowledge: an acknowledgement of the committed cursor counts *)
(* as one that moves backwards.                                             *)
AcknowledgeOnce(w) ==
    /\ at[w] = "acking"
    /\ LET n == item[w] + 1
       IN  \/ /\ AckTaken(n) /\ n # cursor
              /\ AckTo(n)
              /\ acked' = acked \cup {item[w]}
              /\ Sleep(w)
              /\ UNCHANGED <<delivery, queued, receipt, stopped, lock>>
           \/ (~AckTaken(n) \/ n = cursor) /\ GiveUp(w) /\ UNCHANGED cursor
    /\ UNCHANGED <<log, floor, active, policy, passed, moved, sessionVars, late>>

(* acknowledge() answered, and markAcknowledged().  The answer names the     *)
(* cursor asked for, since n is at most head + 1 (AckStep, BridgeProofs).    *)
Acknowledge(w) ==
    /\ at[w] = "acking"
    /\ LET n == item[w] + 1
       IN  \/ /\ AckTaken(n)
              /\ AckTo(n)
              /\ acked' = acked \cup {item[w]}
              /\ Sleep(w)
              /\ UNCHANGED <<delivery, queued, receipt, stopped, lock>>
           \/ ~AckTaken(n) /\ GiveUp(w) /\ UNCHANGED cursor
    /\ UNCHANGED <<log, floor, active, policy, passed, moved, sessionVars, late>>

(* The pull of a delivery that waits: it must return the same row, at the   *)
(* same place.  Then the delivery is announced, once.                       *)
Compare(w) ==
    /\ at[w] = "comparing"
    /\ ~ResetDue
    /\ LET same == ~PageRefused /\ Due # {} /\ First(Due) = item[w]
       IN  \/ ~same /\ GiveUp(w)
           \/ same /\ item[w] \in queued /\ Sleep(w) /\ JournalUnchanged
           \/ same /\ item[w] \notin queued /\ IfActive(w, "announcing", item[w])
    /\ OthersUnchanged

Announce(w) ==
    /\ at[w] = "announcing"
    /\ live
    /\ Goto(w, "enqueueing", item[w])
    /\ JournalUnchanged
    /\ OthersUnchanged

(* enqueue() succeeded, and markQueued().                                   *)
Enqueue(w) ==
    /\ at[w] = "enqueueing"
    /\ live
    /\ inbox' = inbox \cup {item[w]}
    /\ queued' = queued \cup {item[w]}
    /\ Sleep(w)
    /\ UNCHANGED <<serverVars, delivery, receipt, acked, stopped, lock, live, hand, linking, told, late>>

(* The queue may or may not have accepted a delivery whose enqueueing       *)
(* failed, or whose worker was killed.                                      *)
MaybeAccepted(w) ==
    inbox' = inbox \/ (live /\ inbox' = inbox \cup {item[w]})

(* Mutant of EnqueueFails: a failure counts as acceptance.                  *)
EnqueueFailsMarked(w) ==
    /\ at[w] = "enqueueing"
    /\ MaybeAccepted(w)
    /\ queued' = queued \cup {item[w]}
    /\ Sleep(w)
    /\ UNCHANGED <<serverVars, delivery, receipt, acked, stopped, lock, live, hand, linking, told, late>>

(* enqueue() failed.  It looks at the session before and after; where that  *)
(* finds none, the worker gives up, and otherwise the enqueue is retried.   *)
EnqueueFails(w) ==
    /\ at[w] = "enqueueing"
    /\ MaybeAccepted(w)
    /\ \/ live /\ Sleep(w) /\ JournalUnchanged
       \/ GiveUp(w)
    /\ UNCHANGED <<serverVars, live, hand, linking, told, late>>

(* An acknowledgement the worker no longer waits for may still arrive. *)
LeaveLate(w) ==
    late' = IF at[w] = "acking" THEN late \cup {item[w] + 1} ELSE late

(* Mutant of Unanswered: an acknowledgement that was sent counts as done.   *)
UnansweredMarked(w) ==
    /\ at[w] \in {"pulling", "comparing", "acking"}
    /\ LeaveLate(w)
    /\ acked' = IF at[w] = "acking" THEN acked \cup {item[w]} ELSE acked
    /\ Sleep(w)
    /\ UNCHANGED <<delivery, queued, receipt, stopped, lock, serverVars, sessionVars>>

(* No answer within five seconds, an interrupted one, or a 5xx: retried. *)
Unanswered(w) ==
    /\ at[w] \in {"pulling", "comparing", "acking"}
    /\ LeaveLate(w)
    /\ Sleep(w)
    /\ JournalUnchanged
    /\ UNCHANGED <<serverVars, sessionVars>>

(* A kill leaves the lock. *)
Kill(w) ==
    /\ at[w] \notin Gone
    /\ LeaveLate(w)
    /\ IF at[w] = "enqueueing" THEN MaybeAccepted(w) ELSE UNCHANGED inbox
    /\ Goto(w, "down", 0)
    /\ JournalUnchanged
    /\ UNCHANGED <<serverVars, live, hand, linking, told>>

-----------------------------------------------------------------------------
(* Everybody else.                                                          *)

(* A late acknowledgement reaches the server. *)
LateAck(n) ==
    /\ n \in late
    /\ late' = late \ {n}
    /\ IF AckTaken(n) THEN AckTo(n) ELSE UNCHANGED cursor
    /\ JournalUnchanged
    /\ UNCHANGED <<log, floor, active, policy, passed, moved, sessionVars, at, item>>

(* A person removes the lock of a worker that has been seen to be gone. *)
RemoveLock ==
    /\ lock # Nobody /\ at[lock] \in Gone
    /\ lock' = Nobody
    /\ UNCHANGED <<delivery, queued, receipt, acked, stopped>>
    /\ UNCHANGED <<at, item>> /\ OthersUnchanged

(* bridge stop, or a signal to the worker. *)
Stop ==
    /\ stopped' = TRUE
    /\ UNCHANGED <<delivery, queued, receipt, acked, lock>>
    /\ UNCHANGED <<at, item>> /\ OthersUnchanged

SessionDies ==
    /\ live' = FALSE
    /\ JournalUnchanged
    /\ UNCHANGED <<serverVars, hand, linking, inbox, told, at, item, late>>

(* bridge handled, from the bound session: the stop mark is read ...        *)
HandleBegins(h, i) ==
    /\ hand[h] = 0
    /\ live /\ ~stopped
    /\ i \in delivery
    /\ hand' = [hand EXCEPT ![h] = i]
    /\ JournalUnchanged
    /\ UNCHANGED <<serverVars, live, linking, inbox, told, at, item, late>>

(* What a command reports, given the receipts it finds at its end: success  *)
(* if the disposition recorded for i is its own.                            *)
Report(h, i, receipts) ==
    told' = IF receipts[i] = h THEN told \cup {<<i, h>>} ELSE told

(* ... then the session is looked at, and the receipt; one that is there    *)
(* decides ...                                                              *)
HandleLooks(h) ==
    /\ hand[h] # 0 /\ h \notin linking
    /\ live
    /\ \/ /\ ~Handled(hand[h])
          /\ linking' = linking \cup {h}
          /\ UNCHANGED <<hand, told>>
       \/ /\ Handled(hand[h])
          /\ Report(h, hand[h], receipt)
          /\ hand' = [hand EXCEPT ![h] = 0]
          /\ UNCHANGED linking
    /\ JournalUnchanged
    /\ UNCHANGED <<serverVars, live, inbox, at, item, late>>

(* ... or the command is refused, because the look found no live session ... *)
HandleRefused(h) ==
    /\ hand[h] # 0 /\ h \notin linking
    /\ hand' = [hand EXCEPT ![h] = 0]
    /\ JournalUnchanged
    /\ UNCHANGED <<serverVars, live, linking, inbox, told, at, item, late>>

(* Mutant of HandleLinks: a receipt written meanwhile is replaced.          *)
HandleReplaces(h) ==
    /\ h \in linking
    /\ receipt' = [receipt EXCEPT ![hand[h]] = h]
    /\ Report(h, hand[h], receipt')
    /\ linking' = linking \ {h}
    /\ hand' = [hand EXCEPT ![h] = 0]
    /\ UNCHANGED <<serverVars, delivery, queued, acked, stopped, lock, live, inbox, at, item, late>>

(* ... and otherwise it is linked into place, which leaves one that another *)
(* command has linked meanwhile; and read again.                            *)
HandleLinks(h) ==
    /\ h \in linking
    /\ receipt' = IF Handled(hand[h]) THEN receipt ELSE [receipt EXCEPT ![hand[h]] = h]
    /\ Report(h, hand[h], receipt')
    /\ linking' = linking \ {h}
    /\ hand' = [hand EXCEPT ![h] = 0]
    /\ UNCHANGED <<serverVars, delivery, queued, acked, stopped, lock, live, inbox, at, item, late>>

-----------------------------------------------------------------------------
ServerMoves ==
    /\ Server
    /\ JournalUnchanged
    /\ UNCHANGED <<sessionVars, at, item, late>>

Answered(w) == Pull(w) \/ Acknowledge(w) \/ Compare(w)

(* What a worker does while it runs. *)
Runs(w) ==
    \/ StartFails(w) \/ Loop(w) \/ LookFails(w) \/ Enter(w) \/ Take(w) \/ Confirm(w) \/ Announce(w)
    \/ PullResets(w) \/ Answered(w) \/ Unanswered(w) \/ Enqueue(w) \/ EnqueueFails(w)

WorkerMoves(w) == Start(w) \/ Runs(w) \/ Kill(w)

HandlerMoves(h) ==
    \/ \E i \in Seqs : HandleBegins(h, i)
    \/ HandleLooks(h) \/ HandleRefused(h) \/ HandleLinks(h)

Next ==
    \/ ServerMoves
    \/ \E w \in Workers : WorkerMoves(w)
    \/ \E h \in Handlers : HandlerMoves(h)
    \/ \E n \in 1..MaxSeq + 1 : LateAck(n)
    \/ RemoveLock \/ Stop \/ SessionDies

(* What is fair.  A process that runs goes on, since every request and       *)
(* every call of the host's queue ends after five seconds.  A request that  *)
(* is repeated for ever is answered some day, and so is the queue, and so   *)
(* is `ps`, for a worker and for a command on a delivery that is not        *)
(* handled yet.  The session attends to what its queue holds.  Nobody has   *)
(* to start a worker, or to remove a lock.                                  *)
Attends(h) == \E i \in inbox : ~Handled(i) /\ HandleBegins(h, i)
LooksAnew(h) == HandleLooks(h) /\ ~Handled(hand[h])

Fairness ==
    /\ \A w \in Workers : WF_vars(Runs(w))
    /\ SF_vars(\E w \in Workers : Answered(w))
    /\ SF_vars(\E w \in Workers : Enqueue(w))
    /\ SF_vars(\E h \in Handlers : Attends(h))
    /\ SF_vars(\E h \in Handlers : LooksAnew(h))
    /\ \A h \in Handlers : WF_vars(HandleLooks(h) \/ HandleRefused(h) \/ HandleLinks(h))

Spec == Init /\ [][Next]_vars

FairSpec == Spec /\ Fairness

-----------------------------------------------------------------------------
TypeOK ==
    /\ ServerTypeOK
    /\ delivery \subseteq DOMAIN log
    /\ queued \cup acked \cup inbox \subseteq delivery
    /\ receipt \in [Seqs -> Handlers \cup {Nobody}]
    /\ \A i \in Seqs : Handled(i) => i \in delivery
    /\ stopped \in BOOLEAN /\ live \in BOOLEAN
    /\ lock \in Workers \cup {Nobody}
    /\ at \in [Workers -> Places]
    /\ item \in [Workers -> 0..MaxSeq]
    /\ hand \in [Handlers -> 0..MaxSeq]
    /\ linking \subseteq Handlers
    /\ late \subseteq 1..MaxSeq + 1
    /\ told \subseteq Seqs \X Handlers

Settled(i) == log[i] = "matching" => Handled(i) \/ i \in passed
SettledBelow(n) == \A i \in DOMAIN log : i < n => Settled(i)

(* Receipt before acknowledgement, over every retry, late answer, kill and  *)
(* restart: a row the filters let through lies below the committed cursor   *)
(* only if the session has recorded a disposition of it, or if somebody     *)
(* else moved the cursor past it.                                           *)
NothingPassedOver == SettledBelow(cursor)

(* pending() never finds two deliveries, at which every worker would give   *)
(* up for good.                                                             *)
OnePending == Cardinality(Pending) <= 1

(* The journal's marks say what has happened elsewhere: an announced        *)
(* delivery is in the session's queue, an acknowledged one is handled and,  *)
(* unless somebody else moved it, below the committed cursor.               *)
MarksAreTrue ==
    /\ queued \subseteq inbox
    /\ \A i \in acked : Handled(i) /\ (i < cursor \/ moved)

(* A `bridge handled` that reported success is still the one on record,     *)
(* whatever other commands ran at the same time.                            *)
ReportsStand ==
    \A i \in Seqs, h \in Handlers : <<i, h>> \in told => receipt[i] = h

Conflict == moved \/ ~active \/ FloorPassed

GivesUp(w) == at[w] \notin {"failed", "starting", "enqueueing"} /\ at'[w] = "failed"

(* Timeouts, late answers, kills and restarts alone never make a worker     *)
(* give up.  It does so when somebody else moved the cursor or took the     *)
(* subscription away, or when the floor passed the cursor.  (It may also    *)
(* fail to start, and to find the session while it is telling it.)          *)
GivesUpOnConflict == [][\A w \in Workers : GivesUp(w) => Conflict]_vars

WorkerStays == \E w \in Workers : at[w] \notin Gone

(* Every published row the filters let through is committed some day, as    *)
(* long as a worker keeps running and nothing of the kind happens, unless   *)
(* it stays behind a whole scan of rows that are not let through.  (The two *)
(* rows of ServerInit are none of these.)                                   *)
EventuallyCommitted ==
    \A i \in 3..MaxSeq :
        [](i \in DOMAIN log /\ log[i] = "matching" =>
           <>(\/ i < cursor \/ Conflict \/ stopped \/ ~live \/ ~WorkerStays
              \/ []OutOfReach(i, cursor)))

(* Once the bridge is stopped or its session dead, every worker ends,       *)
(* wherever it was.                                                         *)
StopEndsWorkers == (stopped \/ ~live) ~> (\A w \in Workers : at[w] \in Gone)
=============================================================================
