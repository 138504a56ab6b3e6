----------------------------- MODULE FeedProofs -----------------------------
(***************************************************************************)
(* Theorems about Feed, for every value of its constants, in four parts:   *)
(* the log (types, heads, what is known of loss), what is delivered, what  *)
(* is delivered again, and the refinement of DurableQueue.                 *)
(***************************************************************************)
EXTENDS Feed, FiniteSetTheorems, WellFoundedInduction, TLAPS

-----------------------------------------------------------------------------
(* Largest elements.                                                        *)

(* A bounded, non-empty set of integers has a largest element, and          *)
(* HighWater (Math.max in store.ts and core.ts) is it.                      *)
LEMMA HighWaterExists ==
    ASSUME NEW S \in SUBSET Int, S # {}, NEW b \in Int, \A x \in S : x <= b
    PROVE  HighWater(S) \in S /\ \A y \in S : y <= HighWater(S)
<1> DEFINE T == {n \in Nat : b - n \in S}
<1>1. T \subseteq Nat
  OBVIOUS
<1>2. T # {}
  <2>1. PICK x \in S : TRUE
    OBVIOUS
  <2>2. b - x \in Nat /\ b - (b - x) = x
    BY <2>1
  <2> QED BY <2>2
<1>3. PICK n \in T : \A k \in T : ~ (<<k, n>> \in OpToRel(<,Nat))
  <2> HIDE DEF T
  <2> QED BY <1>1, <1>2, NatLessThanWellFounded, WFMin, Zenon
<1>4. \A k \in T : ~ (k < n)
  BY <1>3 DEF OpToRel
<1>5. \A y \in S : y <= b - n
  <2> TAKE y \in S
  <2>1. b - y \in T
    BY b - (b - y) = y
  <2>2. ~(b - y < n)
    BY <2>1, <1>4
  <2> QED BY <2>2
<1>6. b - n \in S
  OBVIOUS
<1> HIDE DEF T
<1>7. \E x \in S : \A y \in S : y <= x
  BY <1>5, <1>6
<1> QED BY <1>7 DEF HighWater

(* An element no other exceeds is the high water. *)
LEMMA HighWaterIs ==
    ASSUME NEW S \in SUBSET Int, NEW x \in S, \A y \in S : y <= x
    PROVE  HighWater(S) = x
<1> DEFINE h == HighWater(S)
<1>1. h \in S /\ \A y \in S : y <= h
  BY DEF HighWater
<1>2. x \in Int /\ h \in Int /\ h <= x /\ x <= h
  BY <1>1
<1> HIDE DEF h
<1>3. h = x
  BY <1>2
<1> QED BY <1>3 DEF h

-----------------------------------------------------------------------------
(* Types.                                                                   *)

StoreTypes ==
    /\ seq \in 0..MaxSeq
    /\ rows \subseteq Row
    /\ history \subseteq Row
    /\ heads \in [Monitors -> 0..MaxSeq]
    /\ floor \in 0..(MaxSeq + 1)
    /\ dropped \in [Monitors -> (-1)..MaxSeq]
    /\ monitors \in [Monitors -> MonitorRow]
    /\ subs \in [Subs -> SubRow]

ClientTypes ==
    /\ sweeping \in BOOLEAN
    /\ pages \subseteq [sub : Subs, next : Cursor]
    /\ accounted \in [Subs -> SUBSET (0..MaxSeq)]
    /\ handed \in [Subs -> SUBSET (1..MaxSeq)]

(* TypeOK is the types of the store, those of the client's side, and the    *)
(* rest (core.ts, store.ts).                                                *)
LEMMA TypeSplit ==
    TypeOK <=> /\ StoreTypes
               /\ ClientTypes
               /\ disk \in DiskRow
               /\ calls \in [Calls -> Call \cup {NoCall}]
               /\ reply \in Reply \cup {NoReply}
BY DEF TypeOK, StoreTypes, ClientTypes

(* The same of the next state. *)
LEMMA TypeSplitNext ==
    TypeOK' <=> /\ StoreTypes'
                /\ ClientTypes'
                /\ disk' \in DiskRow
                /\ calls' \in [Calls -> Call \cup {NoCall}]
                /\ reply' \in Reply \cup {NoReply}
BY DEF TypeOK, StoreTypes, ClientTypes

(* Adding a typed set at one place of a typed map. *)
LEMMA AddAtType ==
    ASSUME NEW S, NEW T, NEW f \in [S -> SUBSET T], NEW x \in S, NEW X \in SUBSET T
    PROVE  [f EXCEPT ![x] = @ \cup X] \in [S -> SUBSET T]
<1>1. f[x] \cup X \in SUBSET T
  OBVIOUS
<1> QED BY <1>1

(* Changing one field of one subscription, or of one call. *)
LEMMA SubUpdateType ==
    ASSUME subs \in [Subs -> SubRow], NEW s \in Subs, NEW n \in Cursor
    PROVE  /\ [subs EXCEPT ![s].cursor = n] \in [Subs -> SubRow]
           /\ [subs EXCEPT ![s].deliveredMax = n] \in [Subs -> SubRow]
           /\ [subs EXCEPT ![s].active = FALSE] \in [Subs -> SubRow]
<1>1. subs[s] \in SubRow
  OBVIOUS
<1>2. /\ [subs[s] EXCEPT !.cursor = n] \in SubRow
      /\ [subs[s] EXCEPT !.deliveredMax = n] \in SubRow
      /\ [subs[s] EXCEPT !.active = FALSE] \in SubRow
  BY <1>1 DEF SubRow
<1> QED BY <1>2

(* A pull that moves on is still a whole pull (pull, core.ts). *)
LEMMA CallUpdateType ==
    ASSUME NEW call \in Call
    PROVE  /\ \A a \in {"reading", "waiting"} : [call EXCEPT !.at = a] \in Call
           /\ [call EXCEPT !.live = FALSE] \in Call
BY DEF Call

(* append() keeps the types of the log (store.ts). *)
LEMMA AppendType ==
    ASSUME StoreTypes, NEW m \in Monitors, NEW k \in {"obs", "proto"}, Append(m, k),
           monitors' \in [Monitors -> MonitorRow], subs' \in [Subs -> SubRow]
    PROVE  StoreTypes'
<1> USE MaxSeqAssumption, FeedAssumption
<1>1. seq + 1 \in 1..MaxSeq
  BY DEF Append, StoreTypes
<1>2. [seq |-> seq + 1, mon |-> m, kind |-> k] \in Row
  BY <1>1 DEF Row
<1>3. seq' \in 0..MaxSeq /\ floor' \in 0..(MaxSeq + 1) /\ dropped' \in [Monitors -> (-1)..MaxSeq]
  BY <1>1 DEF Append, StoreTypes
<1>4. rows' \subseteq Row /\ history' \subseteq Row
  BY <1>2 DEF Append, StoreTypes
<1>5. heads' \in [Monitors -> 0..MaxSeq]
  <2>1. heads' = [heads EXCEPT ![m] = seq + 1] /\ heads \in [Monitors -> 0..MaxSeq]
    BY DEF Append, StoreTypes
  <2> QED BY <1>1, <2>1
<1> QED BY <1>3, <1>4, <1>5 DEF StoreTypes

(* A snapshot has the type of what it copies (store.ts). *)
LEMMA PersistType ==
    ASSUME StoreTypes', Persist
    PROVE  disk' \in DiskRow
BY DEF Persist, Snapshot, StoreTypes, DiskRow

(* The wake-up keeps calls well formed (waitAppend, store.ts). *)
LEMMA WokenType ==
    ASSUME calls \in [Calls -> Call \cup {NoCall}]
    PROVE  /\ Woken \in [Calls -> Call \cup {NoCall}]
           /\ \A c \in Calls : /\ calls[c] = NoCall => Woken[c] = NoCall
                               /\ calls[c] # NoCall =>
                                    /\ calls[c] \in Call
                                    /\ Woken[c] \in Call
                                    /\ Woken[c].sub = calls[c].sub
                                    /\ Woken[c].start = calls[c].start
                                    /\ Woken[c].filter = calls[c].filter
                                    /\ Woken[c].replay = calls[c].replay
                                    /\ Woken[c].live = calls[c].live
                                    /\ Woken[c].at = IF calls[c].at = "waiting" THEN "reading" ELSE calls[c].at
BY DEF Woken, Call, NoCall

(* A handler that logs leaves a typed store and a typed snapshot (core.ts). *)
LEMMA LogType ==
    ASSUME StoreTypes, NEW m \in Monitors, NEW k \in {"obs", "proto"}, Log(m, k),
           monitors' \in [Monitors -> MonitorRow], subs' \in [Subs -> SubRow]
    PROVE  StoreTypes' /\ disk' \in DiskRow
<1>1. StoreTypes'
  BY AppendType DEF Log
<1> QED BY <1>1, PersistType DEF Log

(* Compaction keeps the types of the log (store.ts). *)
LEMMA CompactType ==
    ASSUME StoreTypes, NEW u \in 0..MaxSeq, CompactUpTo(u)
    PROVE  StoreTypes' /\ disk' \in DiskRow
<1> USE MaxSeqAssumption
<1> DEFINE gone == {r \in rows : r.seq <= u}
<1>1. \A m \in Monitors : HighWater({dropped[m]} \cup SeqsOf(m, gone)) \in (-1)..MaxSeq
  <2> TAKE m \in Monitors
  <2> DEFINE S == {dropped[m]} \cup SeqsOf(m, gone)
  <2>1. S \subseteq (-1)..MaxSeq /\ S # {}
    BY DEF StoreTypes, SeqsOf, Row
  <2>2. S \in SUBSET Int /\ MaxSeq \in Int /\ \A x \in S : x <= MaxSeq
    BY <2>1
  <2> HIDE DEF S
  <2>3. HighWater(S) \in S
    BY <2>1, <2>2, HighWaterExists
  <2> QED BY <2>1, <2>3 DEF S
<1>2. dropped' = [m \in Monitors |-> HighWater({dropped[m]} \cup SeqsOf(m, gone))]
  BY DEF CompactUpTo, DroppedAfter
<1> HIDE DEF gone
<1>3. dropped' \in [Monitors -> (-1)..MaxSeq]
  BY <1>1, <1>2
<1>4. floor' \in 0..(MaxSeq + 1)
  BY DEF CompactUpTo, StoreTypes
<1>5. StoreTypes'
  BY <1>3, <1>4 DEF CompactUpTo, StoreTypes
<1> QED BY <1>5, PersistType DEF CompactUpTo

(* A restart loads typed state (load, store.ts). *)
LEMMA LoadType ==
    ASSUME StoreTypes, disk \in DiskRow, Load
    PROVE  StoreTypes' /\ disk' \in DiskRow
<1> USE MaxSeqAssumption
<1>1. \A m \in Monitors : HighWater({0, disk.dropped[m]} \cup SeqsOf(m, disk.rows)) \in 0..MaxSeq
  <2> TAKE m \in Monitors
  <2> DEFINE S == {0, disk.dropped[m]} \cup SeqsOf(m, disk.rows)
  <2>1. S \subseteq (-1)..MaxSeq /\ 0 \in S
    BY DEF DiskRow, SeqsOf, Row
  <2>2. S \in SUBSET Int /\ MaxSeq \in Int /\ \A x \in S : x <= MaxSeq
    BY <2>1
  <2> HIDE DEF S
  <2>3. HighWater(S) \in S /\ 0 <= HighWater(S)
    BY <2>1, <2>2, HighWaterExists
  <2> QED BY <2>1, <2>3 DEF S
<1>2. heads' \in [Monitors -> 0..MaxSeq]
  BY <1>1 DEF Load, LoadedHead
<1> QED BY <1>2 DEF Load, StoreTypes, DiskRow

(* A reply, received or not, leaves typed pages (pull, core.ts). *)
LEMMA AnswerType ==
    ASSUME TypeOK, NEW c \in Calls, calls[c] \in Call, NEW next \in Cursor,
           NEW seqs \in SUBSET (1..MaxSeq), NEW marked \in SUBSET (1..MaxSeq),
           Answer(c, next, seqs, marked)
    PROVE  /\ calls' \in [Calls -> Call \cup {NoCall}]
           /\ reply' \in Reply \cup {NoReply}
           /\ pages' \subseteq [sub : Subs, next : Cursor]
           /\ accounted' \in [Subs -> SUBSET (0..MaxSeq)]
<1>1. /\ calls[c].sub \in Subs /\ calls[c].start \in Cursor
      /\ calls[c].filter \in SUBSET Kinds
  BY DEF Call
<1>2. calls' \in [Calls -> Call \cup {NoCall}]
  BY DEF Answer, TypeOK
<1>3. reply' \in Reply
  BY <1>1 DEF Answer, Reply
<1>4. pages' \subseteq [sub : Subs, next : Cursor]
  BY <1>1 DEF Answer, TypeOK
<1>5. accounted' \in [Subs -> SUBSET (0..MaxSeq)]
  <2>1. CASE accounted' = accounted
    BY <2>1 DEF TypeOK
  <2>2. CASE accounted' = [accounted EXCEPT ![calls[c].sub] = @ \cup seqs]
    <3>1. seqs \in SUBSET (0..MaxSeq) /\ accounted \in [Subs -> SUBSET (0..MaxSeq)]
      BY MaxSeqAssumption DEF TypeOK
    <3> QED BY <1>1, <2>2, <3>1, AddAtType
  <2> QED BY <2>1, <2>2 DEF Answer
<1> QED BY <1>2, <1>3, <1>4, <1>5

(* The server starts well typed, with nothing in it. *)
LEMMA TypeInit == Init => TypeOK
<1> USE MaxSeqAssumption
<1> SUFFICES ASSUME Init PROVE TypeOK
  OBVIOUS
<1>1. StoreTypes
  BY DEF Init, StoreTypes, NoMonitor, MonitorRow, NoSub, SubRow, Cursor
<1>2. disk \in DiskRow
  BY <1>1 DEF Init, Snapshot, StoreTypes, DiskRow
<1> QED BY <1>1, <1>2, TypeSplit DEF Init, ClientTypes

(* Every handler keeps the types: one step per action (core.ts). *)
LEMMA TypeNext == TypeOK /\ [Next]_vars => TypeOK'
<1> USE MaxSeqAssumption, FeedAssumption
<1> SUFFICES ASSUME TypeOK, [Next]_vars PROVE TypeOK'
  OBVIOUS
<1> USE TypeSplit, TypeSplitNext
<1>0. /\ StoreTypes /\ ClientTypes /\ disk \in DiskRow
      /\ Woken \in [Calls -> Call \cup {NoCall}]
  BY WokenType
<1>a. ASSUME NEW s \in Subs PROVE MonitorOf[s] \in Monitors
  OBVIOUS
<1>b. ASSUME NEW s \in Subs, NEW n \in 0..(MaxSeq + 1),
             accounted' = [accounted EXCEPT ![s] = @ \cup 0..(n - 1)]
      PROVE  accounted' \in [Subs -> SUBSET (0..MaxSeq)]
  <2>1. 0..(n - 1) \in SUBSET (0..MaxSeq) /\ accounted \in [Subs -> SUBSET (0..MaxSeq)]
    BY DEF TypeOK
  <2> QED BY <1>b, <2>1, AddAtType
<1>c. ASSUME NEW s \in Subs PROVE heads[MonitorOf[s]] + 1 \in Cursor
  BY <1>a DEF TypeOK, Cursor
<1>d. ASSUME NEW c \in Calls, calls[c].at \in {"resetting", "reading", "waiting"}
      PROVE  calls[c] \in Call
  BY <1>d DEF TypeOK, NoCall
<1>1. ASSUME NEW m \in Monitors, CreateMonitor(m) PROVE TypeOK'
  <2>1. monitors' \in [Monitors -> MonitorRow] /\ subs' \in [Subs -> SubRow]
    BY <1>1 DEF CreateMonitor, TypeOK, MonitorRow
  <2>2. StoreTypes' /\ disk' \in DiskRow
    BY <1>0, <1>1, <2>1, LogType DEF CreateMonitor
  <2>3. ClientTypes'
    BY <1>0, <1>1 DEF CreateMonitor, ClientTypes, ClientsUnchanged
  <2> QED BY <1>0, <1>1, <2>2, <2>3 DEF CreateMonitor
<1>2. ASSUME NEW m \in Monitors, NEW a \in Actions, MonitorAction(m, a) PROVE TypeOK'
  <2>1. monitors' \in [Monitors -> MonitorRow] /\ subs' \in [Subs -> SubRow]
    <3>1. a \in {"pause", "resume", "retire", "update"} /\ monitors[m] \in MonitorRow
      BY DEF TypeOK
    <3>2. Configured(monitors[m], a) \in MonitorRow
      <4>1. CASE a = "pause"
        BY <3>1, <4>1 DEF Configured, MonitorRow
      <4>2. CASE a = "resume"
        BY <3>1, <4>2 DEF Configured, MonitorRow
      <4>3. CASE a = "retire"
        BY <3>1, <4>3 DEF Configured, MonitorRow
      <4>4. CASE a = "update"
        BY <3>1, <4>4 DEF Configured, MonitorRow
      <4> QED BY <3>1, <4>1, <4>2, <4>3, <4>4
    <3> QED BY <1>2, <3>2 DEF MonitorAction, TypeOK
  <2>2. StoreTypes' /\ disk' \in DiskRow
    BY <1>0, <1>2, <2>1, LogType DEF MonitorAction
  <2>3. ClientTypes'
    BY <1>0, <1>2 DEF MonitorAction, ClientTypes, ClientsUnchanged
  <2> QED BY <1>0, <1>2, <2>2, <2>3 DEF MonitorAction
<1>3. ASSUME NEW m \in Monitors, NEW k \in {"obs", "proto"}, Publish(m, k) PROVE TypeOK'
  <2>1. monitors' \in [Monitors -> MonitorRow] /\ subs' \in [Subs -> SubRow]
    BY <1>3 DEF Publish, TypeOK
  <2>2. StoreTypes' /\ disk' \in DiskRow
    BY <1>0, <1>3, <2>1, LogType DEF Publish
  <2>3. ClientTypes'
    BY <1>0, <1>3 DEF Publish, ClientTypes, ClientsUnchanged
  <2> QED BY <1>0, <1>3, <2>2, <2>3 DEF Publish
<1>4. ASSUME NEW s \in Subs, NEW n \in Cursor, NEW p \in Policies, NEW f \in Filters,
             Subscribe(s, n, p, f)
      PROVE  TypeOK'
  <2>1. monitors' \in [Monitors -> MonitorRow] /\ subs' \in [Subs -> SubRow]
    BY <1>4 DEF Subscribe, TypeOK, SubRow
  <2>2. StoreTypes' /\ disk' \in DiskRow
    BY <1>0, <1>4, <1>a, <2>1, LogType DEF Subscribe
  <2>3. accounted' \in [Subs -> SUBSET (0..MaxSeq)]
    BY <1>4, <1>b DEF Subscribe, Cursor
  <2>4. ClientTypes'
    BY <1>0, <1>4, <2>3 DEF Subscribe, Rekey, ClientTypes
  <2>5. calls' \in [Calls -> Call \cup {NoCall}]
    <3>1. ASSUME NEW c \in Calls, calls[c] # NoCall
          PROVE  [Woken[c] EXCEPT !.live = FALSE] \in Call
      BY <3>1, WokenType, CallUpdateType DEF TypeOK
    <3> QED BY <1>0, <1>4, <3>1 DEF Subscribe, Rekey
  <2> QED BY <1>4, <2>2, <2>4, <2>5 DEF Subscribe
<1>5. ASSUME NEW s \in Subs, NEW n \in Cursor, Ack(s, n) PROVE TypeOK'
  <2>1. subs' \in [Subs -> SubRow]
    <3> DEFINE top == heads[MonitorOf[s]] + 1
               to  == IF n < top THEN n ELSE top
    <3>1. to \in Cursor
      BY <1>c
    <3>2. subs' = [subs EXCEPT ![s].cursor = to]
      BY <1>5 DEF Ack
    <3> HIDE DEF to
    <3> QED BY <3>1, <3>2, SubUpdateType DEF TypeOK
  <2>2. StoreTypes'
    BY <1>0, <1>5, <2>1 DEF Ack, LogUnchanged, StoreTypes
  <2>3. disk' \in DiskRow
    BY <1>5, <2>2, PersistType DEF Ack
  <2> QED BY <1>0, <1>5, <2>2, <2>3 DEF Ack, ClientTypes, ClientsUnchanged
<1>6. ASSUME NEW s \in Subs, NEW n \in Named, Seek(s, n) PROVE TypeOK'
  <2> DEFINE top == heads[MonitorOf[s]] + 1
             to  == IF n < top THEN n ELSE top
  <2>1. to \in Cursor
    BY <1>c DEF Cursor
  <2>2. /\ subs' = [subs EXCEPT ![s].cursor = to]
        /\ accounted' = [accounted EXCEPT ![s] = @ \cup 0..(to - 1)]
    BY <1>6 DEF Seek
  <2> HIDE DEF to
  <2>3. monitors' \in [Monitors -> MonitorRow] /\ subs' \in [Subs -> SubRow]
    <3>1. [subs EXCEPT ![s].cursor = to] \in [Subs -> SubRow]
      BY <2>1, SubUpdateType DEF TypeOK
    <3> QED BY <1>6, <2>2, <3>1 DEF Seek, TypeOK
  <2>4. StoreTypes' /\ disk' \in DiskRow
    BY <1>0, <1>6, <1>a, <2>3, LogType DEF Seek
  <2>5. accounted' \in [Subs -> SUBSET (0..MaxSeq)]
    BY <1>b, <2>1, <2>2 DEF Cursor
  <2> QED BY <1>0, <1>6, <2>4, <2>5 DEF Seek, ClientTypes
<1>7. ASSUME NEW s \in Subs, RetireSub(s) PROVE TypeOK'
  <2>1. monitors' \in [Monitors -> MonitorRow] /\ subs' \in [Subs -> SubRow]
    BY <1>7, SubUpdateType DEF RetireSub, TypeOK, Cursor
  <2>2. StoreTypes' /\ disk' \in DiskRow
    BY <1>0, <1>7, <1>a, <2>1, LogType DEF RetireSub
  <2> QED BY <1>0, <1>7, <2>2 DEF RetireSub, ClientTypes, ClientsUnchanged
<1>8. ASSUME NEW s \in Subs, NEW more \in BOOLEAN, Sweep(s, more) PROVE TypeOK'
  <2>1. monitors' \in [Monitors -> MonitorRow] /\ subs' \in [Subs -> SubRow]
    BY <1>8, SubUpdateType DEF Sweep, TypeOK, Cursor
  <2>2. StoreTypes' /\ disk' \in DiskRow
    BY <1>0, <1>8, <1>a, <2>1, LogType DEF Sweep
  <2> QED BY <1>0, <1>8, <2>2 DEF Sweep, ClientTypes, ClientsUnchanged
<1>9. ASSUME NEW c \in Calls, NEW s \in Subs, PullStored(c, s) PROVE TypeOK'
  <2>1. calls' \in [Calls -> Call \cup {NoCall}]
    BY <1>9 DEF PullStored, TypeOK, Call, SubRow
  <2> QED BY <1>0, <1>9, <2>1
          DEF PullStored, StoreTypes, storeVars, ClientTypes, ClientsUnchanged
<1>10. ASSUME NEW c \in Calls, NEW s \in Subs, NEW n \in Named, PullReplay(c, s, n)
       PROVE  TypeOK'
  <2>1. calls' \in [Calls -> Call \cup {NoCall}]
    BY <1>10 DEF PullReplay, TypeOK, Call, SubRow, Cursor
  <2> QED BY <1>0, <1>10, <2>1
          DEF PullReplay, StoreTypes, storeVars, ClientTypes, ClientsUnchanged
<1>11. ASSUME NEW c \in Calls, NEW s \in Subs, PullReset(c, s) PROVE TypeOK'
  <2>1. monitors' \in [Monitors -> MonitorRow] /\ subs' \in [Subs -> SubRow]
    BY <1>11 DEF PullReset, TypeOK
  <2>2. StoreTypes' /\ disk' \in DiskRow
    BY <1>0, <1>11, <1>a, <2>1, LogType DEF PullReset
  <2>3. calls' \in [Calls -> Call \cup {NoCall}]
    <3> DEFINE to == IF subs[s].policy = "latest" THEN heads[MonitorOf[s]] + 1 ELSE floor
    <3>1. to \in Cursor
      BY <1>c DEF TypeOK, Cursor
    <3>2. calls' = [Woken EXCEPT ![c] =
              [at |-> "resetting", sub |-> s, start |-> to,
               filter |-> subs[s].filter, replay |-> FALSE, live |-> TRUE]]
      BY <1>11 DEF PullReset
    <3> HIDE DEF to
    <3>3. subs[s].filter \in SUBSET Kinds
      BY DEF TypeOK, SubRow
    <3> QED BY <1>0, <3>1, <3>2, <3>3 DEF Call
  <2> QED BY <1>0, <1>11, <2>2, <2>3 DEF PullReset, ClientTypes, ClientsUnchanged
<1>12. ASSUME NEW c \in Calls, MoveToReset(c) PROVE TypeOK'
  <2>1. calls[c] \in Call /\ calls[c].sub \in Subs /\ calls[c].start \in Cursor
    BY <1>12, <1>d DEF MoveToReset, Call
  <2>2. subs' \in [Subs -> SubRow]
    BY <1>12, <2>1, SubUpdateType DEF MoveToReset, TypeOK
  <2>3. StoreTypes'
    BY <1>0, <1>12, <2>2 DEF MoveToReset, LogUnchanged, StoreTypes
  <2>4. disk' \in DiskRow
    BY <1>12, <2>3, PersistType DEF MoveToReset
  <2>5. accounted' \in [Subs -> SUBSET (0..MaxSeq)]
    BY <1>12, <1>b, <2>1 DEF MoveToReset, Cursor
  <2>6. calls' \in [Calls -> Call \cup {NoCall}]
    BY <1>12, <2>1, CallUpdateType DEF MoveToReset, TypeOK
  <2> QED BY <1>0, <1>12, <2>3, <2>4, <2>5, <2>6 DEF MoveToReset, ClientTypes
<1>13. ASSUME NEW c \in Calls, Deliver(c) PROVE TypeOK'
  <2> DEFINE s == calls[c].sub
  <2>1. PICK P \in SUBSET rows :
          LET seqs == {r.seq : r \in P}
          IN  /\ P # {}
              /\ IF calls[c].replay
                 THEN UNCHANGED <<subs, disk, handed>>
                 ELSE /\ subs' = [subs EXCEPT ![s].deliveredMax = HighWater({@} \cup seqs)]
                      /\ handed' = [handed EXCEPT ![s] = @ \cup seqs]
                      /\ Persist
              /\ Answer(c, HighWater(seqs) + 1, seqs,
                        {q \in seqs : q <= subs[s].deliveredMax})
    BY <1>13 DEF Deliver
  <2> DEFINE seqs == {r.seq : r \in P}
  <2>2. calls[c] \in Call /\ s \in Subs
    BY <1>13, <1>d DEF Deliver, ReadDue, Call
  <2>3. seqs \in SUBSET (1..MaxSeq) /\ seqs # {}
    BY <2>1 DEF TypeOK, Row
  <2> HIDE DEF seqs
  <2>4. HighWater(seqs) + 1 \in Cursor
    <3>1. seqs \in SUBSET Int /\ \A x \in seqs : x <= MaxSeq
      BY <2>3
    <3>2. HighWater(seqs) \in seqs
      BY <2>3, <3>1, HighWaterExists
    <3>3. HighWater(seqs) \in 1..MaxSeq
      BY <2>3, <3>2
    <3> QED BY <3>3 DEF Cursor
  <2>5. /\ calls' \in [Calls -> Call \cup {NoCall}]
        /\ reply' \in Reply \cup {NoReply}
        /\ pages' \subseteq [sub : Subs, next : Cursor]
        /\ accounted' \in [Subs -> SUBSET (0..MaxSeq)]
    <3>1. Answer(c, HighWater(seqs) + 1, seqs, {q \in seqs : q <= subs[s].deliveredMax})
      BY <2>1 DEF seqs
    <3>2. {q \in seqs : q <= subs[s].deliveredMax} \in SUBSET (1..MaxSeq)
      BY <2>3
    <3> QED BY <2>2, <2>3, <2>4, <3>1, <3>2, AnswerType
  <2>6. subs' \in [Subs -> SubRow] /\ handed' \in [Subs -> SUBSET (1..MaxSeq)]
    <3>1. CASE calls[c].replay
      BY <2>1, <3>1 DEF TypeOK
    <3>2. CASE ~calls[c].replay
      <4> DEFINE S == {subs[s].deliveredMax} \cup seqs
      <4>1. S \subseteq Cursor /\ S # {}
        <5>1. subs[s] \in SubRow
          BY <2>2 DEF TypeOK
        <5>2. subs[s].deliveredMax \in Cursor
          BY <5>1 DEF SubRow
        <5>3. seqs \subseteq Cursor
          BY <2>3 DEF Cursor
        <5> QED BY <5>2, <5>3
      <4>2. S \in SUBSET Int /\ MaxSeq + 1 \in Int /\ \A x \in S : x <= MaxSeq + 1
        BY <4>1 DEF Cursor
      <4> HIDE DEF S
      <4>3. HighWater(S) \in Cursor
        BY <4>1, <4>2, HighWaterExists
      <4>4. /\ subs' = [subs EXCEPT ![s].deliveredMax = HighWater(S)]
            /\ handed' = [handed EXCEPT ![s] = @ \cup seqs]
        BY <2>1, <3>2 DEF S, seqs
      <4>5. subs' \in [Subs -> SubRow]
        BY <2>2, <4>3, <4>4, SubUpdateType DEF TypeOK
      <4>6. handed' \in [Subs -> SUBSET (1..MaxSeq)]
        BY <2>2, <2>3, <4>4, AddAtType DEF TypeOK
      <4> QED BY <4>5, <4>6
    <3> QED BY <3>1, <3>2
  <2>7. StoreTypes'
    BY <1>0, <1>13, <2>6 DEF Deliver, LogUnchanged, StoreTypes
  <2>8. disk' \in DiskRow
    BY <1>0, <2>1, <2>7, PersistType
  <2> QED BY <1>0, <1>13, <2>5, <2>6, <2>7, <2>8 DEF Deliver, ClientTypes
<1>14. ASSUME NEW c \in Calls, Wait(c) PROVE TypeOK'
  <2>1. calls' \in [Calls -> Call \cup {NoCall}]
    BY <1>14, <1>d, CallUpdateType DEF Wait, ReadDue, TypeOK
  <2> QED BY <1>0, <1>14, <2>1
          DEF Wait, StoreTypes, storeVars, ClientTypes, ClientsUnchanged
<1>15. ASSUME NEW c \in Calls, Timer(c) PROVE TypeOK'
  <2>1. calls' \in [Calls -> Call \cup {NoCall}]
    BY <1>15, <1>d, CallUpdateType DEF Timer, TypeOK
  <2> QED BY <1>0, <1>15, <2>1
          DEF Timer, StoreTypes, storeVars, ClientTypes, ClientsUnchanged
<1>16. ASSUME NEW c \in Calls, AnswerEmpty(c) PROVE TypeOK'
  <2>1. calls[c] \in Call /\ calls[c].sub \in Subs
    BY <1>16, <1>d DEF AnswerEmpty, ReadDue, Call
  <2>2. heads[MonitorOf[calls[c].sub]] + 1 \in Cursor
    BY <1>c, <2>1
  <2>3. /\ calls' \in [Calls -> Call \cup {NoCall}]
        /\ reply' \in Reply \cup {NoReply}
        /\ pages' \subseteq [sub : Subs, next : Cursor]
        /\ accounted' \in [Subs -> SUBSET (0..MaxSeq)]
    <3>1. {} \in SUBSET (1..MaxSeq)
      OBVIOUS
    <3> QED BY <1>16, <2>1, <2>2, <3>1, AnswerType DEF AnswerEmpty
  <2> QED BY <1>0, <1>16, <2>3 DEF AnswerEmpty, StoreTypes, storeVars, ClientTypes
<1>17. ASSUME SweepEnds PROVE TypeOK'
  BY <1>0, <1>17 DEF SweepEnds, StoreTypes, storeVars, ClientTypes, ClientsUnchanged
<1>18. ASSUME NEW u \in Named, Compact(u) PROVE TypeOK'
  <2>1. StoreTypes' /\ disk' \in DiskRow
    BY <1>0, <1>18, CompactType DEF Compact
  <2> QED BY <1>0, <1>18, <2>1 DEF Compact, ClientTypes, ClientsUnchanged
<1>19. ASSUME Restart PROVE TypeOK'
  <2>1. StoreTypes' /\ disk' \in DiskRow
    BY <1>0, <1>19, LoadType DEF Restart
  <2> QED BY <1>0, <1>19, <2>1 DEF Restart, ClientTypes, ClientsUnchanged
<1>20. ASSUME UNCHANGED vars PROVE TypeOK'
  BY <1>20 DEF vars, TypeOK
<1> QED BY <1>1, <1>2, <1>3, <1>4, <1>5, <1>6, <1>7, <1>8, <1>9, <1>10, <1>11, <1>12,
           <1>13, <1>14, <1>15, <1>16, <1>17, <1>18, <1>19, <1>20
        DEF Next, MonitorNext, SubNext, PullNext

(* Type correctness: whatever requests arrive and wherever the server       *)
(* crashes, every part of its state stays well formed (store.ts, core.ts).  *)
THEOREM TypeCorrect == Spec => []TypeOK
<1>1. Init => TypeOK
  BY TypeInit
<1>2. TypeOK /\ [Next]_vars => TypeOK'
  BY TypeNext
<1> QED BY <1>1, <1>2, PTL DEF Spec
-----------------------------------------------------------------------------
(* The log.                                                                 *)

(* append() keeps the log in order (store.ts). *)
LEMMA AppendLog ==
    ASSUME TypeOK, LogInv, NEW m \in Monitors, NEW k \in {"obs", "proto"}, Append(m, k)
    PROVE  LogInv'
<1> DEFINE row == [seq |-> seq + 1, mon |-> m, kind |-> k]
<1>1. /\ rows' = rows \cup {row} /\ history' = history \cup {row} /\ seq' = seq + 1
      /\ heads' = [heads EXCEPT ![m] = seq + 1] /\ floor' = floor /\ dropped' = dropped
      /\ row.seq = seq + 1 /\ row.mon = m
  BY DEF Append
<1>2. /\ seq \in Int /\ heads \in [Monitors -> 0..MaxSeq]
      /\ \A r \in history : r.seq \in Int /\ r.seq <= seq
      /\ rows \subseteq history
  BY MaxSeqAssumption DEF TypeOK, LogInv, Row
<1> HIDE DEF row
<1>3. row \notin history
  BY <1>1, <1>2
<1>4. history' \ rows' = history \ rows
  BY <1>1, <1>3
<1>5. /\ rows' \subseteq history'
      /\ \A r \in history' : r.seq <= seq'
      /\ \A r \in history' \ rows' : r.seq < floor'
  BY <1>1, <1>2, <1>4 DEF LogInv
<1>6. \A r, q \in history' : r.seq = q.seq => r = q
  BY <1>1, <1>2 DEF LogInv
<1>7. ASSUME NEW n \in Monitors
      PROVE  /\ heads'[n] \in {0} \cup SeqsOf(n, history')
             /\ \A x \in SeqsOf(n, history') : x <= heads'[n]
  <2>1. CASE n = m
    <3>1. heads'[n] = seq + 1 /\ seq + 1 \in SeqsOf(n, history')
      BY <1>1, <1>2, <2>1 DEF SeqsOf
    <3>2. \A x \in SeqsOf(n, history') : x <= seq + 1
      BY <1>1, <1>2 DEF SeqsOf
    <3> QED BY <3>1, <3>2
  <2>2. CASE n # m
    <3>1. heads'[n] = heads[n] /\ SeqsOf(n, history') = SeqsOf(n, history)
      BY <1>1, <1>2, <2>2 DEF SeqsOf
    <3> QED BY <3>1 DEF LogInv
  <2> QED BY <2>1, <2>2
<1>8. ASSUME NEW n \in Monitors
      PROVE  /\ dropped'[n] \in {-1} \cup SeqsOf(n, history' \ rows')
             /\ \A x \in SeqsOf(n, history' \ rows') : x <= dropped'[n]
  BY <1>1, <1>4 DEF LogInv
<1> QED BY <1>5, <1>6, <1>7, <1>8 DEF LogInv

(* compact() records exactly what it removes (store.ts). *)
LEMMA CompactLog ==
    ASSUME TypeOK, LogInv, NEW u \in 0..MaxSeq, CompactUpTo(u)
    PROVE  LogInv'
<1> USE MaxSeqAssumption
<1> DEFINE gone == {r \in rows : r.seq <= u}
<1>1. /\ rows' = rows \ gone /\ history' = history /\ seq' = seq /\ heads' = heads
      /\ floor' = IF u + 1 > floor THEN u + 1 ELSE floor
      /\ dropped' = [m \in Monitors |-> HighWater({dropped[m]} \cup SeqsOf(m, gone))]
  BY DEF CompactUpTo, DroppedAfter
<1>2. /\ \A r \in history : r.seq \in 1..MaxSeq
      /\ gone \subseteq rows /\ rows \subseteq history
      /\ \A r \in gone : r.seq <= u
      /\ dropped \in [Monitors -> (-1)..MaxSeq] /\ floor \in Int /\ u \in Int
  BY DEF TypeOK, LogInv, Row
<1> HIDE DEF gone
<1>3. history' \ rows' = (history \ rows) \cup gone
  BY <1>1, <1>2
<1>4. \A r \in history' \ rows' : r.seq < floor'
  <2>1. floor <= floor' /\ u < floor'
    BY <1>1, <1>2
  <2>2. \A r \in history \ rows : r.seq < floor
    BY DEF LogInv
  <2> QED BY <1>1, <1>2, <1>3, <2>1, <2>2
<1>5. ASSUME NEW m \in Monitors
      PROVE  /\ dropped'[m] \in {-1} \cup SeqsOf(m, history' \ rows')
             /\ \A x \in SeqsOf(m, history' \ rows') : x <= dropped'[m]
  <2> DEFINE S == {dropped[m]} \cup SeqsOf(m, gone)
  <2>1. S \in SUBSET Int /\ S # {} /\ MaxSeq \in Int /\ \A x \in S : x <= MaxSeq
    BY <1>2 DEF SeqsOf
  <2>2. dropped'[m] = HighWater(S)
    BY <1>1
  <2>3. SeqsOf(m, history' \ rows') = SeqsOf(m, history \ rows) \cup SeqsOf(m, gone)
    BY <1>3 DEF SeqsOf
  <2>4. /\ dropped[m] \in {-1} \cup SeqsOf(m, history \ rows)
        /\ \A x \in SeqsOf(m, history \ rows) : x <= dropped[m] /\ x \in Int
    BY <1>2 DEF LogInv, SeqsOf
  <2>5. dropped'[m] \in {dropped[m]} \cup SeqsOf(m, gone)
    <3> HIDE DEF S
    <3>1. dropped'[m] \in S
      BY <2>1, <2>2, HighWaterExists
    <3> QED BY <3>1 DEF S
  <2>6. dropped[m] <= dropped'[m] /\ \A x \in SeqsOf(m, gone) : x <= dropped'[m]
    <3>1. \A y \in S : y <= dropped'[m]
      <4> HIDE DEF S
      <4> QED BY <2>1, <2>2, HighWaterExists
    <3> QED BY <3>1
  <2>7. dropped[m] \in Int /\ dropped'[m] \in Int
    BY <1>2, <2>1, <2>5
  <2> HIDE DEF S
  <2> QED BY <2>3, <2>4, <2>5, <2>6, <2>7
<1>6. ASSUME NEW m \in Monitors
      PROVE  /\ heads'[m] \in {0} \cup SeqsOf(m, history')
             /\ \A x \in SeqsOf(m, history') : x <= heads'[m]
  BY <1>1 DEF LogInv
<1>7. /\ rows' \subseteq history'
      /\ \A r \in history' : r.seq <= seq'
      /\ \A r, q \in history' : r.seq = q.seq => r = q
  BY <1>1, <1>2 DEF LogInv
<1> QED BY <1>4, <1>5, <1>6, <1>7 DEF LogInv

(* load() rebuilds the heads from what is left and what was dropped         *)
(* (store.ts).                                                              *)
LEMMA LoadLog ==
    ASSUME TypeOK, LogInv, DiskInv, Load
    PROVE  LogInv'
<1> USE MaxSeqAssumption
<1>1. /\ rows' = rows /\ history' = history /\ seq' = seq /\ floor' = floor /\ dropped' = dropped
      /\ heads' = [m \in Monitors |-> HighWater({0, dropped[m]} \cup SeqsOf(m, rows))]
  BY DEF Load, LoadedHead, DiskInv, Snapshot
<1>2. /\ \A r \in history : r.seq \in 1..MaxSeq
      /\ rows \subseteq history
      /\ dropped \in [Monitors -> (-1)..MaxSeq] /\ heads \in [Monitors -> 0..MaxSeq]
  BY DEF TypeOK, LogInv, Row
<1>3. ASSUME NEW m \in Monitors PROVE heads'[m] = heads[m]
  <2> DEFINE S == {0, dropped[m]} \cup SeqsOf(m, rows)
  <2>1. S \in SUBSET Int
    BY <1>2 DEF SeqsOf
  <2>2. SeqsOf(m, history) = SeqsOf(m, rows) \cup SeqsOf(m, history \ rows)
    BY <1>2 DEF SeqsOf
  <2>3. /\ heads[m] \in {0} \cup SeqsOf(m, history)
        /\ \A n \in SeqsOf(m, history) : n <= heads[m]
        /\ dropped[m] \in {-1} \cup SeqsOf(m, history \ rows)
        /\ \A n \in SeqsOf(m, history \ rows) : n <= dropped[m]
        /\ heads[m] \in 0..MaxSeq /\ dropped[m] \in (-1)..MaxSeq
    BY <1>2 DEF LogInv
  <2>4. \A y \in S : y <= heads[m]
    BY <2>2, <2>3
  <2>5. heads[m] \in S
    <3>1. CASE heads[m] \in SeqsOf(m, history \ rows)
      <4>1. heads[m] <= dropped[m]
        BY <2>3, <3>1
      <4>2. dropped[m] <= heads[m]
        BY <2>4
      <4> QED BY <2>3, <4>1, <4>2
    <3>2. CASE heads[m] \notin SeqsOf(m, history \ rows)
      BY <2>2, <2>3, <3>2
    <3> QED BY <3>1, <3>2
  <2> HIDE DEF S
  <2>6. HighWater(S) = heads[m]
    BY <2>1, <2>4, <2>5, HighWaterIs
  <2> QED BY <1>1, <2>6 DEF S
<1>4. heads' = heads
  BY <1>1, <1>2, <1>3
<1> QED BY <1>1, <1>4 DEF LogInv

(* Every step appends one row, compacts, reloads, or leaves the log alone;  *)
(* and every step leaves on disk what it leaves in memory.                  *)
LogAndDisk == LogInv /\ DiskInv

(* A handler that appends a row and writes the snapshot (log, core.ts). *)
LEMMA LogStep ==
    ASSUME TypeOK, LogInv, NEW m \in Monitors, NEW k \in {"obs", "proto"}, Log(m, k)
    PROVE  LogAndDisk'
BY AppendLog DEF Log, Persist, LogAndDisk, DiskInv

(* A handler that leaves the log alone and writes what it changed. *)
LEMMA TablesStep ==
    ASSUME LogInv, LogUnchanged, Persist
    PROVE  LogAndDisk'
<1>1. LogInv'
  BY DEF LogUnchanged, LogInv, SeqsOf
<1> QED BY <1>1 DEF Persist, LogAndDisk, DiskInv

(* A step that leaves the whole store alone. *)
LEMMA QuietStep ==
    ASSUME LogAndDisk, UNCHANGED storeVars
    PROVE  LogAndDisk'
BY DEF storeVars, LogAndDisk, LogInv, DiskInv, Snapshot, SeqsOf

(* At the start there is no row, no mark and an equal snapshot. *)
LEMMA LogAndDiskInit == Init => LogAndDisk
BY DEF Init, LogAndDisk, LogInv, DiskInv, SeqsOf

(* Every handler keeps the log right and writes what it changed: one step   *)
(* per action (core.ts).                                                    *)
LEMMA LogAndDiskNext == TypeOK /\ LogAndDisk /\ [Next]_vars => LogAndDisk'
<1> SUFFICES ASSUME TypeOK, LogAndDisk, [Next]_vars PROVE LogAndDisk'
  OBVIOUS
<1> USE FeedAssumption
<1>0. LogInv /\ DiskInv
  BY DEF LogAndDisk
<1>a. ASSUME NEW s \in Subs PROVE MonitorOf[s] \in Monitors
  OBVIOUS
<1>1. ASSUME NEW m \in Monitors, CreateMonitor(m) PROVE LogAndDisk'
  BY <1>0, <1>1, LogStep DEF CreateMonitor
<1>2. ASSUME NEW m \in Monitors, NEW a \in Actions, MonitorAction(m, a) PROVE LogAndDisk'
  BY <1>0, <1>2, LogStep DEF MonitorAction
<1>3. ASSUME NEW m \in Monitors, NEW k \in {"obs", "proto"}, Publish(m, k) PROVE LogAndDisk'
  BY <1>0, <1>3, LogStep DEF Publish
<1>4. ASSUME NEW s \in Subs, NEW n \in Cursor, NEW p \in Policies, NEW f \in Filters,
             Subscribe(s, n, p, f)
      PROVE  LogAndDisk'
  BY <1>0, <1>4, <1>a, LogStep DEF Subscribe
<1>5. ASSUME NEW s \in Subs, NEW n \in Cursor, Ack(s, n) PROVE LogAndDisk'
  BY <1>0, <1>5, TablesStep DEF Ack
<1>6. ASSUME NEW s \in Subs, NEW n \in Named, Seek(s, n) PROVE LogAndDisk'
  BY <1>0, <1>6, <1>a, LogStep DEF Seek
<1>7. ASSUME NEW s \in Subs, RetireSub(s) PROVE LogAndDisk'
  BY <1>0, <1>7, <1>a, LogStep DEF RetireSub
<1>8. ASSUME NEW s \in Subs, NEW more \in BOOLEAN, Sweep(s, more) PROVE LogAndDisk'
  BY <1>0, <1>8, <1>a, LogStep DEF Sweep
<1>9. ASSUME NEW c \in Calls, NEW s \in Subs, PullStored(c, s) PROVE LogAndDisk'
  BY <1>9, QuietStep DEF PullStored
<1>10. ASSUME NEW c \in Calls, NEW s \in Subs, NEW n \in Named, PullReplay(c, s, n)
       PROVE  LogAndDisk'
  BY <1>10, QuietStep DEF PullReplay
<1>11. ASSUME NEW c \in Calls, NEW s \in Subs, PullReset(c, s) PROVE LogAndDisk'
  BY <1>0, <1>11, <1>a, LogStep DEF PullReset
<1>12. ASSUME NEW c \in Calls, MoveToReset(c) PROVE LogAndDisk'
  BY <1>0, <1>12, TablesStep DEF MoveToReset
<1>13. ASSUME NEW c \in Calls, Deliver(c) PROVE LogAndDisk'
  <2>1. LogUnchanged /\ UNCHANGED monitors
    BY <1>13 DEF Deliver
  <2>2. Persist \/ UNCHANGED <<subs, disk>>
    BY <1>13 DEF Deliver
  <2>3. CASE Persist
    BY <1>0, <2>1, <2>3, TablesStep
  <2>4. CASE UNCHANGED <<subs, disk>>
    BY <2>1, <2>4, QuietStep DEF LogUnchanged, storeVars
  <2> QED BY <2>2, <2>3, <2>4
<1>14. ASSUME NEW c \in Calls, Wait(c) \/ Timer(c) \/ AnswerEmpty(c) PROVE LogAndDisk'
  BY <1>14, QuietStep DEF Wait, Timer, AnswerEmpty
<1>15. ASSUME SweepEnds PROVE LogAndDisk'
  BY <1>15, QuietStep DEF SweepEnds
<1>16. ASSUME NEW u \in Named, Compact(u) PROVE LogAndDisk'
  <2>1. CompactUpTo(u) /\ u \in 0..MaxSeq
    BY <1>16 DEF Compact
  <2>2. LogInv'
    BY <1>0, <2>1, CompactLog
  <2> QED BY <2>1, <2>2 DEF CompactUpTo, Persist, LogAndDisk, DiskInv
<1>17. ASSUME Restart PROVE LogAndDisk'
  <2>1. LogInv'
    BY <1>0, <1>17, LoadLog DEF Restart
  <2>2. DiskInv'
    BY <1>0, <1>17 DEF Restart, Load, DiskInv, Snapshot
  <2> QED BY <2>1, <2>2 DEF LogAndDisk
<1>18. ASSUME UNCHANGED vars PROVE LogAndDisk'
  BY <1>18, QuietStep DEF vars, storeVars
<1> QED BY <1>1, <1>2, <1>3, <1>4, <1>5, <1>6, <1>7, <1>8, <1>9, <1>10, <1>11, <1>12,
           <1>13, <1>14, <1>15, <1>16, <1>17, <1>18
        DEF Next, MonitorNext, SubNext, PullNext

(* The log is in order, its marks are right and the disk agrees, for any    *)
(* number of monitors and any length of the log, across compactions and     *)
(* restarts (store.ts).                                                     *)
THEOREM LogCorrect == Spec => []LogAndDisk
<1>1. Init => LogAndDisk
  BY LogAndDiskInit
<1>2. TypeOK /\ LogAndDisk /\ [Next]_vars => LogAndDisk'
  BY LogAndDiskNext
<1> QED BY <1>1, <1>2, TypeCorrect, PTL DEF Spec

(* Only a read sends a reply. *)
LEMMA RepliesComeFromReads ==
    ASSUME Next, reply'.sent
    PROVE  \E c \in Calls : Deliver(c) \/ AnswerEmpty(c)
<1>1. reply' # NoReply
  BY DEF NoReply
<1>2. ~MonitorNext
  BY <1>1 DEF MonitorNext, CreateMonitor, MonitorAction, Publish
<1>3. ~SubNext
  BY <1>1 DEF SubNext, Subscribe, Ack, Seek, RetireSub, Sweep
<1>4. ~SweepEnds /\ ~Restart /\ \A u \in Named : ~Compact(u)
  BY <1>1 DEF SweepEnds, Restart, Compact
<1>5. \E c \in Calls : Deliver(c) \/ AnswerEmpty(c)
  BY <1>1, <1>2, <1>3, <1>4
     DEF Next, PullNext, PullStored, PullReset, PullReplay, MoveToReset, Wait, Timer
<1> QED BY <1>5

(* P5: what a subscriber is told as head is the largest seq its monitor     *)
(* ever emitted (append, compact and load in store.ts).                     *)
THEOREM HeadCorrect == Spec => []HeadIsRealHead
<1>1. TypeOK /\ LogAndDisk => HeadIsRealHead
  <2> SUFFICES ASSUME TypeOK, LogAndDisk, NEW m \in Monitors
               PROVE  heads[m] = HighWater({0} \cup SeqsOf(m, history))
    BY DEF HeadIsRealHead
  <2> DEFINE S == {0} \cup SeqsOf(m, history)
  <2>1. S \in SUBSET Int /\ heads[m] \in S /\ heads[m] \in 0..MaxSeq
    BY MaxSeqAssumption DEF TypeOK, Row, SeqsOf, LogAndDisk, LogInv
  <2>2. \A y \in S : y <= heads[m]
    BY <2>1, MaxSeqAssumption DEF LogAndDisk, LogInv
  <2> HIDE DEF S
  <2>3. heads[m] = HighWater(S)
    BY <2>1, <2>2, HighWaterIs
  <2> QED BY <2>3 DEF S
<1> QED BY <1>1, LogCorrect, TypeCorrect, PTL

(* lostSince() tells a loss from none, exactly: neither a silent gap nor a  *)
(* false CURSOR_EXPIRED (lostSince, compact and load in store.ts).          *)
THEOREM LossCorrect == Spec => []LossIsKnown
<1>1. TypeOK /\ LogAndDisk => LossIsKnown
  <2> SUFFICES ASSUME TypeOK, LogAndDisk, NEW m \in Monitors, NEW n \in Cursor
               PROVE  dropped[m] >= n <=> \E r \in history \ rows : r.mon = m /\ r.seq >= n
    BY DEF LossIsKnown, LostSince
  <2>1. /\ dropped[m] \in {-1} \cup SeqsOf(m, history \ rows)
        /\ \A x \in SeqsOf(m, history \ rows) : x <= dropped[m]
        /\ dropped[m] \in Int /\ n \in Nat
        /\ \A r \in history : r.seq \in Int
    <3>1. dropped \in [Monitors -> (-1)..MaxSeq] /\ n \in Nat /\ history \subseteq Row
      BY MaxSeqAssumption DEF TypeOK, Cursor
    <3>2. \A r \in Row : r.seq \in Int
      BY MaxSeqAssumption DEF Row
    <3>3. /\ dropped[m] \in {-1} \cup SeqsOf(m, history \ rows)
          /\ \A x \in SeqsOf(m, history \ rows) : x <= dropped[m]
      BY DEF LogAndDisk, LogInv
    <3>4. dropped[m] \in Int /\ \A r \in history : r.seq \in Int
      <4>1. dropped[m] \in (-1)..MaxSeq
        BY <3>1
      <4> QED BY <3>1, <3>2, <4>1, MaxSeqAssumption
    <3> QED BY <3>1, <3>3, <3>4
  <2>2. ASSUME dropped[m] >= n PROVE \E r \in history \ rows : r.mon = m /\ r.seq >= n
    <3>1. dropped[m] \in SeqsOf(m, history \ rows)
      BY <2>1, <2>2
    <3> QED BY <2>2, <3>1 DEF SeqsOf
  <2>3. ASSUME NEW r \in history \ rows, r.mon = m, r.seq >= n PROVE dropped[m] >= n
    <3>1. r.seq \in SeqsOf(m, history \ rows)
      BY <2>3 DEF SeqsOf
    <3> QED BY <2>1, <2>3, <3>1
  <2> QED BY <2>2, <2>3
<1> QED BY <1>1, LogCorrect, TypeCorrect, PTL

-----------------------------------------------------------------------------
(***************************************************************************)
(* DELIVERY.  What a subscriber is promised, as long as a read can look    *)
(* at the whole log (ScanAll): the inductive invariant IInv, that nothing  *)
(* is passed over silently, and that replies are complete.  The run        *)
(* feed_scan_cap shows that ScanAll is needed.                             *)
(***************************************************************************)

(* A read is not cut short by the number of rows it may look at. *)
ScanAll == ScanCap >= MaxSeq

-----------------------------------------------------------------------------
(* What a step does to what is settled.                                     *)

(* The history grows at its end only. *)
Grows ==
    /\ history \subseteq history'
    /\ seq <= seq'
    /\ \A r \in history' \ history : r.seq > seq

(* Nothing that s has been accounted for is forgotten, and its filter stays. *)
Keeps(s) ==
    /\ accounted[s] \subseteq accounted'[s]
    /\ subs'[s].filter = subs[s].filter
    /\ subs[s].exists => subs'[s].exists

(* The types the lemmas below speak of, in both states. *)
LEMMA Numbers ==
    ASSUME TypeOK
    PROVE  /\ seq \in Nat /\ floor \in Nat
           /\ \A r \in history : r.seq \in Nat /\ r.seq \in 1..MaxSeq /\ r.mon \in Monitors
           /\ \A m \in Monitors : heads[m] \in Nat /\ dropped[m] \in Int
           /\ \A s \in Subs : /\ subs[s] \in SubRow
                              /\ subs[s].cursor \in Cursor
                              /\ subs[s].filter \in SUBSET Kinds
           /\ Cursor \subseteq Nat
<1> USE MaxSeqAssumption
<1>1. heads \in [Monitors -> 0..MaxSeq] /\ dropped \in [Monitors -> (-1)..MaxSeq]
  BY DEF TypeOK
<1>2. ASSUME NEW m \in Monitors PROVE heads[m] \in Nat /\ dropped[m] \in Int
  <2>1. heads[m] \in 0..MaxSeq /\ dropped[m] \in (-1)..MaxSeq
    BY <1>1
  <2> QED BY <2>1
<1>3. \A s \in Subs : subs[s] \in SubRow
  BY DEF TypeOK
<1>4. \A s \in Subs : subs[s].cursor \in Cursor /\ subs[s].filter \in SUBSET Kinds
  BY <1>3 DEF SubRow
<1> QED BY <1>2, <1>3, <1>4 DEF TypeOK, Row, Cursor

(* What is settled for s stays settled. *)
LEMMA SettledKept ==
    ASSUME TypeOK, TypeOK', Grows, NEW s \in Subs, Keeps(s)
    PROVE  \A n \in Cursor : Settled(s, n) => Settled(s, n)'
<1> SUFFICES ASSUME NEW n \in Cursor, Settled(s, n) PROVE Settled(s, n)'
  OBVIOUS
<1>1. /\ seq \in Nat /\ seq' \in Nat /\ n \in Nat
      /\ \A r \in history' : r.seq \in Nat
  BY Numbers, MaxSeqAssumption DEF TypeOK, Cursor, Row
<1>2. SUFFICES ASSUME NEW k \in 0..(n - 1), k \notin accounted'[s]
               PROVE  /\ k <= seq'
                      /\ \A r \in history' : r.seq = k =>
                            ~Matches(r, MonitorOf[s], subs'[s].filter)
  BY DEF Settled, Matches
<1>3. /\ k <= seq
      /\ \A r \in history : r.seq = k => ~Matches(r, MonitorOf[s], subs[s].filter)
  BY <1>2 DEF Settled, Keeps
<1>4. k <= seq'
  BY <1>1, <1>3 DEF Grows
<1>5. ASSUME NEW r \in history', r.seq = k
      PROVE  ~Matches(r, MonitorOf[s], subs'[s].filter)
  <2>1. r \in history
    BY <1>1, <1>3, <1>5 DEF Grows
  <2> QED BY <1>3, <1>5, <2>1 DEF Keeps
<1> QED BY <1>4, <1>5

(* What lies below a settled place is settled. *)
LEMMA SettledBelow ==
    ASSUME NEW s \in Subs, NEW n \in Nat, NEW k \in Nat, k <= n, Settled(s, n)
    PROVE  Settled(s, k)
BY DEF Settled

(* What a client was told of, or chose to pass over, is settled. *)
LEMMA SettledAll ==
    ASSUME NEW s \in Subs, NEW n \in Nat, 0..(n - 1) \subseteq accounted'[s]
    PROVE  Settled(s, n)'
BY DEF Settled

-----------------------------------------------------------------------------
(* What a read finds.                                                       *)

(* The log holds no more rows than it has seqs. *)
LEMMA RowsBounded ==
    ASSUME TypeOK, LogInv
    PROVE  IsFiniteSet(rows) /\ Cardinality(rows) <= MaxSeq
<1> DEFINE f == [r \in rows |-> r.seq]
<1>1. /\ \A r \in rows : r.seq \in 1..MaxSeq
      /\ \A r, q \in rows : r.seq = q.seq => r = q
  BY Numbers DEF LogInv
<1>2. f \in Injection(rows, 1..MaxSeq)
  BY <1>1 DEF Injection, IsInjective
<1>3. IsFiniteSet(1..MaxSeq) /\ Cardinality(1..MaxSeq) = MaxSeq
  BY FS_Interval, MaxSeqAssumption
<1> HIDE DEF f
<1> QED BY <1>2, <1>3, FS_Injection

(* A read looks at every row from its start on. *)
LEMMA ScansAll ==
    ASSUME TypeOK, LogInv, ScanAll, NEW n \in Nat, NEW W \in SUBSET rows,
           IsFirst(W, {r \in rows : r.seq >= n}, ScanCap)
    PROVE  W = {r \in rows : r.seq >= n}
<1> DEFINE D == {r \in rows : r.seq >= n}
<1>1. D \in SUBSET rows /\ W \in SUBSET D
  BY DEF IsFirst
<1>2. /\ IsFiniteSet(D) /\ Cardinality(D) <= Cardinality(rows)
      /\ IsFiniteSet(rows) /\ Cardinality(rows) <= MaxSeq
  BY <1>1, RowsBounded, FS_Subset
<1>3. /\ Cardinality(W) <= Cardinality(D)
      /\ Cardinality(D) = Cardinality(W) => D = W
  BY <1>1, <1>2, FS_Subset
<1>4. /\ Cardinality(D) \in Nat /\ Cardinality(rows) \in Nat
  BY <1>2, FS_CardinalityType
<1>5. W = D \/ Cardinality(W) = ScanCap
  BY DEF IsFirst
<1>6. CASE Cardinality(W) = ScanCap
  <2>1. ScanCap \in Nat /\ MaxSeq \in Nat /\ MaxSeq <= ScanCap
    BY FeedAssumption, MaxSeqAssumption DEF ScanAll
  <2> HIDE DEF D
  <2>2. Cardinality(D) = Cardinality(W)
    BY <1>2, <1>3, <1>4, <1>6, <2>1
  <2> QED BY <1>3, <2>2 DEF D
<1> QED BY <1>5, <1>6

(* A page is the first of what the pull is to find: what it leaves out      *)
(* comes after it, and an empty page means that there is nothing (read,     *)
(* core.ts).                                                                *)
LEMMA PageCovers ==
    ASSUME TypeOK, LogInv, ScanAll, NEW call \in Call, Wanted(call) \subseteq rows,
           NEW P \in SUBSET rows, IsPage(P, call)
    PROVE  /\ P \subseteq Wanted(call)
           /\ \A r \in Wanted(call) \ P : P # {} /\ \A p \in P : p.seq < r.seq
<1> DEFINE m == MonitorOf[call.sub]
           R == {r \in rows : r.seq >= call.start /\ Matches(r, m, call.filter)}
<1>1. call.start \in Nat
  BY MaxSeqAssumption DEF Call, Cursor
<1>2. PICK W \in SUBSET rows :
         /\ IsFirst(W, {r \in rows : r.seq >= call.start}, ScanCap)
         /\ IsFirst(P, {r \in W : Matches(r, m, call.filter)}, Limit)
  BY DEF IsPage
<1>3. W = {r \in rows : r.seq >= call.start}
  BY <1>1, <1>2, ScansAll
<1>4. {r \in W : Matches(r, m, call.filter)} = R
  BY <1>3
<1>5. IsFirst(P, R, Limit)
  BY <1>2, <1>4
<1>6. R = Wanted(call)
  BY DEF Wanted, LogInv
<1> HIDE DEF R
<1>7. P \subseteq Wanted(call)
  BY <1>5, <1>6 DEF IsFirst
<1>8. ASSUME NEW r \in Wanted(call) \ P PROVE P # {} /\ \A p \in P : p.seq < r.seq
  <2>1. P # R /\ Cardinality(P) = Limit
    BY <1>5, <1>6, <1>8 DEF IsFirst
  <2>2. P # {}
    BY <2>1, FS_EmptySet, FeedAssumption
  <2>3. ASSUME NEW p \in P PROVE p.seq < r.seq
    <3>1. r \in R /\ ~(r.seq < p.seq)
      BY <1>5, <1>6, <1>8 DEF IsFirst
    <3>2. r \in history /\ p \in history /\ p # r
      BY <1>8 DEF Wanted, LogInv
    <3>3. p.seq # r.seq /\ p.seq \in Nat /\ r.seq \in Nat
      BY <3>2, Numbers DEF LogInv
    <3> QED BY <3>1, <3>3
  <2> QED BY <2>2, <2>3
<1> QED BY <1>7, <1>8

-----------------------------------------------------------------------------
(* How the parts of the invariant carry over to the next state.             *)

(* A call, a page or a cursor named beforehand may stand for the one the    *)
(* step leaves.                                                             *)
LEMMA CallInvNext ==
    ASSUME TypeOK', \A c \in Calls : \A w \in Call : w = calls'[c] => CallOK(w)'
    PROVE  CallInv'
<1> SUFFICES ASSUME NEW c \in Calls, calls'[c] # NoCall PROVE CallOK(calls[c])'
  BY DEF CallInv
<1>1. calls'[c] \in Call
  BY DEF TypeOK
<1>2. PICK w \in Call : w = calls'[c]
  BY <1>1
<1>3. CallOK(w)'
  BY <1>2
<1> QED BY <1>2, <1>3 DEF CallOK, Wanted, Settled

(* The same of the cursor a step leaves. *)
LEMMA SubInvNext ==
    ASSUME TypeOK',
           \A s \in Subs : \A n \in Cursor :
               subs'[s].exists /\ n = subs'[s].cursor => Settled(s, n)'
    PROVE  SubInv'
<1> SUFFICES ASSUME NEW s \in Subs, subs'[s].exists PROVE Settled(s, subs[s].cursor)'
  BY DEF SubInv
<1>1. subs'[s].cursor \in Cursor
  BY DEF TypeOK, SubRow
<1>2. PICK n \in Cursor : n = subs'[s].cursor
  BY <1>1
<1>3. Settled(s, n)'
  BY <1>2
<1> QED BY <1>2, <1>3 DEF Settled

(* A row that is appended is the newest there is, and is in the log. *)
LEMMA AppendGrows ==
    ASSUME TypeOK, NEW m \in Monitors, NEW k \in {"obs", "proto"}, Append(m, k)
    PROVE  /\ Grows
           /\ rows \subseteq rows'
           /\ history' \ history \subseteq rows'
<1>1. seq \in Nat
  BY Numbers
<1>2. /\ history' = history \cup {[seq |-> seq + 1, mon |-> m, kind |-> k]}
      /\ rows' = rows \cup {[seq |-> seq + 1, mon |-> m, kind |-> k]}
      /\ seq' = seq + 1
  BY DEF Append
<1> QED BY <1>1, <1>2 DEF Grows

(* The pull that w is after the append has woken it. *)
Awake(w, call) ==
    \/ w = call /\ call.at # "waiting"
    \/ w = [call EXCEPT !.at = "reading"] /\ call.at = "waiting"

(* An append wakes the waiting pulls; what they were to find is in the log. *)
LEMMA LoggedCall ==
    ASSUME TypeOK, TypeOK', Grows, rows \subseteq rows', history' \ history \subseteq rows',
           NEW call \in Call, CallOK(call), Keeps(call.sub), NEW w \in Call, Awake(w, call)
    PROVE  CallOK(w)'
<1>1. /\ w.sub = call.sub /\ w.start = call.start /\ w.filter = call.filter
      /\ w.live = call.live /\ w.replay = call.replay
      /\ w.at # "waiting"
      /\ w.at # "resetting" => call.at # "resetting"
  BY DEF Awake, Call
<1>2. Wanted(call) \subseteq rows
  BY DEF CallOK
<1>3. Wanted(w)' \subseteq rows'
  BY <1>1, <1>2 DEF Wanted, Matches
<1>4. ASSUME w.live, ~w.replay
      PROVE  /\ subs'[w.sub].exists
             /\ w.filter = subs'[w.sub].filter
             /\ w.at # "resetting" => Settled(w.sub, w.start)'
  <2>1. /\ subs[call.sub].exists /\ call.filter = subs[call.sub].filter
        /\ call.at # "resetting" => Settled(call.sub, call.start)
    BY <1>1, <1>4 DEF CallOK
  <2>2. call.sub \in Subs /\ call.start \in Cursor
    BY DEF Call
  <2>3. Settled(call.sub, call.start) => Settled(call.sub, call.start)'
    BY <2>2, SettledKept
  <2>4. Settled(call.sub, call.start)' => Settled(w.sub, w.start)'
    BY <1>1 DEF Settled
  <2> QED BY <1>1, <2>1, <2>3, <2>4 DEF Keeps
<1> QED BY <1>1, <1>3, <1>4 DEF CallOK

(* A pull that a step leaves alone still finds what it is to find, unless   *)
(* rows go while it does not wait.                                          *)
LEMMA StillCall ==
    ASSUME TypeOK, TypeOK', history' = history, seq' = seq, NEW call \in Call,
           CallOK(call), Keeps(call.sub), call.at = "waiting" \/ rows \subseteq rows'
    PROVE  CallOK(call)'
<1>1. Wanted(call)' = Wanted(call)
  BY DEF Wanted, Matches
<1>2. Grows
  BY Numbers DEF Grows
<1>3. call.sub \in Subs /\ call.start \in Cursor
  BY DEF Call
<1>4. Settled(call.sub, call.start) => Settled(call.sub, call.start)'
  BY <1>2, <1>3, SettledKept
<1> QED BY <1>1, <1>4 DEF CallOK, Keeps

(* The wake-up, call by call. *)
LEMMA WokenIsAwake ==
    ASSUME TypeOK, NEW c \in Calls, NEW w \in Call, w = Woken[c]
    PROVE  calls[c] \in Call /\ Awake(w, calls[c])
<1>1. calls[c] \in Call \cup {NoCall}
  BY DEF TypeOK
<1>2. w.at \in {"resetting", "reading", "waiting"}
  BY DEF Call
<1>3. Woken[c] = IF calls[c].at = "waiting" THEN [calls[c] EXCEPT !.at = "reading"]
                                            ELSE calls[c]
  BY DEF Woken
<1>4. calls[c] # NoCall
  <2> SUFFICES ASSUME calls[c] = NoCall PROVE FALSE
    OBVIOUS
  <2>1. calls[c].at = "free"
    BY DEF NoCall
  <2> QED BY <1>2, <1>3, <2>1
<1> QED BY <1>1, <1>3, <1>4 DEF Awake

-----------------------------------------------------------------------------
(* Kinds of steps.                                                          *)

(* A handler that logs, wakes the pulls and forgets nothing; a cursor it    *)
(* moves goes where all is accounted for.                                   *)
LEMMA LoggedStep ==
    ASSUME TypeOK, TypeOK', IInv, NEW m \in Monitors, NEW k \in {"obs", "proto"}, Log(m, k),
           calls' = Woken, pages' = pages,
           \A s \in Subs :
               /\ Keeps(s)
               /\ subs'[s].exists =>
                     \/ subs[s].exists /\ subs'[s].cursor = subs[s].cursor
                     \/ 0..(subs'[s].cursor - 1) \subseteq accounted'[s]
    PROVE  IInv'
<1>1. LogAndDisk'
  BY LogStep DEF IInv
<1>2. Grows /\ rows \subseteq rows' /\ history' \ history \subseteq rows'
  BY AppendGrows DEF Log
<1>3. SubInv'
  <2>1. ASSUME NEW s \in Subs, NEW n \in Cursor, subs'[s].exists, n = subs'[s].cursor
        PROVE  Settled(s, n)'
    <3>1. CASE subs[s].exists /\ subs'[s].cursor = subs[s].cursor
      <4>1. Settled(s, n)
        BY <2>1, <3>1 DEF IInv, SubInv
      <4> QED BY <1>2, <4>1, SettledKept
    <3>2. CASE 0..(subs'[s].cursor - 1) \subseteq accounted'[s]
      BY <2>1, <3>2, SettledAll, Numbers
    <3> QED BY <2>1, <3>1, <3>2
  <2> QED BY <2>1, SubInvNext
<1>4. PageInv'
  <2> SUFFICES ASSUME NEW p \in pages' PROVE subs'[p.sub].exists /\ Settled(p.sub, p.next)'
    BY DEF PageInv
  <2>1. p.sub \in Subs /\ p.next \in Cursor
    BY DEF TypeOK
  <2>2. subs[p.sub].exists /\ Settled(p.sub, p.next)
    BY DEF IInv, PageInv
  <2> QED BY <1>2, <2>1, <2>2, SettledKept DEF Keeps
<1>5. CallInv'
  <2>1. ASSUME NEW c \in Calls, NEW w \in Call, w = calls'[c] PROVE CallOK(w)'
    <3>1. calls[c] \in Call /\ Awake(w, calls[c])
      BY <2>1, WokenIsAwake
    <3>2. PICK call \in Call : call = calls[c]
      BY <3>1
    <3>3. calls[c] # NoCall
      BY <3>1 DEF Call, NoCall
    <3>4. CallOK(call) /\ Awake(w, call) /\ call.sub \in Subs
      BY <3>1, <3>2, <3>3 DEF IInv, CallInv, Call
    <3> QED BY <1>2, <3>4, LoggedCall
  <2> QED BY <2>1, CallInvNext
<1> QED BY <1>1, <1>3, <1>4, <1>5 DEF IInv, LogAndDisk

(* A step that leaves the log and the subscriptions' cursors alone, and all *)
(* pulls but c.                                                             *)
LEMMA StillStep ==
    ASSUME TypeOK, TypeOK', IInv, LogAndDisk', history' = history, seq' = seq,
           \A c \in Calls : calls[c] # NoCall => calls[c].at = "waiting" \/ rows \subseteq rows',
           \A s \in Subs :
               /\ Keeps(s)
               /\ subs'[s].exists =>
                     subs[s].exists /\ (\/ subs'[s].cursor = subs[s].cursor
                                        \/ Settled(s, subs[s].cursor)'
                                        \/ 0..(subs'[s].cursor - 1) \subseteq accounted'[s]),
           \A p \in pages' \ pages : subs'[p.sub].exists /\ Settled(p.sub, p.next)',
           \A c \in Calls : \A w \in Call :
               w = calls'[c] => calls'[c] = calls[c] \/ CallOK(w)'
    PROVE  IInv'
<1>1. Grows
  BY Numbers DEF Grows
<1>2. SubInv'
  <2>1. ASSUME NEW s \in Subs, NEW n \in Cursor, subs'[s].exists, n = subs'[s].cursor
        PROVE  Settled(s, n)'
    <3>1. CASE subs'[s].cursor = subs[s].cursor
      <4>1. Settled(s, n)
        BY <2>1, <3>1 DEF IInv, SubInv
      <4> QED BY <1>1, <4>1, SettledKept
    <3>2. CASE Settled(s, subs[s].cursor)'
      BY <2>1, <3>2 DEF Settled
    <3>3. CASE 0..(subs'[s].cursor - 1) \subseteq accounted'[s]
      BY <2>1, <3>3, SettledAll, Numbers
    <3> QED BY <2>1, <3>1, <3>2, <3>3
  <2> QED BY <2>1, SubInvNext
<1>3. PageInv'
  <2> SUFFICES ASSUME NEW p \in pages' PROVE subs'[p.sub].exists /\ Settled(p.sub, p.next)'
    BY DEF PageInv
  <2>1. p.sub \in Subs /\ p.next \in Cursor
    BY DEF TypeOK
  <2>2. CASE p \in pages
    <3>1. subs[p.sub].exists /\ Settled(p.sub, p.next)
      BY <2>2 DEF IInv, PageInv
    <3> QED BY <1>1, <2>1, <3>1, SettledKept DEF Keeps
  <2> QED BY <2>2
<1>4. CallInv'
  <2>1. ASSUME NEW c \in Calls, NEW w \in Call, w = calls'[c] PROVE CallOK(w)'
    <3>1. CASE calls'[c] = calls[c]
      <4>1. calls[c] # NoCall /\ w = calls[c]
        BY <2>1, <3>1 DEF Call, NoCall
      <4>2. CallOK(w) /\ w.sub \in Subs /\ (w.at = "waiting" \/ rows \subseteq rows')
        BY <4>1 DEF IInv, CallInv, Call
      <4> QED BY <4>2, StillCall
    <3> QED BY <2>1, <3>1
  <2> QED BY <2>1, CallInvNext
<1> QED BY <1>2, <1>3, <1>4 DEF IInv, LogAndDisk

-----------------------------------------------------------------------------
(* The actions that need more than that.                                    *)

(* When a handler starts, every pull in progress waits. *)
LEMMA IdleWaits ==
    ASSUME TypeOK, ~Busy, NEW c \in Calls, calls[c] # NoCall
    PROVE  calls[c] \in Call /\ calls[c].at = "waiting"
BY DEF TypeOK, Busy, Call

(* subscribe: the new filter meets a cursor below which all is accounted    *)
(* for, and neither a reply nor a pull of the old token.                    *)
LEMMA SubscribeStep ==
    ASSUME TypeOK, TypeOK', IInv, NEW s \in Subs, NEW n \in Cursor, NEW p \in Policies,
           NEW f \in Filters, Subscribe(s, n, p, f)
    PROVE  IInv'
<1> USE FeedAssumption
<1>1. Log(MonitorOf[s], "proto") /\ MonitorOf[s] \in Monitors
  BY DEF Subscribe
<1>2. LogAndDisk'
  BY <1>1, LogStep DEF IInv
<1>3. Grows /\ rows \subseteq rows' /\ history' \ history \subseteq rows'
  BY <1>1, AppendGrows DEF Log
<1>4. \A t \in Subs \ {s} : Keeps(t) /\ subs'[t] = subs[t]
  BY DEF Subscribe, Keeps, TypeOK
<1>5. subs'[s].cursor = n /\ 0..(n - 1) \subseteq accounted'[s]
  BY DEF Subscribe, TypeOK
<1>6. SubInv'
  <2>1. ASSUME NEW t \in Subs, NEW k \in Cursor, subs'[t].exists, k = subs'[t].cursor
        PROVE  Settled(t, k)'
    <3>1. CASE t = s
      BY <1>5, <2>1, <3>1, SettledAll, Numbers
    <3>2. CASE t # s
      <4>1. Settled(t, k)
        BY <1>4, <2>1, <3>2 DEF IInv, SubInv
      <4> QED BY <1>3, <1>4, <3>2, <4>1, SettledKept
    <3> QED BY <3>1, <3>2
  <2> QED BY <2>1, SubInvNext
<1>7. PageInv'
  <2> SUFFICES ASSUME NEW q \in pages' PROVE subs'[q.sub].exists /\ Settled(q.sub, q.next)'
    BY DEF PageInv
  <2>1. q \in pages /\ q.sub # s
    BY DEF Subscribe, Rekey
  <2>2. q.sub \in Subs /\ q.next \in Cursor
    BY <2>1 DEF TypeOK
  <2>3. subs[q.sub].exists /\ Settled(q.sub, q.next)
    BY <2>1 DEF IInv, PageInv
  <2> QED BY <1>3, <1>4, <2>1, <2>2, <2>3, SettledKept
<1>8. CallInv'
  <2>1. ASSUME NEW c \in Calls, NEW w \in Call, w = calls'[c] PROVE CallOK(w)'
    <3>1. calls'[c] = IF calls[c] # NoCall /\ calls[c].sub = s
                      THEN [Woken[c] EXCEPT !.live = FALSE] ELSE Woken[c]
      BY DEF Subscribe, Rekey
    <3>2. calls[c] # NoCall
      BY <2>1, <3>1 DEF Woken, Call, NoCall
    <3>3. calls[c] \in Call /\ calls[c].at = "waiting"
      BY <3>2, IdleWaits DEF Subscribe
    <3>4. PICK call \in Call : call = calls[c]
      BY <3>3
    <3>5. CallOK(call) /\ call.at = "waiting"
      BY <3>2, <3>3, <3>4 DEF IInv, CallInv
    <3>6. Woken[c] = [call EXCEPT !.at = "reading"]
      BY <3>3, <3>4 DEF Woken
    <3>7. CASE call.sub = s
      <4>1. w = [[call EXCEPT !.at = "reading"] EXCEPT !.live = FALSE]
        BY <2>1, <3>1, <3>2, <3>4, <3>6, <3>7
      <4>2. /\ w.sub = call.sub /\ w.start = call.start /\ w.filter = call.filter
            /\ w.at = "reading" /\ w.live = FALSE
        BY <4>1 DEF Call
      <4>3. Wanted(call) = {}
        BY <3>5 DEF CallOK
      <4>4. Wanted(w)' \subseteq rows'
        BY <1>3, <4>2, <4>3 DEF Wanted, Matches
      <4> QED BY <4>2, <4>4 DEF CallOK
    <3>8. CASE call.sub # s
      <4>1. Awake(w, call)
        BY <2>1, <3>1, <3>4, <3>5, <3>6, <3>8 DEF Awake
      <4>2. call.sub \in Subs
        BY DEF Call
      <4> QED BY <1>3, <1>4, <3>5, <3>8, <4>1, <4>2, LoggedCall
    <3> QED BY <3>7, <3>8
  <2> QED BY <2>1, CallInvNext
<1> QED BY <1>2, <1>6, <1>7, <1>8 DEF IInv, LogAndDisk

(* A row of its monitor that is gone lies below the cursor of a             *)
(* subscription that lost nothing, and below the floor (lostSince and       *)
(* retentionFloor, store.ts).                                               *)
LEMMA NotLost ==
    ASSUME TypeOK, LogInv, NEW m \in Monitors, NEW n \in Nat, ~LostSince(m, n)
    PROVE  \A r \in history : r.mon = m /\ r.seq >= n => r \in rows
<1> SUFFICES ASSUME NEW r \in history, r.mon = m, r.seq >= n, r \notin rows PROVE FALSE
  OBVIOUS
<1>1. r.seq \in SeqsOf(m, history \ rows)
  BY DEF SeqsOf
<1>2. r.seq <= dropped[m]
  BY <1>1 DEF LogInv
<1> QED BY <1>2, Numbers DEF LostSince

(* Nothing is gone from a place that is not below the floor on. *)
LEMMA NotBelowFloor ==
    ASSUME TypeOK, LogInv, NEW n \in Nat, ~BelowFloor(n)
    PROVE  \A r \in history : r.seq >= n => r \in rows
<1> SUFFICES ASSUME NEW r \in history, r.seq >= n, r \notin rows PROVE FALSE
  OBVIOUS
<1>1. r.seq < floor /\ r.seq \in Nat /\ floor \in Nat
  BY Numbers DEF LogInv
<1> QED BY <1>1 DEF BelowFloor

(* A pull that starts: what it is to find is in the log, and below its      *)
(* start all is settled, unless it replays.                                 *)
LEMMA PullStart ==
    ASSUME TypeOK, TypeOK', IInv, UNCHANGED storeVars, UNCHANGED <<pages, accounted>>,
           NEW c \in Calls, NEW s \in Subs, NEW n \in Cursor, NEW replay \in BOOLEAN,
           subs[s].exists,
           calls' = [calls EXCEPT ![c] =
               [at |-> "reading", sub |-> s, start |-> n, filter |-> subs[s].filter,
                replay |-> replay, live |-> TRUE]],
           \A r \in history : r.mon = MonitorOf[s] /\ r.seq >= n => r \in rows,
           ~replay => Settled(s, n)
    PROVE  IInv'
<1>1. LogAndDisk'
  BY QuietStep DEF IInv, LogAndDisk
<1>2. history' = history /\ seq' = seq /\ rows' = rows /\ subs' = subs
  BY DEF storeVars
<1>3. \A t \in Subs : Keeps(t)
  BY <1>2 DEF Keeps
<1>4. Grows
  BY <1>2, Numbers DEF Grows
<1>5. ASSUME NEW d \in Calls, NEW w \in Call, w = calls'[d], calls'[d] # calls[d]
      PROVE  CallOK(w)'
  <2>1. d = c
    BY <1>5 DEF TypeOK
  <2>2. /\ w.at = "reading" /\ w.sub = s /\ w.start = n
        /\ w.filter = subs[s].filter /\ w.replay = replay
    BY <1>5, <2>1 DEF TypeOK
  <2>3. Wanted(w)' \subseteq rows'
    BY <1>2, <2>2 DEF Wanted, Matches
  <2>4. ~replay => Settled(s, n)'
    BY <1>3, <1>4, SettledKept
  <2>5. ~w.replay => Settled(w.sub, w.start)'
    BY <2>2, <2>4 DEF Settled
  <2> QED BY <1>2, <2>2, <2>3, <2>5 DEF CallOK
<1> QED BY <1>1, <1>2, <1>3, <1>5, StillStep

(* A pull that is reset: from the new start on nothing is lost, be it the   *)
(* floor or past the head; the row that logs the reset is new (pull,        *)
(* core.ts).                                                                *)
LEMMA ResetStep ==
    ASSUME TypeOK, TypeOK', IInv, NEW c \in Calls, NEW s \in Subs, PullReset(c, s)
    PROVE  IInv'
<1> USE FeedAssumption
<1> DEFINE m == MonitorOf[s]
           to == IF subs[s].policy = "latest" THEN heads[m] + 1 ELSE floor
<1>1. Log(m, "proto") /\ m \in Monitors
  BY DEF PullReset
<1>2. LogAndDisk'
  BY <1>1, LogStep DEF IInv
<1>3. Grows /\ rows \subseteq rows' /\ history' \ history \subseteq rows'
  BY <1>1, AppendGrows DEF Log
<1>4. /\ subs' = subs /\ pages' = pages /\ accounted' = accounted
      /\ ~Busy /\ subs[s].exists
      /\ calls' = [Woken EXCEPT ![c] =
              [at |-> "resetting", sub |-> s, start |-> to,
               filter |-> subs[s].filter, replay |-> FALSE, live |-> TRUE]]
  BY DEF PullReset, ClientsUnchanged, Live
<1>5. \A t \in Subs : Keeps(t)
  BY <1>4 DEF Keeps
<1>6. SubInv'
  <2>1. ASSUME NEW t \in Subs, NEW k \in Cursor, subs'[t].exists, k = subs'[t].cursor
        PROVE  Settled(t, k)'
    <3>1. Settled(t, k)
      BY <1>4, <2>1 DEF IInv, SubInv
    <3> QED BY <1>3, <1>5, <3>1, SettledKept
  <2> QED BY <2>1, SubInvNext
<1>7. PageInv'
  <2> SUFFICES ASSUME NEW q \in pages' PROVE subs'[q.sub].exists /\ Settled(q.sub, q.next)'
    BY DEF PageInv
  <2>1. q \in pages /\ q.sub \in Subs /\ q.next \in Cursor
    BY <1>4 DEF TypeOK
  <2>2. subs[q.sub].exists /\ Settled(q.sub, q.next)
    BY <2>1 DEF IInv, PageInv
  <2> QED BY <1>3, <1>4, <1>5, <2>1, <2>2, SettledKept
<1>8. ASSUME NEW r \in history, r.mon = m, r.seq >= to PROVE r \in rows
  <2>1. /\ r.seq \in Nat /\ floor \in Nat /\ heads[m] \in Nat
        /\ r \notin rows => r.seq < floor
        /\ r.seq \in SeqsOf(m, history)
    BY <1>1, <1>8, Numbers DEF IInv, LogInv, SeqsOf
  <2>2. r.seq <= heads[m]
    BY <1>1, <2>1 DEF IInv, LogInv
  <2> QED BY <1>8, <2>1, <2>2
<1>9. CallInv'
  <2>1. ASSUME NEW d \in Calls, NEW w \in Call, w = calls'[d] PROVE CallOK(w)'
    <3>1. CASE d = c
      <4>1. /\ w.at = "resetting" /\ w.sub = s /\ w.start = to
            /\ w.filter = subs[s].filter
        BY <1>4, <2>1, <3>1 DEF Woken
      <4>2. Wanted(w)' \subseteq rows'
        <5> SUFFICES ASSUME NEW r \in history', Matches(r, MonitorOf[w.sub], w.filter),
                            r.seq >= w.start
                     PROVE  r \in rows'
          BY DEF Wanted, Matches
        <5>1. r.mon = m /\ r.seq >= to
          BY <4>1 DEF Matches
        <5> HIDE DEF m, to
        <5> QED BY <1>3, <1>8, <5>1
      <4> QED BY <1>4, <4>1, <4>2 DEF CallOK
    <3>2. CASE d # c
      <4>1. w = Woken[d]
        BY <1>4, <2>1, <3>2 DEF Woken
      <4>2. calls[d] \in Call /\ Awake(w, calls[d])
        BY <4>1, WokenIsAwake
      <4>3. PICK call \in Call : call = calls[d]
        BY <4>2
      <4>4. calls[d] # NoCall
        BY <4>2 DEF Call, NoCall
      <4>5. CallOK(call) /\ Awake(w, call) /\ call.sub \in Subs
        BY <4>2, <4>3, <4>4 DEF IInv, CallInv, Call
      <4> QED BY <1>3, <1>5, <4>5, LoggedCall
    <3> QED BY <3>1, <3>2
  <2> QED BY <2>1, CallInvNext
<1> QED BY <1>2, <1>6, <1>7, <1>9 DEF IInv, LogAndDisk

(* The cursor moves to where the reset was told to go. *)
LEMMA MoveStep ==
    ASSUME TypeOK, TypeOK', IInv, NEW c \in Calls, MoveToReset(c)
    PROVE  IInv'
<1>1. calls[c] \in Call /\ calls[c].at = "resetting"
  <2>1. calls[c].at # "free"
    BY DEF MoveToReset
  <2> QED BY <2>1 DEF MoveToReset, TypeOK, NoCall
<1>2. PICK call \in Call : call = calls[c]
  BY <1>1
<1>3. call.sub \in Subs /\ call.start \in Cursor /\ call.at = "resetting"
  BY <1>1, <1>2 DEF Call
<1>4. /\ LogUnchanged /\ Persist /\ UNCHANGED <<monitors, pages>>
      /\ subs' = [subs EXCEPT ![call.sub].cursor = call.start]
      /\ accounted' = [accounted EXCEPT ![call.sub] = @ \cup 0..(call.start - 1)]
      /\ calls' = [calls EXCEPT ![c].at = "reading"]
  BY <1>2 DEF MoveToReset
<1>5. LogAndDisk'
  BY <1>4, TablesStep DEF IInv
<1>6. history' = history /\ seq' = seq /\ rows' = rows
  BY <1>4 DEF LogUnchanged
<1>7. subs \in [Subs -> SubRow] /\ accounted \in [Subs -> SUBSET (0..MaxSeq)]
      /\ calls \in [Calls -> Call \cup {NoCall}]
  BY DEF TypeOK
<1>8. \A t \in Subs : Keeps(t) /\ subs'[t].exists = subs[t].exists
  BY <1>3, <1>4, <1>7 DEF Keeps, SubRow
<1>9. ASSUME NEW t \in Subs, subs'[t].exists
      PROVE  \/ subs'[t].cursor = subs[t].cursor
             \/ 0..(subs'[t].cursor - 1) \subseteq accounted'[t]
  BY <1>3, <1>4, <1>7 DEF SubRow
<1>10. ASSUME NEW d \in Calls, NEW w \in Call, w = calls'[d], calls'[d] # calls[d]
       PROVE  CallOK(w)'
  <2>1. d = c
    BY <1>4, <1>7, <1>10
  <2>2. w = [call EXCEPT !.at = "reading"]
    BY <1>2, <1>4, <1>7, <1>10, <2>1
  <2>3. /\ w.at = "reading" /\ w.sub = call.sub /\ w.start = call.start
        /\ w.filter = call.filter /\ w.replay = call.replay /\ w.live = call.live
    BY <2>2 DEF Call
  <2>4. CallOK(call)
    BY <1>1, <1>2 DEF IInv, CallInv, Call, NoCall
  <2>5. Wanted(w)' \subseteq rows'
    BY <1>3, <1>6, <2>3, <2>4 DEF CallOK, Wanted, Matches
  <2>6. 0..(call.start - 1) \subseteq accounted'[call.sub]
    BY <1>3, <1>4, <1>7
  <2>7. Settled(call.sub, call.start)'
    BY <1>3, <2>6, SettledAll, Numbers
  <2>8. Settled(w.sub, w.start)'
    BY <2>3, <2>7 DEF Settled
  <2>9. w.live /\ ~w.replay => subs[call.sub].exists /\ call.filter = subs[call.sub].filter
    BY <2>3, <2>4 DEF CallOK
  <2> QED BY <1>3, <1>8, <2>3, <2>5, <2>8, <2>9 DEF CallOK, Keeps
<1> QED BY <1>4, <1>5, <1>6, <1>8, <1>9, <1>10, StillStep

(* A reply that holds what its pull was to find up to `next`: acknowledging *)
(* it passes over nothing.                                                  *)
LEMMA AnswerStep ==
    ASSUME TypeOK, TypeOK', IInv, LogAndDisk', LogUnchanged,
           NEW c \in Calls, NEW call \in Call, call = calls[c], call.at = "reading",
           NEW next \in Cursor, NEW seqs \in SUBSET (1..MaxSeq), NEW marked,
           Answer(c, next, seqs, marked),
           \A s \in Subs : /\ subs'[s].exists = subs[s].exists
                           /\ subs'[s].cursor = subs[s].cursor
                           /\ subs'[s].filter = subs[s].filter,
           next <= seq + 1,
           \A r \in Wanted(call) : r.seq < next => r.seq \in seqs
    PROVE  IInv'
<1>1. history' = history /\ seq' = seq /\ rows' = rows
  BY DEF LogUnchanged
<1>2. call.sub \in Subs /\ call.start \in Cursor
  BY DEF Call
<1>3. /\ calls' = [calls EXCEPT ![c] = NoCall]
      /\ \/ /\ call.live /\ ~call.replay
            /\ pages' = pages \cup {[sub |-> call.sub, next |-> next]}
            /\ accounted' = [accounted EXCEPT ![call.sub] = @ \cup seqs]
         \/ UNCHANGED <<pages, accounted>>
  BY DEF Answer
<1>4. accounted \in [Subs -> SUBSET (0..MaxSeq)] /\ calls \in [Calls -> Call \cup {NoCall}]
  BY DEF TypeOK
<1>5. \A s \in Subs : Keeps(s)
  BY <1>2, <1>3, <1>4 DEF Keeps
<1>6. Grows
  BY <1>1, Numbers DEF Grows
<1>7. ASSUME NEW p \in pages' \ pages
      PROVE  subs'[p.sub].exists /\ Settled(p.sub, p.next)'
  <2>1. /\ call.live /\ ~call.replay /\ p = [sub |-> call.sub, next |-> next]
        /\ accounted' = [accounted EXCEPT ![call.sub] = @ \cup seqs]
    BY <1>3, <1>7
  <2>2. /\ subs[call.sub].exists /\ call.filter = subs[call.sub].filter
        /\ Settled(call.sub, call.start)
    BY <2>1 DEF IInv, CallInv, CallOK, Call, NoCall
  <2>3. Settled(call.sub, call.start)'
    BY <1>2, <1>5, <1>6, <2>2, SettledKept
  <2>4. seqs \subseteq accounted'[call.sub]
    BY <1>2, <1>4, <2>1
  <2>5. ASSUME NEW k \in 0..(next - 1)
        PROVE  \/ k \in accounted'[call.sub]
               \/ /\ k <= seq'
                  /\ \A r \in history' : r.seq = k =>
                        ~Matches(r, MonitorOf[call.sub], subs'[call.sub].filter)
    <3>1. next \in Nat /\ call.start \in Nat /\ seq \in Nat
      BY <1>2, Numbers
    <3>2. CASE k < call.start
      <4>1. k \in 0..(call.start - 1)
        BY <3>1, <3>2
      <4> QED BY <2>3, <4>1 DEF Settled, Matches
    <3>3. CASE k >= call.start
      <4>1. k <= seq /\ k < next
        BY <3>1
      <4>2. ASSUME NEW r \in history, r.seq = k,
                   Matches(r, MonitorOf[call.sub], subs[call.sub].filter)
            PROVE  k \in seqs
        <5>1. r \in Wanted(call)
          BY <2>2, <3>3, <4>2 DEF Wanted
        <5> QED BY <4>1, <4>2, <5>1
      <4> QED BY <1>1, <1>2, <2>4, <4>1, <4>2 DEF Matches
    <3> QED BY <3>1, <3>2, <3>3
  <2>6. Settled(call.sub, next)'
    BY <2>5 DEF Settled, Matches
  <2> QED BY <1>2, <2>1, <2>2, <2>6 DEF Settled
<1>8. ASSUME NEW d \in Calls, NEW w \in Call, w = calls'[d], calls'[d] # calls[d]
      PROVE  CallOK(w)'
  <2>1. w = NoCall
    BY <1>3, <1>4, <1>8
  <2> QED BY <2>1 DEF Call, NoCall
<1> QED BY <1>1, <1>5, <1>7, <1>8, StillStep

(* The next after a page lies within the log, one past the last row of it.  *)
LEMMA NextOfPage ==
    ASSUME TypeOK, LogInv, NEW P \in SUBSET rows, P # {}
    PROVE  LET seqs == {r.seq : r \in P}
           IN  /\ HighWater(seqs) \in seqs /\ \A k \in seqs : k <= HighWater(seqs)
               /\ HighWater(seqs) + 1 \in Cursor /\ HighWater(seqs) <= seq
               /\ seqs \in SUBSET (1..MaxSeq)
<1> DEFINE seqs == {r.seq : r \in P}
<1>1. /\ seqs \in SUBSET (1..MaxSeq) /\ seqs # {}
      /\ \A k \in seqs : k <= seq
      /\ seq \in Nat
  BY Numbers DEF LogInv
<1> HIDE DEF seqs
<1>2. seqs \in SUBSET Int /\ MaxSeq \in Int /\ \A k \in seqs : k <= MaxSeq
  BY <1>1, MaxSeqAssumption
<1>3. HighWater(seqs) \in seqs /\ \A k \in seqs : k <= HighWater(seqs)
  BY <1>1, <1>2, HighWaterExists
<1>4. HighWater(seqs) \in 1..MaxSeq /\ HighWater(seqs) <= seq
  BY <1>1, <1>3
<1>5. HighWater(seqs) + 1 \in Cursor
  BY <1>4, MaxSeqAssumption DEF Cursor
<1> QED BY <1>1, <1>3, <1>4, <1>5 DEF seqs

(* A pull that reads has found its place in the invariant. *)
LEMMA Reading ==
    ASSUME TypeOK, IInv, NEW c \in Calls, calls[c].at = "reading"
    PROVE  /\ calls[c] \in Call
           /\ CallOK(calls[c])
           /\ Wanted(calls[c]) \subseteq rows
<1>1. calls[c] # NoCall
  BY DEF NoCall
<1>2. calls[c] \in Call /\ CallOK(calls[c])
  BY <1>1 DEF TypeOK, IInv, CallInv
<1> QED BY <1>2 DEF CallOK

(* A page leaves out nothing before its `next`. *)
LEMMA PageAnswers ==
    ASSUME TypeOK, LogInv, ScanAll, NEW call \in Call, Wanted(call) \subseteq rows,
           NEW P \in SUBSET rows, P # {}, IsPage(P, call)
    PROVE  \A r \in Wanted(call) :
               r.seq < HighWater({p.seq : p \in P}) + 1 => r.seq \in {p.seq : p \in P}
<1> DEFINE seqs == {p.seq : p \in P}
<1>1. HighWater(seqs) \in seqs /\ seqs \in SUBSET (1..MaxSeq)
  BY NextOfPage
<1>2. \A r \in Wanted(call) \ P : \A p \in P : p.seq < r.seq
  BY PageCovers
<1>3. ASSUME NEW r \in Wanted(call), r.seq < HighWater(seqs) + 1 PROVE r.seq \in seqs
  <2>1. r.seq \in Nat /\ HighWater(seqs) \in Nat
    BY <1>1, Numbers, MaxSeqAssumption DEF Wanted
  <2>2. PICK p \in P : p.seq = HighWater(seqs)
    BY <1>1
  <2>3. ~(p.seq < r.seq)
    <3> HIDE DEF seqs
    <3> QED BY <1>3, <2>1, <2>2
  <2>4. r \in P
    BY <1>2, <2>3
  <2> QED BY <2>4
<1> QED BY <1>3

(* A page of observations is answered with the first of what there is. *)
LEMMA DeliverStep ==
    ASSUME TypeOK, TypeOK', IInv, LogAndDisk', ScanAll, NEW c \in Calls, Deliver(c)
    PROVE  IInv'
<1>1. calls[c].at = "reading" /\ LogUnchanged
  BY DEF Deliver, ReadDue
<1>2. PICK call \in Call : call = calls[c]
  BY <1>1, Reading
<1>3. PICK P \in SUBSET rows :
         /\ P # {} /\ IsPage(P, call)
         /\ \/ subs' = subs
            \/ subs' = [subs EXCEPT ![call.sub].deliveredMax =
                          HighWater({@} \cup {r.seq : r \in P})]
         /\ Answer(c, HighWater({r.seq : r \in P}) + 1, {r.seq : r \in P},
                   {q \in {r.seq : r \in P} : q <= subs[call.sub].deliveredMax})
  BY <1>2 DEF Deliver
<1> DEFINE seqs == {r.seq : r \in P}
           next == HighWater(seqs) + 1
           marked == {q \in seqs : q <= subs[call.sub].deliveredMax}
<1>4. /\ HighWater(seqs) \in seqs /\ \A k \in seqs : k <= HighWater(seqs)
      /\ next \in Cursor /\ HighWater(seqs) <= seq
      /\ seqs \in SUBSET (1..MaxSeq)
  BY <1>3, NextOfPage DEF IInv
<1>5. \A s \in Subs : /\ subs'[s].exists = subs[s].exists
                      /\ subs'[s].cursor = subs[s].cursor
                      /\ subs'[s].filter = subs[s].filter
  <2>1. subs \in [Subs -> SubRow] /\ call.sub \in Subs
    BY DEF TypeOK, Call
  <2> QED BY <1>3, <2>1 DEF SubRow
<1>6. Answer(c, next, seqs, marked)
  BY <1>3
<1>7. next <= seq + 1
  BY <1>4, Numbers, MaxSeqAssumption
<1>8. \A r \in Wanted(call) : r.seq < next => r.seq \in seqs
  BY <1>1, <1>2, <1>3, Reading, PageAnswers DEF IInv
<1> HIDE DEF seqs, next, marked
<1> QED BY <1>1, <1>2, <1>4, <1>5, <1>6, <1>7, <1>8, AnswerStep

(* An empty reply passes over nothing: there was nothing to find. *)
LEMMA AnswerEmptyStep ==
    ASSUME TypeOK, TypeOK', IInv, LogAndDisk', ScanAll, NEW c \in Calls, AnswerEmpty(c)
    PROVE  IInv'
<1> USE FeedAssumption
<1>1. calls[c].at = "reading" /\ UNCHANGED storeVars
  BY DEF AnswerEmpty, ReadDue
<1>2. PICK call \in Call : call = calls[c]
  BY <1>1, Reading
<1> DEFINE next == heads[MonitorOf[call.sub]] + 1
<1>3. IsPage({}, call) /\ Answer(c, next, {}, {})
  BY <1>2 DEF AnswerEmpty
<1>4. Wanted(call) = {}
  BY <1>1, <1>2, <1>3, Reading, PageCovers DEF IInv
<1>5. next \in Cursor /\ next <= seq + 1
  <2> DEFINE m == MonitorOf[call.sub]
  <2>1. m \in Monitors
    BY DEF Call
  <2> HIDE DEF m
  <2>2. heads[m] \in 0..MaxSeq /\ seq \in Nat
    BY <2>1, Numbers DEF TypeOK
  <2>3. heads[m] <= seq
    <3>1. heads[m] \in {0} \cup SeqsOf(m, history)
      BY <2>1 DEF IInv, LogInv
    <3>2. \A r \in history : r.seq <= seq
      BY DEF IInv, LogInv
    <3> QED BY <2>2, <3>1, <3>2 DEF SeqsOf
  <2> QED BY <2>2, <2>3, MaxSeqAssumption DEF Cursor, m
<1>6. LogUnchanged /\ subs' = subs
  BY <1>1 DEF storeVars, LogUnchanged
<1> HIDE DEF next
<1> QED BY <1>1, <1>2, <1>3, <1>4, <1>5, <1>6, AnswerStep

(* subAction ack: below the page that is acknowledged, and below the head,  *)
(* all is settled, wherever in between the cursor then stands.              *)
LEMMA AckStep ==
    ASSUME TypeOK, TypeOK', IInv, NEW s \in Subs, NEW n \in Cursor, Ack(s, n)
    PROVE  IInv'
<1> DEFINE top == heads[MonitorOf[s]] + 1
           to  == IF n < top THEN n ELSE top
<1>1. /\ LogUnchanged /\ Persist /\ calls' = calls /\ pages' = pages
      /\ accounted' = accounted
      /\ subs' = [subs EXCEPT ![s].cursor = to]
      /\ subs[s].exists
      /\ n = subs[s].cursor \/ [sub |-> s, next |-> n] \in pages
  BY DEF Ack, ClientsUnchanged, Live
<1>2. LogAndDisk'
  BY <1>1, TablesStep DEF IInv
<1>3. history' = history /\ seq' = seq /\ rows' = rows
  BY <1>1 DEF LogUnchanged
<1>4. Grows
  BY <1>3, Numbers DEF Grows
<1>5. n \in Nat /\ to \in Nat /\ to <= n
  <2>1. MonitorOf[s] \in Monitors
    BY FeedAssumption
  <2>2. n \in Nat /\ heads[MonitorOf[s]] \in Nat
    BY <2>1, Numbers
  <2> QED BY <2>2
<1>6. Settled(s, n)
  <2>1. CASE n = subs[s].cursor
    BY <1>1, <2>1 DEF IInv, SubInv, Settled
  <2>2. CASE [sub |-> s, next |-> n] \in pages
    <3>1. PICK p \in pages : p = [sub |-> s, next |-> n]
      BY <2>2
    <3>2. Settled(p.sub, p.next)
      BY DEF IInv, PageInv
    <3> QED BY <3>1, <3>2 DEF Settled
  <2> QED BY <1>1, <2>1, <2>2
<1> HIDE DEF to
<1>7. subs \in [Subs -> SubRow]
  BY DEF TypeOK
<1>8. \A t \in Subs : /\ Keeps(t) /\ subs'[t].exists = subs[t].exists
                      /\ t # s => subs'[t] = subs[t]
  BY <1>1, <1>7 DEF Keeps, SubRow
<1>9. subs'[s].cursor = to
  BY <1>1, <1>7 DEF SubRow
<1>10. Settled(s, n)'
  BY <1>4, <1>6, <1>8, SettledKept
<1>11. SubInv'
  <2>1. ASSUME NEW t \in Subs, NEW k \in Cursor, subs'[t].exists, k = subs'[t].cursor
        PROVE  Settled(t, k)'
    <3>1. CASE t = s
      <4>1. k \in Nat /\ k <= n
        BY <1>5, <1>9, <2>1, <3>1
      <4>2. Settled(s, k)'
        BY <1>5, <1>10, <4>1 DEF Settled
      <4> QED BY <3>1, <4>2
    <3>2. CASE t # s
      <4>1. Settled(t, k)
        BY <1>8, <2>1, <3>2 DEF IInv, SubInv
      <4> QED BY <1>4, <1>8, <4>1, SettledKept
    <3> QED BY <3>1, <3>2
  <2> QED BY <2>1, SubInvNext
<1>12. PageInv'
  <2> SUFFICES ASSUME NEW p \in pages' PROVE subs'[p.sub].exists /\ Settled(p.sub, p.next)'
    BY DEF PageInv
  <2>1. p.sub \in Subs /\ p.next \in Cursor
    BY DEF TypeOK
  <2>2. subs[p.sub].exists /\ Settled(p.sub, p.next)
    BY <1>1 DEF IInv, PageInv
  <2> QED BY <1>4, <1>8, <2>1, <2>2, SettledKept
<1>13. CallInv'
  <2>1. ASSUME NEW c \in Calls, NEW w \in Call, w = calls'[c] PROVE CallOK(w)'
    <3>1. calls[c] # NoCall /\ w = calls[c]
      BY <1>1, <2>1 DEF Call, NoCall
    <3>2. CallOK(w) /\ w.sub \in Subs
      BY <3>1 DEF IInv, CallInv, Call
    <3> QED BY <1>3, <1>8, <3>2, StillCall
  <2> QED BY <2>1, CallInvNext
<1> QED BY <1>2, <1>11, <1>12, <1>13 DEF IInv, LogAndDisk

(* A step in which neither the log grows nor a subscription or a client     *)
(* changes: each pull stays as it is, or its new place in the invariant is  *)
(* given, and rows go only while every pull waits.                          *)
LEMMA QuietClientStep ==
    ASSUME TypeOK, TypeOK', IInv, LogAndDisk', history' = history, seq' = seq,
           subs' = subs, pages' = pages, accounted' = accounted,
           \A c \in Calls : calls[c] # NoCall => calls[c].at = "waiting" \/ rows \subseteq rows',
           \A c \in Calls : \A w \in Call :
               w = calls'[c] => calls'[c] = calls[c] \/ CallOK(w)'
    PROVE  IInv'
<1>1. \A s \in Subs : Keeps(s)
  BY DEF Keeps
<1> QED BY <1>1, StillStep

(* A pull that finds nothing waits, and one whose timer fires reads again.  *)
LEMMA WaitStep ==
    ASSUME TypeOK, TypeOK', IInv, LogAndDisk', ScanAll, NEW c \in Calls,
           Wait(c) \/ Timer(c)
    PROVE  IInv'
<1>1. /\ UNCHANGED storeVars /\ pages' = pages /\ accounted' = accounted
      /\ \/ calls' = [calls EXCEPT ![c].at = "waiting"]
         \/ calls' = [calls EXCEPT ![c].at = "reading"]
      /\ calls[c].at \in {"reading", "waiting"}
  BY DEF Wait, Timer, ReadDue, ClientsUnchanged
<1>2. history' = history /\ seq' = seq /\ rows' = rows /\ subs' = subs
  BY <1>1 DEF storeVars
<1>3. calls[c] \in Call /\ CallOK(calls[c])
  <2>1. calls[c] # NoCall
    BY <1>1 DEF NoCall
  <2> QED BY <2>1 DEF TypeOK, IInv, CallInv
<1>4. PICK call \in Call : call = calls[c]
  BY <1>3
<1>5. Wanted(call) = {}
  <2>1. CASE Wait(c)
    <3>1. calls[c].at = "reading" /\ IsPage({}, call)
      BY <1>4, <2>1 DEF Wait, ReadDue
    <3>2. Wanted(call) \subseteq rows
      BY <1>4, <3>1, Reading
    <3> QED BY <3>1, <3>2, PageCovers DEF IInv
  <2>2. CASE Timer(c)
    BY <1>3, <1>4, <2>2 DEF Timer, CallOK
  <2> QED BY <2>1, <2>2
<1>6. \A s \in Subs : Keeps(s)
  BY <1>1, <1>2 DEF Keeps
<1>7. Grows
  BY <1>2, Numbers DEF Grows
<1>8. ASSUME NEW d \in Calls, NEW w \in Call, w = calls'[d], calls'[d] # calls[d]
      PROVE  CallOK(w)'
  <2>1. d = c
    BY <1>1, <1>8 DEF TypeOK
  <2>2. w = [call EXCEPT !.at = "waiting"] \/ w = [call EXCEPT !.at = "reading"]
    BY <1>1, <1>4, <1>8, <2>1 DEF TypeOK
  <2>3. /\ w.sub = call.sub /\ w.start = call.start /\ w.filter = call.filter
        /\ w.replay = call.replay /\ w.live = call.live
    BY <2>2 DEF Call
  <2>4. Wanted(w)' = {}
    BY <1>2, <1>5, <2>3 DEF Wanted, Matches
  <2>5. call.sub \in Subs /\ call.start \in Cursor
    BY DEF Call
  <2>6. ASSUME w.live, ~w.replay
        PROVE  /\ subs'[w.sub].exists /\ w.filter = subs'[w.sub].filter
               /\ Settled(w.sub, w.start)'
    <3>1. CallOK(call) /\ call.at # "resetting"
      BY <1>1, <1>3, <1>4
    <3>2. /\ subs[call.sub].exists /\ call.filter = subs[call.sub].filter
          /\ Settled(call.sub, call.start)
      BY <2>3, <2>6, <3>1 DEF CallOK
    <3>3. Settled(call.sub, call.start)'
      BY <1>6, <1>7, <2>5, <3>2, SettledKept
    <3> QED BY <1>2, <2>3, <3>2, <3>3 DEF Settled
  <2> QED BY <2>4, <2>6 DEF CallOK
<1> QED BY <1>1, <1>2, <1>8, QuietClientStep

(* compact takes rows from no pull: each that is in progress waits, and     *)
(* waits for rows yet to come.                                              *)
LEMMA CompactStep ==
    ASSUME TypeOK, TypeOK', IInv, LogAndDisk', NEW u, Compact(u)
    PROVE  IInv'
<1>1. /\ ~Busy /\ calls' = calls /\ pages' = pages /\ accounted' = accounted
      /\ history' = history /\ seq' = seq /\ subs' = subs
  BY DEF Compact, CompactUpTo, ClientsUnchanged
<1>2. \A c \in Calls : calls[c] # NoCall => calls[c].at = "waiting"
  BY <1>1, IdleWaits
<1> QED BY <1>1, <1>2, QuietClientStep

(* A restart ends every pull, and loads the subscriptions as they were.     *)
LEMMA RestartStep ==
    ASSUME TypeOK, TypeOK', IInv, LogAndDisk', Restart
    PROVE  IInv'
<1>1. /\ pages' = pages /\ accounted' = accounted /\ history' = history
      /\ seq' = seq /\ rows' = rows /\ subs' = subs
  BY DEF Restart, Load, ClientsUnchanged, IInv, DiskInv, Snapshot
<1>2. ASSUME NEW c \in Calls, NEW w \in Call, w = calls'[c] PROVE FALSE
  BY <1>2 DEF Restart, Call, NoCall
<1> QED BY <1>1, <1>2, QuietClientStep

-----------------------------------------------------------------------------
(* The invariant.                                                           *)

(* At the start nobody is subscribed and no pull is in progress. *)
LEMMA InvInit == Init => IInv
<1> SUFFICES ASSUME Init PROVE IInv
  OBVIOUS
<1>1. LogInv /\ DiskInv
  BY LogAndDiskInit DEF LogAndDisk
<1>2. SubInv /\ PageInv /\ CallInv
  BY DEF Init, NoSub, SubInv, PageInv, CallInv
<1> QED BY <1>1, <1>2 DEF IInv

(* Every handler keeps the invariant: one step per action (core.ts). *)
LEMMA InvNext == TypeOK /\ IInv /\ ScanAll /\ [Next]_vars => IInv'
<1> SUFFICES ASSUME TypeOK, IInv, ScanAll, [Next]_vars PROVE IInv'
  OBVIOUS
<1> USE FeedAssumption
<1>0. TypeOK' /\ LogAndDisk'
  BY TypeNext, LogAndDiskNext DEF IInv, LogAndDisk
<1>a. ASSUME NEW s \in Subs PROVE MonitorOf[s] \in Monitors
  OBVIOUS
<1>b. subs \in [Subs -> SubRow] /\ accounted \in [Subs -> SUBSET (0..MaxSeq)]
  BY DEF TypeOK
<1>c. ASSUME subs' = subs, accounted' = accounted
      PROVE  \A s \in Subs : /\ Keeps(s)
                             /\ subs'[s].exists => subs[s].exists /\ subs'[s].cursor = subs[s].cursor
  BY <1>c DEF Keeps
<1>1. ASSUME NEW m \in Monitors, CreateMonitor(m) PROVE IInv'
  BY <1>0, <1>1, <1>c, LoggedStep DEF CreateMonitor, ClientsUnchanged
<1>2. ASSUME NEW m \in Monitors, NEW a \in Actions, MonitorAction(m, a) PROVE IInv'
  BY <1>0, <1>2, <1>c, LoggedStep DEF MonitorAction, ClientsUnchanged
<1>3. ASSUME NEW m \in Monitors, NEW k \in {"obs", "proto"}, Publish(m, k) PROVE IInv'
  BY <1>0, <1>3, <1>c, LoggedStep DEF Publish, ClientsUnchanged
<1>4. ASSUME NEW s \in Subs, NEW n \in Cursor, NEW p \in Policies, NEW f \in Filters,
             Subscribe(s, n, p, f)
      PROVE  IInv'
  BY <1>0, <1>4, SubscribeStep
<1>5. ASSUME NEW s \in Subs, NEW n \in Cursor, Ack(s, n) PROVE IInv'
  BY <1>0, <1>5, AckStep
<1>6. ASSUME NEW s \in Subs, NEW n \in Named, Seek(s, n) PROVE IInv'
  <2> DEFINE top == heads[MonitorOf[s]] + 1
             to  == IF n < top THEN n ELSE top
  <2>1. /\ subs' = [subs EXCEPT ![s].cursor = to]
        /\ accounted' = [accounted EXCEPT ![s] = @ \cup 0..(to - 1)]
        /\ Log(MonitorOf[s], "proto") /\ calls' = Woken /\ pages' = pages
    BY <1>6 DEF Seek
  <2> HIDE DEF to
  <2>2. ASSUME NEW t \in Subs
        PROVE  /\ Keeps(t) /\ subs'[t].exists = subs[t].exists
               /\ \/ subs'[t].cursor = subs[t].cursor
                  \/ 0..(subs'[t].cursor - 1) \subseteq accounted'[t]
    BY <1>b, <2>1 DEF Keeps, SubRow
  <2> QED BY <1>0, <1>a, <2>1, <2>2, LoggedStep
<1>7. ASSUME NEW s \in Subs, NEW more \in BOOLEAN, RetireSub(s) \/ Sweep(s, more) PROVE IInv'
  <2>1. /\ subs' = [subs EXCEPT ![s].active = FALSE]
        /\ Log(MonitorOf[s], "proto") /\ calls' = Woken /\ pages' = pages
        /\ accounted' = accounted
    BY <1>7 DEF RetireSub, Sweep, ClientsUnchanged
  <2>2. ASSUME NEW t \in Subs
        PROVE  /\ Keeps(t) /\ subs'[t].exists = subs[t].exists
               /\ subs'[t].cursor = subs[t].cursor
    BY <1>b, <2>1 DEF Keeps, SubRow
  <2> QED BY <1>0, <1>a, <2>1, <2>2, LoggedStep
<1>8. ASSUME NEW c \in Calls, NEW s \in Subs, PullStored(c, s) PROVE IInv'
  <2>1. PICK n \in Cursor : n = subs[s].cursor
    BY Numbers
  <2>2. /\ UNCHANGED storeVars /\ UNCHANGED <<pages, accounted>> /\ subs[s].exists
        /\ ~LostSince(MonitorOf[s], n)
        /\ calls' = [calls EXCEPT ![c] =
               [at |-> "reading", sub |-> s, start |-> n, filter |-> subs[s].filter,
                replay |-> FALSE, live |-> TRUE]]
    BY <1>8, <2>1 DEF PullStored, ClientsUnchanged, Live
  <2>3. \A r \in history : r.mon = MonitorOf[s] /\ r.seq >= n => r \in rows
    BY <1>a, <2>2, NotLost, Numbers DEF IInv
  <2>4. Settled(s, n)
    BY <2>1, <2>2 DEF IInv, SubInv, Settled
  <2> QED BY <1>0, <2>2, <2>3, <2>4, PullStart
<1>9. ASSUME NEW c \in Calls, NEW s \in Subs, NEW n \in Named, PullReplay(c, s, n)
      PROVE  IInv'
  <2>1. n \in Cursor /\ n \in Nat
    BY MaxSeqAssumption DEF Cursor
  <2>2. /\ UNCHANGED storeVars /\ UNCHANGED <<pages, accounted>> /\ subs[s].exists
        /\ ~BelowFloor(n)
        /\ calls' = [calls EXCEPT ![c] =
               [at |-> "reading", sub |-> s, start |-> n, filter |-> subs[s].filter,
                replay |-> TRUE, live |-> TRUE]]
    BY <1>9 DEF PullReplay, ClientsUnchanged, Live
  <2>3. \A r \in history : r.mon = MonitorOf[s] /\ r.seq >= n => r \in rows
    BY <2>1, <2>2, NotBelowFloor DEF IInv
  <2> QED BY <1>0, <2>1, <2>2, <2>3, PullStart
<1>10. ASSUME NEW c \in Calls, NEW s \in Subs, PullReset(c, s) PROVE IInv'
  BY <1>0, <1>10, ResetStep
<1>11. ASSUME NEW c \in Calls, MoveToReset(c) PROVE IInv'
  BY <1>0, <1>11, MoveStep
<1>12. ASSUME NEW c \in Calls, Deliver(c) PROVE IInv'
  BY <1>0, <1>12, DeliverStep
<1>13. ASSUME NEW c \in Calls, Wait(c) \/ Timer(c) PROVE IInv'
  BY <1>0, <1>13, WaitStep
<1>14. ASSUME NEW c \in Calls, AnswerEmpty(c) PROVE IInv'
  BY <1>0, <1>14, AnswerEmptyStep
<1>15. ASSUME NEW u \in Named, Compact(u) PROVE IInv'
  BY <1>0, <1>15, CompactStep
<1>16. ASSUME Restart PROVE IInv'
  BY <1>0, <1>16, RestartStep
<1>17. ASSUME SweepEnds \/ UNCHANGED vars PROVE IInv'
  <2>1. /\ calls' = calls /\ pages' = pages /\ accounted' = accounted /\ subs' = subs
        /\ history' = history /\ seq' = seq /\ rows' = rows
    BY <1>17 DEF SweepEnds, vars, storeVars, ClientsUnchanged
  <2> QED BY <1>0, <2>1, QuietClientStep
<1> QED BY <1>1, <1>2, <1>3, <1>4, <1>5, <1>6, <1>7, <1>8, <1>9, <1>10, <1>11, <1>12,
           <1>13, <1>14, <1>15, <1>16, <1>17
        DEF Next, MonitorNext, SubNext, PullNext

(* The inductive invariant of the feed, for any number of monitors,         *)
(* subscriptions and pulls, and any length of the log a read can look       *)
(* through (core.ts, store.ts).                                             *)
THEOREM InvCorrect == ScanAll => (Spec => []IInv)
<1> SUFFICES ASSUME ScanAll PROVE Spec => []IInv
  OBVIOUS
<1>1. Init => IInv
  BY InvInit
<1>2. TypeOK /\ IInv /\ [Next]_vars => IInv'
  BY InvNext
<1> QED BY <1>1, <1>2, TypeCorrect, PTL DEF Spec

(* At least once: no row a subscriber's filter lets through is passed over  *)
(* in silence, in whatever order pulls, acknowledgements, compactions and   *)
(* restarts come (pull and subAction, core.ts).                             *)
THEOREM NoLossCorrect == ScanAll => (Spec => []NoSilentLoss)
<1> SUFFICES ASSUME ScanAll PROVE Spec => []NoSilentLoss
  OBVIOUS
<1>1. TypeOK /\ IInv => NoSilentLoss
  <2> SUFFICES ASSUME TypeOK, IInv, NEW s \in Subs, subs[s].exists, NEW r \in history,
                      Matches(r, MonitorOf[s], subs[s].filter), r.seq < subs[s].cursor
               PROVE  r.seq \in accounted[s]
    BY DEF NoSilentLoss
  <2>1. Settled(s, subs[s].cursor)
    BY DEF IInv, SubInv
  <2>2. r.seq \in 0..(subs[s].cursor - 1)
    BY Numbers
  <2> QED BY <2>1, <2>2 DEF Settled
<1>2. Spec => []IInv
  BY InvCorrect
<1> QED BY <1>1, <1>2, TypeCorrect, PTL

-----------------------------------------------------------------------------
(* Replies.                                                                 *)

(* A reply that carries what its pull was to find before `next` covers the  *)
(* range it speaks of.                                                      *)
LEMMA AnswerCovers ==
    ASSUME NEW c \in Calls, NEW call, call = calls[c], history' = history,
           NEW next, NEW seqs, NEW marked, Answer(c, next, seqs, marked),
           \A r \in Wanted(call) : r.seq < next => r.seq \in seqs,
           call.start \in Nat, TypeOK
    PROVE  Covers(reply)'
<1>1. /\ reply'.sub = call.sub /\ reply'.start = call.start /\ reply'.next = next
      /\ reply'.filter = call.filter /\ reply'.seqs = seqs
  BY DEF Answer
<1> SUFFICES ASSUME NEW r \in history, Matches(r, MonitorOf[call.sub], call.filter),
                    call.start <= r.seq, r.seq < next
             PROVE  r.seq \in seqs
  BY <1>1 DEF Covers, Matches
<1>2. r \in Wanted(call)
  BY Numbers DEF Wanted
<1> QED BY <1>2

(* What a reply says about the range it covers is all there ever was, for   *)
(* pulls from the cursor and for replays, however long the pull waited and  *)
(* whatever was compacted meanwhile (pull, core.ts).                        *)
THEOREM RepliesCorrect == ScanAll => (Spec => ReplyComplete)
<1> SUFFICES ASSUME ScanAll PROVE Spec => ReplyComplete
  OBVIOUS
<1>1. TypeOK /\ IInv /\ Next => (reply'.sent => Covers(reply'))
  <2> SUFFICES ASSUME TypeOK, IInv, Next, reply'.sent PROVE Covers(reply')
    OBVIOUS
  <2>1. PICK c \in Calls : Deliver(c) \/ AnswerEmpty(c)
    BY RepliesComeFromReads
  <2>2. calls[c].at = "reading" /\ history' = history
    BY <2>1 DEF Deliver, AnswerEmpty, ReadDue, LogUnchanged, storeVars
  <2>3. PICK call \in Call : call = calls[c]
    BY <2>2, Reading
  <2>4. Wanted(call) \subseteq rows /\ call.start \in Nat
    BY <2>2, <2>3, Reading, MaxSeqAssumption DEF Call, Cursor
  <2>5. CASE Deliver(c)
    <3>1. PICK P \in SUBSET rows :
             /\ P # {} /\ IsPage(P, call)
             /\ Answer(c, HighWater({p.seq : p \in P}) + 1, {p.seq : p \in P},
                       {q \in {p.seq : p \in P} : q <= subs[call.sub].deliveredMax})
      BY <2>3, <2>5 DEF Deliver
    <3>2. \A r \in Wanted(call) :
             r.seq < HighWater({p.seq : p \in P}) + 1 => r.seq \in {p.seq : p \in P}
      BY <2>4, <3>1, PageAnswers DEF IInv
    <3> QED BY <2>2, <2>3, <2>4, <3>1, <3>2, AnswerCovers DEF Covers
  <2>6. CASE AnswerEmpty(c)
    <3>1. IsPage({}, call) /\ Answer(c, heads[MonitorOf[call.sub]] + 1, {}, {})
      BY <2>3, <2>6 DEF AnswerEmpty
    <3>2. Wanted(call) = {}
      BY <2>4, <3>1, PageCovers DEF IInv
    <3> QED BY <2>2, <2>3, <2>4, <3>1, <3>2, AnswerCovers DEF Covers
  <2> QED BY <2>1, <2>5, <2>6
<1>2. TypeOK /\ IInv /\ [Next]_vars => [reply'.sent => Covers(reply')]_vars
  BY <1>1
<1>3. Spec => []IInv
  BY InvCorrect
<1> QED BY <1>2, <1>3, TypeCorrect, PTL DEF Spec, ReplyComplete

-----------------------------------------------------------------------------
(***************************************************************************)
(* REDELIVERY.  What a subscriber is told of what it already had:          *)
(* redeliveries are marked, and a committed cursor does not move back      *)
(* unnoticed.  Neither needs ScanAll.                                      *)
(***************************************************************************)

-----------------------------------------------------------------------------
(* The mark of what was handed out.                                         *)

(* deliveredMax has seen every seq a pull from the cursor returned, and a   *)
(* pull in progress is one of a subscription there is.                      *)
HandedInv ==
    /\ \A s \in Subs : \A q \in handed[s] : subs[s].exists /\ q <= subs[s].deliveredMax
    /\ \A c \in Calls : calls[c] # NoCall => subs[calls[c].sub].exists

(* A step that hands out nothing, forgets no mark and starts no pull of an  *)
(* unknown subscription.                                                    *)
LEMMA MarksKept ==
    ASSUME TypeOK, HandedInv, handed' = handed,
           \A s \in Subs : subs[s].exists =>
               subs'[s].exists /\ subs'[s].deliveredMax = subs[s].deliveredMax,
           \A c \in Calls : calls'[c] # NoCall =>
               \/ calls[c] # NoCall /\ calls'[c].sub = calls[c].sub
               \/ subs'[calls'[c].sub].exists
    PROVE  HandedInv'
<1>1. \A c \in Calls : calls[c] # NoCall => calls[c].sub \in Subs
  BY DEF TypeOK, Call
<1> QED BY <1>1 DEF HandedInv

(* The wake-up starts no pull and ends none. *)
LEMMA WokenSub ==
    ASSUME TypeOK, NEW c \in Calls, Woken[c] # NoCall
    PROVE  calls[c] # NoCall /\ Woken[c].sub = calls[c].sub
BY WokenType DEF TypeOK

(* A handler that logs and wakes the pulls, whatever else it does to the    *)
(* cursor and the flags of a subscription.                                  *)
LEMMA MarksOfWoken ==
    ASSUME TypeOK, HandedInv, handed' = handed, calls' = Woken,
           \A s \in Subs : subs[s].exists =>
               subs'[s].exists /\ subs'[s].deliveredMax = subs[s].deliveredMax
    PROVE  HandedInv'
BY WokenSub, MarksKept

(* A read from the cursor raises the mark over all it returns.              *)
LEMMA MarksRaised ==
    ASSUME TypeOK, HandedInv, NEW c \in Calls, Deliver(c)
    PROVE  HandedInv'
<1>1. calls[c] \in Call /\ calls[c] # NoCall
  <2>1. calls[c].at # "free"
    BY DEF Deliver, ReadDue
  <2> QED BY <2>1 DEF TypeOK, NoCall
<1>2. PICK call \in Call : call = calls[c]
  BY <1>1
<1>3. call.sub \in Subs /\ subs[call.sub].exists
  BY <1>1, <1>2 DEF HandedInv, Call
<1>4. PICK P \in SUBSET rows :
         /\ \/ UNCHANGED <<subs, handed>>
            \/ /\ subs' = [subs EXCEPT ![call.sub].deliveredMax =
                             HighWater({@} \cup {r.seq : r \in P})]
               /\ handed' = [handed EXCEPT ![call.sub] = @ \cup {r.seq : r \in P}]
         /\ calls' = [calls EXCEPT ![c] = NoCall]
  BY <1>2 DEF Deliver, Answer
<1>5. \A d \in Calls : calls'[d] # NoCall =>
         calls[d] # NoCall /\ calls'[d].sub = calls[d].sub
  BY <1>4 DEF TypeOK
<1>6. CASE UNCHANGED <<subs, handed>>
  BY <1>5, <1>6, MarksKept
<1>7. CASE /\ subs' = [subs EXCEPT ![call.sub].deliveredMax =
                         HighWater({@} \cup {r.seq : r \in P})]
           /\ handed' = [handed EXCEPT ![call.sub] = @ \cup {r.seq : r \in P}]
  <2> DEFINE old == subs[call.sub].deliveredMax
             seqs == {r.seq : r \in P}
             S == {old} \cup seqs
  <2>1. subs \in [Subs -> SubRow] /\ handed \in [Subs -> SUBSET (1..MaxSeq)]
    BY DEF TypeOK
  <2>2. old \in 0..(MaxSeq + 1) /\ seqs \in SUBSET (1..MaxSeq)
    BY <1>3, <2>1 DEF SubRow, Cursor, TypeOK, Row
  <2>3. S \in SUBSET Int /\ S # {} /\ MaxSeq + 1 \in Int /\ \A x \in S : x <= MaxSeq + 1
    BY <2>2, MaxSeqAssumption
  <2>4. /\ subs'[call.sub].exists /\ subs'[call.sub].deliveredMax = HighWater(S)
        /\ handed'[call.sub] = handed[call.sub] \cup seqs
        /\ \A s \in Subs \ {call.sub} : subs'[s] = subs[s] /\ handed'[s] = handed[s]
        /\ \A s \in Subs : subs'[s].exists = subs[s].exists
    BY <1>3, <1>7, <2>1 DEF SubRow
  <2> HIDE DEF S
  <2>5. HighWater(S) \in S /\ \A y \in S : y <= HighWater(S)
    BY <2>3, HighWaterExists
  <2>6. old <= HighWater(S) /\ \A q \in seqs : q <= HighWater(S)
    BY <2>5 DEF S
  <2>7. HighWater(S) \in Int /\ old \in Int /\ \A q \in handed[call.sub] : q \in Int
    <3>1. HighWater(S) \in Int
      BY <2>3, <2>5
    <3>2. old \in Int
      BY <2>2, MaxSeqAssumption
    <3>3. handed[call.sub] \in SUBSET (1..MaxSeq)
      BY <1>3, <2>1
    <3> QED BY <3>1, <3>2, <3>3
  <2> HIDE DEF seqs
  <2>8. \A q \in handed[call.sub] : q <= HighWater(S)
    BY <1>3, <2>6, <2>7 DEF HandedInv
  <2>9. \A s \in Subs : \A q \in handed'[s] : subs'[s].exists /\ q <= subs'[s].deliveredMax
    BY <2>4, <2>6, <2>8 DEF HandedInv
  <2>10. \A d \in Calls : calls[d] # NoCall => calls[d].sub \in Subs
    BY DEF TypeOK, Call
  <2> QED BY <1>5, <2>4, <2>9, <2>10 DEF HandedInv
<1> QED BY <1>4, <1>6, <1>7

(* Every handler keeps the marks: one step per action (core.ts). *)
LEMMA HandedNext == TypeOK /\ LogAndDisk /\ HandedInv /\ [Next]_vars => HandedInv'
<1> SUFFICES ASSUME TypeOK, LogAndDisk, HandedInv, [Next]_vars PROVE HandedInv'
  OBVIOUS
<1>a. subs \in [Subs -> SubRow] /\ calls \in [Calls -> Call \cup {NoCall}]
  BY DEF TypeOK
<1>b. \A c \in Calls : Woken[c] # NoCall => calls[c] # NoCall /\ Woken[c].sub = calls[c].sub
  BY WokenSub
<1>1. ASSUME NEW m \in Monitors,
             \/ CreateMonitor(m)
             \/ \E a \in Actions : MonitorAction(m, a)
             \/ \E k \in {"obs", "proto"} : Publish(m, k)
      PROVE  HandedInv'
  <2>1. calls' = Woken /\ handed' = handed /\ subs' = subs
    BY <1>1 DEF CreateMonitor, MonitorAction, Publish, ClientsUnchanged
  <2> QED BY <2>1, MarksOfWoken
<1>2. ASSUME NEW s \in Subs, NEW n \in Cursor, NEW p \in Policies, NEW f \in Filters,
             Subscribe(s, n, p, f)
      PROVE  HandedInv'
  <2>1. /\ handed' = handed
        /\ subs' = [subs EXCEPT ![s] =
             [exists |-> TRUE, active |-> TRUE, cursor |-> n,
              deliveredMax |-> IF @.exists THEN @.deliveredMax ELSE n,
              policy |-> p, filter |-> f]]
    BY <1>2 DEF Subscribe
  <2>2. calls' = [c \in Calls |-> IF calls[c] # NoCall /\ calls[c].sub = s
                                  THEN [Woken[c] EXCEPT !.live = FALSE] ELSE Woken[c]]
    BY <1>2 DEF Subscribe, Rekey
  <2>3. \A t \in Subs : subs[t].exists =>
             subs'[t].exists /\ subs'[t].deliveredMax = subs[t].deliveredMax
    BY <1>a, <2>1
  <2>4. ASSUME NEW c \in Calls, calls'[c] # NoCall
        PROVE  calls[c] # NoCall /\ calls'[c].sub = calls[c].sub
    <3>1. CASE calls[c] # NoCall /\ calls[c].sub = s
      <4>1. Woken[c] \in Call /\ Woken[c].sub = calls[c].sub
        BY <1>a, <3>1, WokenType
      <4>2. calls'[c] = [Woken[c] EXCEPT !.live = FALSE]
        BY <2>2, <3>1
      <4>3. calls'[c].sub = Woken[c].sub
        BY <4>1, <4>2 DEF Call
      <4> QED BY <3>1, <4>1, <4>3
    <3>2. CASE ~(calls[c] # NoCall /\ calls[c].sub = s)
      BY <1>b, <2>2, <2>4, <3>2
    <3> QED BY <3>1, <3>2
  <2> QED BY <2>1, <2>3, <2>4, MarksKept
<1>3. ASSUME NEW s \in Subs, NEW n \in Cursor, Ack(s, n) PROVE HandedInv'
  <2>1. \A t \in Subs : /\ subs'[t].exists = subs[t].exists
                        /\ subs'[t].deliveredMax = subs[t].deliveredMax
    BY <1>a, <1>3 DEF Ack, SubRow
  <2> QED BY <1>3, <2>1, MarksKept DEF Ack, ClientsUnchanged
<1>4. ASSUME NEW s \in Subs, NEW n \in Named, Seek(s, n) PROVE HandedInv'
  <2>1. \A t \in Subs : /\ subs'[t].exists = subs[t].exists
                        /\ subs'[t].deliveredMax = subs[t].deliveredMax
    BY <1>a, <1>4 DEF Seek, SubRow
  <2> QED BY <1>4, <2>1, MarksOfWoken DEF Seek
<1>5. ASSUME NEW s \in Subs, NEW more \in BOOLEAN, RetireSub(s) \/ Sweep(s, more)
      PROVE  HandedInv'
  <2>1. \A t \in Subs : /\ subs'[t].exists = subs[t].exists
                        /\ subs'[t].deliveredMax = subs[t].deliveredMax
    BY <1>a, <1>5 DEF RetireSub, Sweep, SubRow
  <2> QED BY <1>5, <2>1, MarksOfWoken DEF RetireSub, Sweep, ClientsUnchanged
<1>6. ASSUME NEW c \in Calls, NEW s \in Subs,
             PullStored(c, s) \/ (\E n \in Named : PullReplay(c, s, n))
      PROVE  HandedInv'
  <2>1. PICK n, replay : calls' = [calls EXCEPT ![c] =
             [at |-> "reading", sub |-> s, start |-> n, filter |-> subs[s].filter,
              replay |-> replay, live |-> TRUE]]
    BY <1>6 DEF PullStored, PullReplay
  <2>2. handed' = handed /\ subs' = subs /\ subs[s].exists
    BY <1>6 DEF PullStored, PullReplay, ClientsUnchanged, Live, storeVars
  <2>3. \A d \in Calls : calls'[d] # NoCall =>
             \/ calls[d] # NoCall /\ calls'[d].sub = calls[d].sub
             \/ subs'[calls'[d].sub].exists
    BY <1>a, <2>1, <2>2
  <2> QED BY <2>2, <2>3, MarksKept
<1>7. ASSUME NEW c \in Calls, NEW s \in Subs, PullReset(c, s) PROVE HandedInv'
  <2>1. PICK n : calls' = [Woken EXCEPT ![c] =
             [at |-> "resetting", sub |-> s, start |-> n, filter |-> subs[s].filter,
              replay |-> FALSE, live |-> TRUE]]
    BY <1>7 DEF PullReset
  <2>2. handed' = handed /\ subs' = subs /\ subs[s].exists
    BY <1>7 DEF PullReset, ClientsUnchanged, Live
  <2>3. ASSUME NEW d \in Calls, calls'[d] # NoCall
        PROVE  \/ calls[d] # NoCall /\ calls'[d].sub = calls[d].sub
               \/ subs'[calls'[d].sub].exists
    <3>1. Woken \in [Calls -> Call \cup {NoCall}]
      BY <1>a, WokenType
    <3>2. CASE d = c
      BY <2>1, <2>2, <3>1, <3>2
    <3>3. CASE d # c
      BY <1>b, <2>1, <2>3, <3>1, <3>3
    <3> QED BY <3>2, <3>3
  <2> QED BY <2>2, <2>3, MarksKept
<1>8. ASSUME NEW c \in Calls, MoveToReset(c) PROVE HandedInv'
  <2>1. \A t \in Subs : /\ subs'[t].exists = subs[t].exists
                        /\ subs'[t].deliveredMax = subs[t].deliveredMax
    <3>1. PICK s, n : subs' = [subs EXCEPT ![s].cursor = n]
      BY <1>8 DEF MoveToReset
    <3> QED BY <1>a, <3>1 DEF SubRow
  <2>2. calls[c] \in Call /\ calls[c] # NoCall
    BY <1>a, <1>8 DEF MoveToReset, NoCall
  <2>3. \A d \in Calls : calls'[d] # NoCall =>
             calls[d] # NoCall /\ calls'[d].sub = calls[d].sub
    BY <1>a, <1>8, <2>2 DEF MoveToReset, Call
  <2> QED BY <1>8, <2>1, <2>3, MarksKept DEF MoveToReset
<1>9. ASSUME NEW c \in Calls, Deliver(c) PROVE HandedInv'
  BY <1>9, MarksRaised
<1>10. ASSUME NEW c \in Calls, Wait(c) \/ Timer(c) PROVE HandedInv'
  <2>1. calls[c] \in Call /\ calls[c] # NoCall
    BY <1>a, <1>10 DEF Wait, Timer, ReadDue, NoCall
  <2>2. \A d \in Calls : calls'[d] # NoCall =>
             calls[d] # NoCall /\ calls'[d].sub = calls[d].sub
    BY <1>a, <1>10, <2>1 DEF Wait, Timer, Call
  <2> QED BY <1>10, <2>2, MarksKept DEF Wait, Timer, ClientsUnchanged, storeVars
<1>11. ASSUME NEW c \in Calls, AnswerEmpty(c) PROVE HandedInv'
  <2>1. \A d \in Calls : calls'[d] # NoCall =>
             calls[d] # NoCall /\ calls'[d].sub = calls[d].sub
    BY <1>a, <1>11 DEF AnswerEmpty, Answer
  <2> QED BY <1>11, <2>1, MarksKept DEF AnswerEmpty, storeVars
<1>12. ASSUME \/ SweepEnds
              \/ \E u \in Named : Compact(u)
              \/ UNCHANGED vars
       PROVE  HandedInv'
  <2>1. calls' = calls /\ handed' = handed /\ subs' = subs
    BY <1>12 DEF SweepEnds, Compact, CompactUpTo, ClientsUnchanged, storeVars, vars
  <2> QED BY <2>1, MarksKept
<1>13. ASSUME Restart PROVE HandedInv'
  <2>1. handed' = handed /\ subs' = subs /\ \A c \in Calls : calls'[c] = NoCall
    BY <1>13 DEF Restart, Load, ClientsUnchanged, LogAndDisk, DiskInv, Snapshot
  <2> QED BY <2>1, MarksKept
<1> QED BY <1>1, <1>2, <1>3, <1>4, <1>5, <1>6, <1>7, <1>8, <1>9, <1>10, <1>11, <1>12, <1>13
        DEF Next, MonitorNext, SubNext, PullNext

(* Nothing a pull from the cursor has returned is ever returned again as    *)
(* if it were new, however many pulls run at once, whatever is retired and  *)
(* subscribed again, and across restarts (pull, core.ts).                   *)
THEOREM RedeliveryCorrect == Spec => RedeliveryIsMarked
<1>1. Init => HandedInv
  BY DEF Init, HandedInv
<1>2. Spec => []HandedInv
  BY <1>1, HandedNext, TypeCorrect, LogCorrect, PTL DEF Spec
<1>3. TypeOK /\ HandedInv /\ Next =>
         (reply'.sent => reply'.seqs \cap handed[reply'.sub] \subseteq reply'.marked)
  <2> SUFFICES ASSUME TypeOK, HandedInv, Next, reply'.sent
               PROVE  reply'.seqs \cap handed[reply'.sub] \subseteq reply'.marked
    OBVIOUS
  <2>1. PICK c \in Calls : Deliver(c) \/ AnswerEmpty(c)
    BY RepliesComeFromReads
  <2>2. CASE Deliver(c)
    <3>1. calls[c] \in Call
      BY <2>2 DEF Deliver, ReadDue, TypeOK, NoCall
    <3>2. PICK call \in Call : call = calls[c]
      BY <3>1
    <3>3. PICK P \in SUBSET rows :
             Answer(c, HighWater({r.seq : r \in P}) + 1, {r.seq : r \in P},
                    {q \in {r.seq : r \in P} : q <= subs[call.sub].deliveredMax})
      BY <2>2, <3>2 DEF Deliver
    <3>4. /\ reply'.sub = call.sub
          /\ reply'.seqs = {r.seq : r \in P}
          /\ reply'.marked = {q \in {r.seq : r \in P} : q <= subs[call.sub].deliveredMax}
      BY <3>2, <3>3 DEF Answer
    <3>5. call.sub \in Subs
      BY DEF Call
    <3> QED BY <3>4, <3>5 DEF HandedInv
  <2>3. CASE AnswerEmpty(c)
    BY <2>3 DEF AnswerEmpty, Answer
  <2> QED BY <2>1, <2>2, <2>3
<1>4. TypeOK /\ HandedInv /\ [Next]_vars =>
         [reply'.sent => reply'.seqs \cap handed[reply'.sub] \subseteq reply'.marked]_vars
  BY <1>3
<1> QED BY <1>2, <1>4, TypeCorrect, PTL DEF Spec, RedeliveryIsMarked

-----------------------------------------------------------------------------
(* The committed cursor.                                                    *)

(* A pull that is being reset moves its cursor forward, and is the only one.*)
ResetInv ==
    /\ \A c \in Calls : calls[c].at = "resetting" => subs[calls[c].sub].cursor < calls[c].start
    /\ \A c, d \in Calls : calls[c].at = "resetting" /\ calls[d].at = "resetting" => c = d

(* A step that begins no reset and moves no cursor. *)
LEMMA ResetKept ==
    ASSUME TypeOK, ResetInv,
           \A c \in Calls : calls'[c].at = "resetting" => calls'[c] = calls[c],
           \A s \in Subs : subs'[s].cursor = subs[s].cursor
    PROVE  ResetInv'
<1> SUFFICES ASSUME NEW c \in Calls, calls'[c].at = "resetting"
             PROVE  subs'[calls'[c].sub].cursor < calls'[c].start
  BY DEF ResetInv
<1>1. calls'[c] = calls[c] /\ calls[c].at = "resetting"
  OBVIOUS
<1>2. calls[c] \in Call
  BY <1>1 DEF TypeOK, NoCall
<1>3. calls[c].sub \in Subs
  BY <1>2 DEF Call
<1> QED BY <1>1, <1>3 DEF ResetInv

(* The wake-up begins no reset. *)
LEMMA WokenResets ==
    ASSUME NEW c \in Calls, Woken[c].at = "resetting", TypeOK
    PROVE  Woken[c] = calls[c]
BY DEF Woken, TypeOK, Call, NoCall

(* When a handler starts, no reset is under way, and the wake-up leaves it  *)
(* so.                                                                      *)
LEMMA IdleResets ==
    ASSUME TypeOK, ~Busy, NEW c \in Calls
    PROVE  calls[c].at # "resetting" /\ Woken[c].at # "resetting"
<1>1. calls[c].at # "resetting"
  BY DEF Busy
<1> QED BY <1>1, WokenResets

(* What a reset aims at lies past what was lost, be it the floor or the end *)
(* of the log, and what was lost begins at the cursor or after it (pull,    *)
(* core.ts).                                                                *)
LEMMA ResetsForward ==
    ASSUME TypeOK, LogInv, NEW s \in Subs, LostSince(MonitorOf[s], subs[s].cursor)
    PROVE  subs[s].cursor < floor /\ subs[s].cursor < heads[MonitorOf[s]] + 1
<1> DEFINE m == MonitorOf[s]
           n == subs[s].cursor
<1>1. m \in Monitors
  BY FeedAssumption
<1>2. /\ n \in Nat /\ floor \in Nat
      /\ \A r \in history : r.seq \in Nat
  <2>1. subs[s] \in SubRow /\ floor \in 0..(MaxSeq + 1) /\ history \subseteq Row
    BY DEF TypeOK
  <2> QED BY <2>1, MaxSeqAssumption DEF SubRow, Cursor, Row
<1> HIDE DEF m, n
<1>3. heads[m] \in Nat /\ dropped[m] \in Int
  <2>1. heads[m] \in 0..MaxSeq /\ dropped[m] \in (-1)..MaxSeq
    BY <1>1 DEF TypeOK
  <2> QED BY <2>1, MaxSeqAssumption
<1>4. dropped[m] >= n
  BY DEF LostSince, m, n
<1>5. dropped[m] \in SeqsOf(m, history \ rows)
  BY <1>1, <1>2, <1>3, <1>4 DEF LogInv
<1>6. PICK r \in history \ rows : r.seq = dropped[m] /\ r.mon = m
  BY <1>5 DEF SeqsOf
<1>7. r.seq < floor
  BY DEF LogInv
<1>8. r.seq <= heads[m]
  BY <1>1, <1>6 DEF LogInv, SeqsOf
<1>9. n < floor /\ n < heads[m] + 1
  BY <1>2, <1>3, <1>4, <1>6, <1>7, <1>8
<1> QED BY <1>9 DEF m, n

(* Every handler: a reset under way stays aimed forward, and a cursor moves *)
(* back with a row of its own or not at all, unless it is clamped (core.ts).*)
LEMMA CursorNext ==
    ASSUME TypeOK, LogAndDisk, ResetInv, [Next]_vars
    PROVE  /\ ResetInv'
           /\ \A s \in Subs : subs'[s].cursor < subs[s].cursor =>
                \/ \E r \in history' \ history : r.mon = MonitorOf[s] /\ r.kind = "proto"
                \/ /\ subs'[s].cursor = heads[MonitorOf[s]] + 1
                   /\ heads' = heads /\ disk' = Snapshot'
<1> DEFINE Back(s) == subs'[s].cursor < subs[s].cursor
           Logged(s) == \E r \in history' \ history : r.mon = MonitorOf[s] /\ r.kind = "proto"
           Clamped(s) == /\ subs'[s].cursor = heads[MonitorOf[s]] + 1
                         /\ heads' = heads /\ disk' = Snapshot'
           Goal == ResetInv' /\ \A s \in Subs : Back(s) => Logged(s) \/ Clamped(s)
<1>a. subs \in [Subs -> SubRow] /\ calls \in [Calls -> Call \cup {NoCall}]
  BY DEF TypeOK
<1>b. \A s \in Subs : subs[s].cursor \in Nat
  BY <1>a, MaxSeqAssumption DEF SubRow, Cursor
<1>c. ASSUME \A s \in Subs : subs'[s].cursor = subs[s].cursor,
             \A c \in Calls : calls'[c].at = "resetting" => calls'[c] = calls[c]
      PROVE  Goal
  BY <1>b, <1>c, ResetKept
<1>d. ASSUME NEW s \in Subs, Append(MonitorOf[s], "proto") PROVE Logged(s)
  <2>1. /\ history' = history \cup {[seq |-> seq + 1, mon |-> MonitorOf[s], kind |-> "proto"]}
        /\ \A r \in history : r.seq <= seq
        /\ seq \in Nat
    BY <1>d, MaxSeqAssumption DEF Append, LogAndDisk, LogInv, TypeOK
  <2>2. [seq |-> seq + 1, mon |-> MonitorOf[s], kind |-> "proto"] \notin history
    BY <2>1
  <2> QED BY <2>1, <2>2
<1>e. ASSUME ~Busy, \A c \in Calls : calls'[c].at = "resetting" =>
                       calls'[c] = calls[c] \/ calls'[c] = Woken[c]
      PROVE  ResetInv'
  BY <1>e, IdleResets DEF ResetInv
<1>1. ASSUME NEW m \in Monitors,
             \/ CreateMonitor(m)
             \/ \E a \in Actions : MonitorAction(m, a)
             \/ \E k \in {"obs", "proto"} : Publish(m, k)
      PROVE  Goal
  <2>1. calls' = Woken /\ subs' = subs
    BY <1>1 DEF CreateMonitor, MonitorAction, Publish, ClientsUnchanged
  <2> QED BY <1>c, <2>1, WokenResets
<1>2. ASSUME NEW s \in Subs, NEW n \in Cursor, NEW p \in Policies, NEW f \in Filters,
             Subscribe(s, n, p, f)
      PROVE  Goal
  <2>1. /\ ~Busy /\ Append(MonitorOf[s], "proto")
        /\ \A t \in Subs \ {s} : subs'[t] = subs[t]
    BY <1>2 DEF Subscribe, Log
  <2>2. ASSUME NEW c \in Calls PROVE calls'[c].at # "resetting"
    <3>1. CASE calls[c] # NoCall /\ calls[c].sub = s
      <4>1. Woken[c] \in Call /\ calls'[c] = [Woken[c] EXCEPT !.live = FALSE]
        BY <1>2, <1>a, <3>1, WokenType DEF Subscribe, Rekey
      <4>2. calls'[c].at = Woken[c].at
        BY <4>1 DEF Call
      <4> QED BY <2>1, <4>2, IdleResets
    <3>2. CASE ~(calls[c] # NoCall /\ calls[c].sub = s)
      BY <1>2, <2>1, <3>2, IdleResets DEF Subscribe, Rekey
    <3> QED BY <3>1, <3>2
  <2>3. ResetInv'
    BY <2>2 DEF ResetInv
  <2> QED BY <1>b, <1>d, <2>1, <2>3
<1>3. ASSUME NEW s \in Subs, NEW n \in Cursor, Ack(s, n) PROVE Goal
  <2>1. /\ ~Busy /\ calls' = calls /\ heads' = heads /\ disk' = Snapshot'
        /\ n >= subs[s].cursor
        /\ subs' = [subs EXCEPT ![s].cursor =
              IF n < heads[MonitorOf[s]] + 1 THEN n ELSE heads[MonitorOf[s]] + 1]
    BY <1>3 DEF Ack, LogUnchanged, Persist
  <2>2. /\ subs'[s].cursor = n \/ subs'[s].cursor = heads[MonitorOf[s]] + 1
        /\ \A t \in Subs \ {s} : subs'[t] = subs[t]
    BY <1>a, <2>1 DEF SubRow
  <2>3. n \in Nat
    BY MaxSeqAssumption DEF Cursor
  <2> QED BY <1>b, <1>e, <2>1, <2>2, <2>3
<1>4. ASSUME NEW s \in Subs, NEW n \in Named, Seek(s, n) PROVE Goal
  <2>1. /\ ~Busy /\ calls' = Woken /\ Append(MonitorOf[s], "proto")
        /\ \A t \in Subs \ {s} : subs'[t] = subs[t]
    BY <1>4 DEF Seek, Log
  <2> QED BY <1>b, <1>d, <1>e, <2>1
<1>5. ASSUME NEW s \in Subs, NEW more \in BOOLEAN, RetireSub(s) \/ Sweep(s, more)
      PROVE  Goal
  <2>1. calls' = Woken /\ \A t \in Subs : subs'[t].cursor = subs[t].cursor
    BY <1>a, <1>5 DEF RetireSub, Sweep, SubRow
  <2> QED BY <1>c, <2>1, WokenResets
<1>6. ASSUME NEW c \in Calls, NEW s \in Subs,
             PullStored(c, s) \/ (\E n \in Named : PullReplay(c, s, n))
      PROVE  Goal
  <2>1. PICK n, replay : calls' = [calls EXCEPT ![c] =
             [at |-> "reading", sub |-> s, start |-> n, filter |-> subs[s].filter,
              replay |-> replay, live |-> TRUE]]
    BY <1>6 DEF PullStored, PullReplay
  <2>2. subs' = subs
    BY <1>6 DEF PullStored, PullReplay, storeVars
  <2>3. \A d \in Calls : calls'[d].at = "resetting" => calls'[d] = calls[d]
    BY <1>a, <2>1
  <2> QED BY <1>c, <2>2, <2>3
<1>7. ASSUME NEW c \in Calls, NEW s \in Subs, PullReset(c, s) PROVE Goal
  <2>1. PICK n : /\ n = floor \/ n = heads[MonitorOf[s]] + 1
                 /\ calls' = [Woken EXCEPT ![c] =
                       [at |-> "resetting", sub |-> s, start |-> n,
                        filter |-> subs[s].filter, replay |-> FALSE, live |-> TRUE]]
    BY <1>7 DEF PullReset
  <2>2. subs' = subs /\ ~Busy /\ LostSince(MonitorOf[s], subs[s].cursor)
    BY <1>7 DEF PullReset
  <2>3. subs[s].cursor < n
    BY <2>1, <2>2, ResetsForward DEF LogAndDisk
  <2>4. ASSUME NEW d \in Calls, calls'[d].at = "resetting"
        PROVE  d = c /\ subs'[calls'[d].sub].cursor < calls'[d].start
    <3>1. Woken \in [Calls -> Call \cup {NoCall}]
      BY <1>a, WokenType
    <3>2. CASE d = c
      BY <2>1, <2>2, <2>3, <3>1, <3>2
    <3>3. CASE d # c
      BY <2>1, <2>2, <2>4, <3>1, <3>3, IdleResets
    <3> QED BY <3>2, <3>3
  <2>5. ResetInv'
    BY <2>4 DEF ResetInv
  <2> QED BY <1>b, <2>2, <2>5
<1>8. ASSUME NEW c \in Calls, MoveToReset(c) PROVE Goal
  <2>1. calls[c] \in Call
    BY <1>a, <1>8 DEF MoveToReset, NoCall
  <2>2. PICK call \in Call : call = calls[c]
    BY <2>1
  <2>3. /\ call.at = "resetting" /\ call.sub \in Subs /\ call.start \in Nat
        /\ subs[call.sub].cursor < call.start
    BY <1>8, <2>2, MaxSeqAssumption DEF MoveToReset, ResetInv, Call, Cursor
  <2>4. /\ subs' = [subs EXCEPT ![call.sub].cursor = call.start]
        /\ calls' = [calls EXCEPT ![c].at = "reading"]
    BY <1>8, <2>2 DEF MoveToReset
  <2>5. /\ subs'[call.sub].cursor = call.start
        /\ \A t \in Subs \ {call.sub} : subs'[t] = subs[t]
    BY <1>a, <2>3, <2>4 DEF SubRow
  <2>6. \A s \in Subs : ~Back(s)
    BY <1>b, <2>3, <2>5
  <2>7. ASSUME NEW d \in Calls PROVE calls'[d].at # "resetting"
    <3>1. CASE d = c
      BY <1>a, <2>1, <2>4, <3>1 DEF Call
    <3>2. CASE d # c
      BY <1>8, <1>a, <2>4, <3>2 DEF MoveToReset, ResetInv
    <3> QED BY <3>1, <3>2
  <2> QED BY <2>6, <2>7 DEF ResetInv
<1>9. ASSUME NEW c \in Calls, Deliver(c) PROVE Goal
  <2>1. \A s \in Subs : subs'[s].cursor = subs[s].cursor
    <3>1. \/ subs' = subs
          \/ \E s, n : subs' = [subs EXCEPT ![s].deliveredMax = n]
      BY <1>9 DEF Deliver
    <3> QED BY <1>a, <3>1 DEF SubRow
  <2>2. \A d \in Calls : calls'[d].at = "resetting" => calls'[d] = calls[d]
    BY <1>9, <1>a DEF Deliver, Answer, NoCall
  <2> QED BY <1>c, <2>1, <2>2
<1>10. ASSUME NEW c \in Calls, Wait(c) \/ Timer(c) \/ AnswerEmpty(c) PROVE Goal
  <2>1. subs' = subs
    BY <1>10 DEF Wait, Timer, AnswerEmpty, storeVars
  <2>2. \/ calls' = [calls EXCEPT ![c].at = "waiting"]
        \/ calls' = [calls EXCEPT ![c].at = "reading"]
        \/ calls' = [calls EXCEPT ![c] = NoCall]
    BY <1>10 DEF Wait, Timer, AnswerEmpty, Answer
  <2>3. calls[c] \in Call
    BY <1>a, <1>10 DEF Wait, Timer, AnswerEmpty, ReadDue, NoCall
  <2>4. \A d \in Calls : calls'[d].at = "resetting" => calls'[d] = calls[d]
    BY <1>a, <2>2, <2>3 DEF Call, NoCall
  <2> QED BY <1>c, <2>1, <2>4
<1>11. ASSUME \/ SweepEnds
              \/ \E u \in Named : Compact(u)
              \/ UNCHANGED vars
       PROVE  Goal
  <2>1. calls' = calls /\ subs' = subs
    BY <1>11 DEF SweepEnds, Compact, CompactUpTo, storeVars, vars
  <2> QED BY <1>c, <2>1
<1>12. ASSUME Restart PROVE Goal
  <2>1. subs' = subs /\ \A c \in Calls : calls'[c].at # "resetting"
    BY <1>12 DEF Restart, Load, LogAndDisk, DiskInv, Snapshot, NoCall
  <2> QED BY <1>c, <2>1
<1>13. Goal
  BY <1>1, <1>2, <1>3, <1>4, <1>5, <1>6, <1>7, <1>8, <1>9, <1>10, <1>11, <1>12
     DEF Next, MonitorNext, SubNext, PullNext
<1> QED BY <1>13

(* A committed cursor moves back in a step that logs it, or when an         *)
(* acknowledgement is clamped to the head, and then on disk too; a reset    *)
(* only moves it forward and a restart not at all (subAction and pull in    *)
(* core.ts).                                                                *)
THEOREM CursorCorrect == Spec => CursorMovesBackLogged
<1>1. Init => ResetInv
  BY DEF Init, ResetInv, NoCall
<1>2. TypeOK /\ LogAndDisk /\ ResetInv /\ [Next]_vars => ResetInv'
  BY CursorNext
<1>3. Spec => []ResetInv
  BY <1>1, <1>2, TypeCorrect, LogCorrect, PTL DEF Spec
<1>4. TypeOK /\ LogAndDisk /\ ResetInv /\ [Next]_vars =>
        [\A s \in Subs :
          subs'[s].cursor < subs[s].cursor =>
              \/ \E r \in history' \ history : r.mon = MonitorOf[s] /\ r.kind = "proto"
              \/ subs'[s].cursor = heads[MonitorOf[s]] + 1 /\ heads' = heads /\ disk' = Snapshot']_vars
  BY CursorNext
<1> QED BY <1>3, <1>4, TypeCorrect, LogCorrect, PTL DEF Spec, CursorMovesBackLogged

-----------------------------------------------------------------------------
(***************************************************************************)
(* REFINEMENT.  The feed implements the queue it promises (DurableQueue),  *)
(* under ScanAll.  Most handlers are a stutter or an emitted row; the      *)
(* others are one action of the queue each.                                *)
(***************************************************************************)

Positions == [s \in Subs |-> subs[s].cursor]
Wants == [s \in Subs |-> subs[s].filter]

(* A step of the queue, or none. *)
QueueStep == Queue!Next \/ UNCHANGED <<history, accounted, Positions, Wants>>

(* The invariants a step starts from. *)
Known == TypeOK /\ IInv /\ ResetInv

-----------------------------------------------------------------------------
(* What the queue sees of a step.                                           *)

(* Subscriptions whose cursors and filters stand have moved nothing.        *)
LEMMA NothingMoved ==
    ASSUME \A s \in Subs : subs'[s].cursor = subs[s].cursor /\ subs'[s].filter = subs[s].filter
    PROVE  Positions' = Positions /\ Wants' = Wants
BY DEF Positions, Wants

(* A step that moves one cursor is an assignment to its position. *)
LEMMA OneMoved ==
    ASSUME TypeOK, NEW s \in Subs, NEW n, subs' = [subs EXCEPT ![s].cursor = n]
    PROVE  /\ Positions' = [Positions EXCEPT ![s] = n]
           /\ Wants' = Wants
<1>1. subs \in [Subs -> SubRow]
  BY DEF TypeOK
<1>2. subs'[s].cursor = n /\ subs'[s].filter = subs[s].filter
  BY <1>1 DEF SubRow
<1>3. \A t \in Subs \ {s} : subs'[t] = subs[t]
  BY <1>1
<1>4. \A t \in Subs : subs'[t].cursor = IF t = s THEN n ELSE subs[t].cursor
  BY <1>2, <1>3
<1>5. Positions' = [Positions EXCEPT ![s] = n]
  BY <1>4 DEF Positions
<1> QED BY <1>2, <1>3, <1>5 DEF Wants

(* A row that is appended comes after all the others. *)
LEMMA AppendEmits ==
    ASSUME TypeOK, IInv, NEW m \in Monitors, NEW k \in {"obs", "proto"}, Append(m, k)
    PROVE  \E r \in Queue!Row : r.mon = m /\ Queue!NewRow(r)
<1> DEFINE row == [seq |-> seq + 1, mon |-> m, kind |-> k]
<1>1. /\ seq < MaxSeq /\ seq \in Nat /\ MaxSeq \in Nat
      /\ history' = history \cup {row}
  BY Numbers, MaxSeqAssumption DEF Append
<1>2. row \in Queue!Row
  BY <1>1, FeedAssumption DEF Queue!Row
<1>3. \A q \in history : q.seq < row.seq
  BY <1>1, Numbers DEF IInv, LogInv
<1> HIDE DEF row
<1>4. Queue!NewRow(row)
  BY <1>1, <1>3 DEF Queue!NewRow
<1>5. row.mon = m
  BY DEF row
<1> QED BY <1>2, <1>4, <1>5

(* One past the head is past every row of the monitor, and just past it. *)
LEMMA PastTheHead ==
    ASSUME TypeOK, IInv, NEW s \in Subs
    PROVE  Queue!PastTheEnd(s, heads[MonitorOf[s]] + 1)
<1> DEFINE m == MonitorOf[s]
<1>1. m \in Monitors
  BY FeedAssumption
<1>2. heads[m] \in Nat /\ \A r \in history : r.seq \in Nat
  BY <1>1, Numbers
<1>3. /\ heads[m] \in {0} \cup SeqsOf(m, history)
      /\ \A n \in SeqsOf(m, history) : n <= heads[m]
  BY <1>1 DEF IInv, LogInv
<1> HIDE DEF m
<1>4. ASSUME NEW r \in history, r.mon = m PROVE r.seq < heads[m] + 1
  <2>1. r.seq \in SeqsOf(m, history)
    BY <1>4 DEF SeqsOf
  <2> QED BY <1>2, <1>3, <2>1
<1>5. heads[m] + 1 = 1 \/ \E r \in history : r.mon = m /\ r.seq = (heads[m] + 1) - 1
  BY <1>2, <1>3 DEF SeqsOf
<1> QED BY <1>4, <1>5 DEF m, Queue!PastTheEnd

(* What is settled below a place is settled for the queue. *)
LEMMA SettledForQueue ==
    ASSUME TypeOK, NEW s \in Subs, NEW n \in Nat, Settled(s, n)
    PROVE  \A r \in Queue!Wanted(s) : r.seq < n => r.seq \in accounted[s]
<1> SUFFICES ASSUME NEW r \in Queue!Wanted(s), r.seq < n PROVE r.seq \in accounted[s]
  OBVIOUS
<1>1. r \in history /\ Matches(r, MonitorOf[s], subs[s].filter)
  BY DEF Queue!Wanted, Matches
<1>2. r.seq \in 0..(n - 1)
  BY <1>1, Numbers
<1> QED BY <1>1, <1>2 DEF Settled

-----------------------------------------------------------------------------
(* Handlers.                                                                *)

(* A handler that logs and moves nothing emits a row. *)
LEMMA LogIsEmit ==
    ASSUME Known, NEW m \in Monitors, NEW k \in {"obs", "proto"}, Log(m, k),
           accounted' = accounted,
           \A s \in Subs : subs'[s].cursor = subs[s].cursor /\ subs'[s].filter = subs[s].filter
    PROVE  QueueStep
<1>1. Positions' = Positions /\ Wants' = Wants
  BY NothingMoved
<1>2. PICK r \in Queue!Row : Queue!NewRow(r)
  BY AppendEmits DEF Log, Known
<1>3. Queue!Emit(r)
  BY <1>1, <1>2 DEF Queue!Emit, Positions, Wants
<1> QED BY <1>2, <1>3 DEF QueueStep, Queue!Next

(* subscribe takes a position no lower than before, or the head. *)
LEMMA SubscribeIsSubscribe ==
    ASSUME Known, TypeOK', NEW s \in Subs, NEW n \in Cursor, NEW p \in Policies,
           NEW f \in Filters, Subscribe(s, n, p, f)
    PROVE  QueueStep
<1>1. subs \in [Subs -> SubRow] /\ subs[s].cursor \in Nat /\ n \in Nat
  BY Numbers, MaxSeqAssumption DEF TypeOK, Known, Cursor
<1>2. MonitorOf[s] \in Monitors /\ Filters \subseteq SUBSET Kinds
  BY FeedAssumption
<1>3. n >= subs[s].cursor \/ Queue!PastTheEnd(s, n)
  BY <1>1, PastTheHead DEF Subscribe, SubscribeCursors, Known
<1>4. PICK r \in Queue!Row : r.mon = MonitorOf[s] /\ Queue!NewRow(r)
  BY <1>2, AppendEmits DEF Subscribe, Log, Known
<1>5. /\ subs'[s].cursor = n /\ subs'[s].filter = f
      /\ \A t \in Subs \ {s} : subs'[t] = subs[t]
      /\ accounted' = [accounted EXCEPT ![s] = @ \cup 0..(n - 1)]
  BY <1>1 DEF Subscribe
<1>6. /\ Positions' = [Positions EXCEPT ![s] = n]
      /\ Wants' = [Wants EXCEPT ![s] = f]
  BY <1>5 DEF Positions, Wants
<1>7. Queue!Subscribe(s, n, f, r)
  BY <1>3, <1>4, <1>5, <1>6 DEF Queue!Subscribe, Queue!PassOver, Positions, Wants
<1>8. n \in 0..(MaxSeq + 1) /\ f \in SUBSET Kinds
  BY <1>2 DEF Cursor
<1> QED BY <1>4, <1>7, <1>8 DEF QueueStep, Queue!Next

(* seek goes anywhere below the head, on the record. *)
LEMMA SeekIsSeek ==
    ASSUME Known, TypeOK', NEW s \in Subs, NEW n \in Named, Seek(s, n)
    PROVE  QueueStep
<1>1. PICK to : /\ subs' = [subs EXCEPT ![s].cursor = to]
                /\ accounted' = [accounted EXCEPT ![s] = @ \cup 0..(to - 1)]
  BY DEF Seek
<1>2. MonitorOf[s] \in Monitors
  BY FeedAssumption
<1>3. PICK r \in Queue!Row : r.mon = MonitorOf[s] /\ Queue!NewRow(r)
  BY <1>2, AppendEmits DEF Seek, Log, Known
<1>4. Positions' = [Positions EXCEPT ![s] = to] /\ Wants' = Wants
  BY <1>1, OneMoved DEF Known
<1>5. Queue!Seek(s, to, r)
  BY <1>1, <1>3, <1>4 DEF Queue!Seek, Queue!PassOver, Positions, Wants
<1>6. to \in 0..(MaxSeq + 1)
  <2>1. subs \in [Subs -> SubRow] /\ subs'[s] \in SubRow
    BY DEF Known, TypeOK
  <2>2. subs'[s].cursor = to
    BY <1>1, <2>1 DEF SubRow
  <2> QED BY <2>1, <2>2 DEF SubRow, Cursor
<1> QED BY <1>3, <1>5, <1>6 DEF QueueStep, Queue!Next

(* An acknowledgement commits a place below which all is settled, or the    *)
(* head, which lies below such a place.                                     *)
LEMMA AckIsCommit ==
    ASSUME Known, TypeOK', NEW s \in Subs, NEW n \in Cursor, Ack(s, n)
    PROVE  QueueStep
<1> DEFINE top == heads[MonitorOf[s]] + 1
           to  == IF n < top THEN n ELSE top
<1> HIDE DEF to
<1>1. /\ history' = history /\ accounted' = accounted
      /\ subs' = [subs EXCEPT ![s].cursor = to]
      /\ subs[s].exists /\ n >= subs[s].cursor
      /\ n = subs[s].cursor \/ [sub |-> s, next |-> n] \in pages
  BY DEF Ack, LogUnchanged, ClientsUnchanged, Live, to
<1>2. /\ n \in Nat /\ top \in Nat /\ to \in Nat /\ to <= n
      /\ to = n \/ to = top
  <2>1. MonitorOf[s] \in Monitors
    BY FeedAssumption
  <2>2. n \in Nat /\ heads[MonitorOf[s]] \in Nat
    BY <2>1, Numbers DEF Known
  <2> QED BY <2>2 DEF to
<1>3. Settled(s, n)
  <2>1. CASE n = subs[s].cursor
    BY <1>1, <2>1 DEF Known, IInv, SubInv
  <2>2. CASE [sub |-> s, next |-> n] \in pages
    <3>1. PICK p \in pages : p = [sub |-> s, next |-> n]
      BY <2>2
    <3>2. Settled(p.sub, p.next)
      BY DEF Known, IInv, PageInv
    <3> QED BY <3>1, <3>2
  <2> QED BY <1>1, <2>1, <2>2
<1>4. \A r \in Queue!Wanted(s) : r.seq < to => r.seq \in accounted[s]
  BY <1>2, <1>3, SettledBelow, SettledForQueue DEF Known
<1>5. to >= subs[s].cursor \/ Queue!PastTheEnd(s, to)
  BY <1>1, <1>2, PastTheHead DEF Known
<1>6. to \in 0..(MaxSeq + 1)
  BY <1>2, MaxSeqAssumption DEF Cursor
<1>7. Positions' = [Positions EXCEPT ![s] = to] /\ Wants' = Wants
  BY <1>1, OneMoved DEF Known
<1>8. PICK k \in 0..(MaxSeq + 1) : k = to
  BY <1>6
<1>9. Queue!Commit(s, k)
  BY <1>1, <1>4, <1>5, <1>7, <1>8 DEF Queue!Commit, Positions, Wants
<1> QED BY <1>9 DEF QueueStep, Queue!Next

(* The second half of a reset tells the client, and moves up. *)
LEMMA MoveIsReset ==
    ASSUME Known, TypeOK', NEW c \in Calls, MoveToReset(c)
    PROVE  QueueStep
<1>1. calls[c] \in Call
  BY DEF MoveToReset, Known, TypeOK, NoCall
<1>2. PICK call \in Call : call = calls[c]
  BY <1>1
<1> DEFINE s == call.sub
           n == call.start
<1>3. s \in Subs /\ n \in 0..(MaxSeq + 1)
  BY DEF Call, Cursor
<1>4. /\ history' = history
      /\ subs' = [subs EXCEPT ![s].cursor = n]
      /\ accounted' = [accounted EXCEPT ![s] = @ \cup 0..(n - 1)]
      /\ subs[s].cursor < n
  BY <1>2 DEF MoveToReset, LogUnchanged, Known, ResetInv
<1>5. subs[s].cursor \in Nat /\ n \in Nat
  BY <1>3, Numbers, MaxSeqAssumption DEF Known
<1> HIDE DEF s, n
<1>6. Positions' = [Positions EXCEPT ![s] = n] /\ Wants' = Wants
  BY <1>3, <1>4, OneMoved DEF Known
<1>7. Queue!Reset(s, n)
  BY <1>3, <1>4, <1>5, <1>6 DEF Queue!Reset, Queue!PassOver, Positions, Wants
<1> QED BY <1>3, <1>7 DEF QueueStep, Queue!Next

(* A reply that reaches its client hands it rows it asked for; one that is  *)
(* lost, late or a replay changes nothing the queue speaks of.              *)
LEMMA DeliverIsReceive ==
    ASSUME Known, ScanAll, NEW c \in Calls, Deliver(c)
    PROVE  QueueStep
<1>1. calls[c].at = "reading" /\ LogUnchanged
  BY DEF Deliver, ReadDue
<1>2. PICK call \in Call : call = calls[c]
  BY <1>1, Reading DEF Known
<1>3. PICK P \in SUBSET rows :
         /\ IsPage(P, call)
         /\ \/ subs' = subs
            \/ subs' = [subs EXCEPT ![call.sub].deliveredMax =
                          HighWater({@} \cup {r.seq : r \in P})]
         /\ \/ /\ call.live /\ ~call.replay
               /\ accounted' = [accounted EXCEPT ![call.sub] = @ \cup {r.seq : r \in P}]
            \/ accounted' = accounted
  BY <1>2 DEF Deliver, Answer
<1> DEFINE s == call.sub
           seqs == {r.seq : r \in P}
<1>4. s \in Subs /\ history' = history
  BY <1>1 DEF Call, LogUnchanged
<1>5. Positions' = Positions /\ Wants' = Wants
  <2>1. subs \in [Subs -> SubRow]
    BY DEF Known, TypeOK
  <2>2. \A t \in Subs : subs'[t].cursor = subs[t].cursor /\ subs'[t].filter = subs[t].filter
    BY <1>3, <1>4, <2>1 DEF SubRow
  <2> QED BY <2>2, NothingMoved
<1>6. CASE accounted' = accounted
  BY <1>4, <1>5, <1>6 DEF QueueStep
<1>7. CASE /\ call.live /\ ~call.replay
           /\ accounted' = [accounted EXCEPT ![s] = @ \cup seqs]
  <2>1. P \subseteq Wanted(call)
    BY <1>1, <1>2, <1>3, Reading, PageCovers DEF Known, IInv
  <2>2. call.filter = subs[s].filter
    <3>1. CallOK(call)
      BY <1>1, <1>2 DEF Known, IInv, CallInv, NoCall
    <3> QED BY <1>7, <3>1 DEF CallOK
  <2>3. P \subseteq Queue!Wanted(s)
    BY <2>1, <2>2, <1>4 DEF Wanted, Queue!Wanted, Matches
  <2>4. seqs \subseteq {r.seq : r \in Queue!Wanted(s)}
    BY <2>3
  <2>5. seqs \in SUBSET (1..MaxSeq)
    BY <2>1, Numbers DEF Wanted, Known
  <2> HIDE DEF s, seqs
  <2>6. Queue!Receive(s, seqs)
    BY <1>4, <1>5, <1>7, <2>4 DEF Queue!Receive, Positions, Wants
  <2> QED BY <1>4, <2>5, <2>6 DEF QueueStep, Queue!Next
<1> QED BY <1>3, <1>6, <1>7

-----------------------------------------------------------------------------
(* The refinement.                                                          *)

(* Every handler is a step of the queue or none. *)
LEMMA EveryStep ==
    ASSUME Known, TypeOK', ScanAll, [Next]_vars
    PROVE  QueueStep
<1>s. subs \in [Subs -> SubRow]
  BY DEF Known, TypeOK
<1>a. ASSUME subs' = subs, history' = history, accounted' = accounted PROVE QueueStep
  BY <1>a, NothingMoved DEF QueueStep
<1>1. ASSUME NEW m \in Monitors,
             \/ CreateMonitor(m)
             \/ \E a \in Actions : MonitorAction(m, a)
             \/ \E k \in {"obs", "proto"} : Publish(m, k)
      PROVE  QueueStep
  <2>1. PICK k \in {"obs", "proto"} : Log(m, k) /\ subs' = subs /\ accounted' = accounted
    BY <1>1 DEF CreateMonitor, MonitorAction, Publish, ClientsUnchanged
  <2> QED BY <2>1, LogIsEmit
<1>2. ASSUME NEW s \in Subs, NEW more \in BOOLEAN, RetireSub(s) \/ Sweep(s, more)
      PROVE  QueueStep
  <2>1. /\ Log(MonitorOf[s], "proto") /\ accounted' = accounted
        /\ subs' = [subs EXCEPT ![s].active = FALSE]
    BY <1>2 DEF RetireSub, Sweep, ClientsUnchanged
  <2>2. \A t \in Subs : subs'[t].cursor = subs[t].cursor /\ subs'[t].filter = subs[t].filter
    BY <1>s, <2>1 DEF SubRow
  <2> QED BY <2>1, <2>2, LogIsEmit, FeedAssumption
<1>3. ASSUME NEW c \in Calls, NEW s \in Subs, PullReset(c, s) PROVE QueueStep
  <2>1. Log(MonitorOf[s], "proto") /\ subs' = subs /\ accounted' = accounted
    BY <1>3 DEF PullReset, ClientsUnchanged
  <2> QED BY <2>1, LogIsEmit, FeedAssumption
<1>4. ASSUME NEW c \in Calls,
             \/ \E s \in Subs : PullStored(c, s) \/ \E n \in Named : PullReplay(c, s, n)
             \/ Wait(c) \/ Timer(c)
      PROVE  QueueStep
  <2>1. UNCHANGED storeVars /\ ClientsUnchanged
    BY <1>4 DEF PullStored, PullReplay, Wait, Timer
  <2> QED BY <1>a, <2>1 DEF storeVars, ClientsUnchanged
<1>5. ASSUME NEW c \in Calls, AnswerEmpty(c) PROVE QueueStep
  <2>1. subs' = subs /\ history' = history
    BY <1>5 DEF AnswerEmpty, storeVars
  <2>2. accounted' = accounted \/ accounted' = [accounted EXCEPT ![calls[c].sub] = @ \cup {}]
    BY <1>5 DEF AnswerEmpty, Answer
  <2>3. accounted' = accounted
    BY <2>2 DEF Known, TypeOK
  <2> QED BY <1>a, <2>1, <2>3
<1>6. ASSUME SweepEnds \/ (\E u \in Named : Compact(u)) \/ UNCHANGED vars
      PROVE  QueueStep
  <2>1. subs' = subs /\ history' = history /\ accounted' = accounted
    BY <1>6 DEF SweepEnds, Compact, CompactUpTo, storeVars, ClientsUnchanged, vars
  <2> QED BY <1>a, <2>1
<1>7. ASSUME Restart PROVE QueueStep
  <2>1. subs' = subs /\ history' = history /\ accounted' = accounted
    BY <1>7 DEF Restart, Load, ClientsUnchanged, Known, IInv, DiskInv, Snapshot
  <2> QED BY <1>a, <2>1
<1> QED BY <1>1, <1>2, <1>3, <1>4, <1>5, <1>6, <1>7, SubscribeIsSubscribe, SeekIsSeek,
           AckIsCommit, MoveIsReset, DeliverIsReceive
        DEF Next, MonitorNext, SubNext, PullNext

(* The feed keeps the promise of the queue: whatever pulls, acknowledgements, *)
(* resets, compactions and restarts do, a position moves up only over what    *)
(* its client has received, was told of, or chose to pass over (core.ts,      *)
(* store.ts; spec/04-delivery.md, Guarantee).                                 *)
THEOREM RefinementCorrect == ScanAll => (Spec => ImplementsQueue)
<1> SUFFICES ASSUME ScanAll PROVE Spec => ImplementsQueue
  OBVIOUS
<1>1. Init => Queue!Init
  BY DEF Init, NoSub, Queue!Init
<1>2. Known /\ TypeOK' /\ [Next]_vars => [Queue!Next]_(Queue!vars)
  BY EveryStep DEF QueueStep, Queue!vars, Positions, Wants
<1>3. Init => ResetInv
  BY DEF Init, ResetInv, NoCall
<1>4. TypeOK /\ LogAndDisk /\ ResetInv /\ [Next]_vars => ResetInv'
  BY CursorNext
<1>5. Spec => []ResetInv
  BY <1>3, <1>4, TypeCorrect, LogCorrect, PTL DEF Spec
<1>6. Spec => []IInv
  BY InvCorrect
<1>7. TypeOK /\ IInv /\ ResetInv => Known
  BY DEF Known
<1> QED BY <1>1, <1>2, <1>5, <1>6, <1>7, TypeCorrect, PTL DEF Spec, ImplementsQueue, Queue!Spec
=============================================================================
