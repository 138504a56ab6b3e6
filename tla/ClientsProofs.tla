--------------------------- MODULE ClientsProofs ----------------------------
(***************************************************************************)
(* Theorems about Clients: what the watch may acknowledge and what a       *)
(* stream's client receives, for any log bound, page size, number of late  *)
(* requests and policies.                                                  *)
(*                                                                         *)
(* As for the bridge, the argument does not follow the loop.  A request    *)
(* that moves the cursor is harmless from the moment it is made, however   *)
(* late it arrives, because what lies below its cursor stays accounted for.*)
(***************************************************************************)
EXTENDS Clients, FiniteSetTheorems, WellFoundedInduction, SequenceTheorems, TLAPS

(* A row the session needs no more, and one it has at least been shown. *)
Accounted(i) == i \in handled \/ i \in passed \/ i < told

Below(n) == \A i \in Matching : i < n => Accounted(i)
Known(n) == \A i \in Matching : i < n => Accounted(i) \/ i \in seen

(* An acknowledgement or a seek that may do no harm. *)
Harmless(request, n) ==
    /\ request \in {"acking", "seeking"}
    /\ n \in Nat /\ n >= 1
    /\ request = "acking" => n <= Len(log) + 1 /\ Below(n)
    /\ request = "seeking" => n <= told

Waiting == watch \in {"acking", "seeking"}

(* What the last event written was, the one received when none is on its way. *)
LastWritten == IF wire = <<>> THEN last ELSE wire[Len(wire)]

EventBefore(k) == IF k = 1 THEN last ELSE wire[k - 1]

-----------------------------------------------------------------------------
(* The inductive invariant.                                                 *)

Shape ==
    /\ ServerTypeOK
    /\ reader \in Readers
    /\ watch \in {"off", "catching", "pulling", "acking", "seeking"}
    /\ readFrom \in Nat /\ asked \in Nat /\ told \in Nat
    /\ stream \in {"off", "probing", "open"}
    /\ from \in Nat /\ last \in Nat /\ place \in Nat
    /\ wire \in Seq(Nat)

RequestInv ==
    /\ IF Waiting THEN Harmless(watch, asked) ELSE asked = 0
    /\ \A x \in late : x = <<x[1], x[2]>> /\ Harmless(x[1], x[2])

(* What a session was shown follows on what is accounted for, and so does   *)
(* the place from which the watch reads on.                                 *)
SeenInv ==
    /\ \A i \in seen : i \in Matching /\ Known(i + 1)
    /\ watch # "off" => readFrom <= Len(log) + 1 /\ Known(readFrom)
    /\ AcksPrinted => readFrom = 0

WatchInv == NothingUnseen /\ RequestInv /\ SeenInv

(* Each event is the row after the one before it, and the stream goes on    *)
(* after the last one it has written.                                       *)
WireInv ==
    /\ \A k \in DOMAIN wire :
          /\ wire[k] \in Matching /\ EventBefore(k) < wire[k]
          /\ \A i \in Matching : i > EventBefore(k) => wire[k] <= i
    /\ stream = "probing" => wire = <<>>
    /\ stream = "open" => place = LastWritten + 1

IInv == Shape /\ WatchInv /\ WireInv

-----------------------------------------------------------------------------
(* Largest elements, and the first of a set.                                *)

(* A nonempty set of naturals has a smallest element. *)
LEMMA SmallestExists ==
    ASSUME NEW S \in SUBSET Nat, S # {}
    PROVE  \E n \in S : \A k \in S : n <= k
<1>1. PICK n \in S : \A k \in S : ~ (<<k, n>> \in OpToRel(<,Nat))
  BY NatLessThanWellFounded, WFMin, Zenon
<1>2. \A k \in S : ~ (k < n)
  BY <1>1 DEF OpToRel
<1> QED BY <1>2

(* A set of naturals that is bounded has a largest element, and HighWater   *)
(* is it.                                                                   *)
LEMMA HighWaterIs ==
    ASSUME NEW m \in Nat, NEW S \in SUBSET (0..m), S # {}
    PROVE  HighWater(S) \in S /\ \A y \in S : y <= HighWater(S)
<1> DEFINE T == {k \in Nat : m - k \in S}
<1>1. T \in SUBSET Nat /\ T # {}
  <2>1. PICK y \in S : TRUE
    OBVIOUS
  <2>2. m - y \in T
    BY <2>1, m - (m - y) = y
  <2> QED BY <2>2
<1>2. PICK n \in T : \A k \in T : n <= k
  <2> HIDE DEF T
  <2> QED BY <1>1, SmallestExists
<1>4. m - n \in S /\ \A y \in S : y <= m - n
  <2>1. m - n \in S /\ n \in Nat
    BY <1>2
  <2>2. ASSUME NEW y \in S PROVE y <= m - n
    <3>1. m - y \in T
      BY m - (m - y) = y
    <3>2. n <= m - y /\ y \in Nat
      BY <3>1, <1>2
    <3> QED BY <3>2, <2>1
  <2> QED BY <2>1, <2>2
<1> QED BY <1>4 DEF HighWater

(* The higher of two floors, as the watch remembers them. *)
LEMMA HigherOfTwo ==
    ASSUME NEW a \in Nat, NEW b \in Nat
    PROVE  HighWater({a, b}) \in {a, b} /\ HighWater({a, b}) >= a /\ HighWater({a, b}) >= b
<1>1. \E m \in Nat : {a, b} \subseteq 0..m
  <2>1. a + b \in Nat /\ {a, b} \subseteq 0..(a + b)
    OBVIOUS
  <2> QED BY <2>1
<1>2. PICK m \in Nat : {a, b} \in SUBSET (0..m)
  BY <1>1
<1>3. HighWater({a, b}) \in {a, b} /\ \A y \in {a, b} : y <= HighWater({a, b})
  BY <1>2, HighWaterIs
<1> QED BY <1>3

(* What is known of the numbers of a well-typed server. *)
LEMMA LogNumbers ==
    ASSUME ServerTypeOK
    PROVE  /\ Len(log) \in Nat /\ DOMAIN log = 1..Len(log) /\ Len(log) <= MaxSeq /\ MaxSeq \in Nat
           /\ Matching \subseteq 1..Len(log) /\ Matching \subseteq Nat
           /\ cursor \in Nat /\ cursor >= 1 /\ cursor <= Len(log) + 1
           /\ floor \in Nat /\ floor <= Len(log) + 1
BY SubscriptionAssumption DEF ServerTypeOK, Matching

(* headOf (store.ts): the head of the monitor is in the log, or 0.          *)
LEMMA OwnHeadIs ==
    ASSUME ServerTypeOK
    PROVE  OwnHead \in Nat /\ OwnHead <= Len(log)
<1>1. Len(log) \in Nat /\ {0} \cup OwnRows \in SUBSET (0..Len(log))
  BY LogNumbers DEF OwnRows
<1>2. OwnHead \in 0..Len(log)
  BY <1>1, HighWaterIs DEF OwnHead
<1> QED BY <1>1, <1>2

(* The first rows of a set leave out none before the last of them.          *)
LEMMA FirstOfIsClosed ==
    ASSUME NEW m \in Nat, NEW S \in SUBSET (1..m), NEW n \in Nat, NEW i \in FirstOf(S, n),
           NEW j \in S, j < i
    PROVE  j \in FirstOf(S, n)
<1> DEFINE Less(x) == {y \in S : y < x}
<1>1. IsFiniteSet(1..m)
  BY FS_Interval
<1>2. IsFiniteSet(Less(i)) /\ Less(j) \subseteq Less(i)
  <2>1. Less(i) \subseteq 1..m
    OBVIOUS
  <2>2. \A y \in S : y < j => y < i
    BY FirstOf(S, n) \subseteq S DEF FirstOf
  <2> QED BY <1>1, <2>1, <2>2, FS_Subset
<1>3. Cardinality(Less(j)) <= Cardinality(Less(i))
      /\ Cardinality(Less(i)) \in Nat /\ Cardinality(Less(j)) \in Nat
  BY <1>2, FS_Subset, FS_CardinalityType
<1>4. Cardinality(Less(i)) < n
  BY DEF FirstOf
<1> QED BY <1>3, <1>4 DEF FirstOf

(* `next` of a page is the row after its last one.                          *)
LEMMA FollowingIs ==
    ASSUME ServerTypeOK, NEW rows \in SUBSET DOMAIN log, rows # {}
    PROVE  /\ Following(rows) \in Nat /\ Following(rows) >= 1 /\ Following(rows) <= Len(log) + 1
           /\ Following(rows) - 1 \in rows
           /\ \A i \in rows : i < Following(rows)
<1>1. Len(log) \in Nat /\ rows \in SUBSET (0..Len(log))
  BY LogNumbers
<1>2. HighWater(rows) \in rows /\ \A y \in rows : y <= HighWater(rows)
  BY <1>1, HighWaterIs
<1> QED BY <1>1, <1>2 DEF Following

(* A page of the rows D: below its `next` there is nothing else of D.       *)
LEMMA PageIsClosed ==
    ASSUME ServerTypeOK, NEW D \in SUBSET DOMAIN log, NEW rows, rows # {},
           rows = D \/ rows = FirstOf(D, Limit)
    PROVE  /\ rows \subseteq D
           /\ \A j \in D : j < Following(rows) => j \in rows
<1>1. rows \subseteq D
  BY DEF FirstOf
<1>2. rows \in SUBSET DOMAIN log /\ D \in SUBSET (1..Len(log)) /\ Len(log) \in Nat
  BY <1>1, LogNumbers
<1>3. PICK i \in rows : i = Following(rows) - 1
  BY <1>2, FollowingIs
<1>4. ASSUME NEW j \in D, j < Following(rows) PROVE j \in rows
  <2>1. j < i \/ j = i
    BY <1>1, <1>2, <1>3, <1>4, FollowingIs
  <2>2. CASE j < i /\ rows = FirstOf(D, Limit)
    BY <1>2, <1>3, <2>2, FirstOfIsClosed, ClientsAssumption
  <2> QED BY <1>3, <2>1, <2>2
<1> QED BY <1>1, <1>4

-----------------------------------------------------------------------------
(* What grows.                                                              *)

(* Rows are appended, and what is accounted for stays so.                   *)
Grows ==
    /\ log' \in Seq(Kinds) /\ Len(log) <= Len(log')
    /\ \A i \in DOMAIN log : log'[i] = log[i]
    /\ passed \subseteq passed' /\ handled \subseteq handled' /\ told <= told'

(* Appending makes no row match that did not, and none stop matching. *)
LEMMA MatchingGrows ==
    ASSUME ServerTypeOK, ServerTypeOK', Grows
    PROVE  /\ Matching \subseteq Matching'
           /\ \A i \in Matching' : i \in Nat /\ (i <= Len(log) => i \in Matching)
<1>1. DOMAIN log = 1..Len(log) /\ DOMAIN log' = 1..Len(log') /\ Len(log) \in Nat /\ Len(log') \in Nat
  BY DEF ServerTypeOK
<1> QED BY <1>1 DEF Matching, Grows

(* What is accounted for below a number stays so, whatever is appended. *)
LEMMA BelowGrows ==
    ASSUME ServerTypeOK, ServerTypeOK', Grows, told \in Nat, told' \in Nat,
           NEW n \in Nat, n <= Len(log) + 1
    PROVE  /\ Below(n) => Below(n)'
           /\ Known(n) /\ seen \subseteq seen' => Known(n)'
<1>1. \A i \in Matching' : i < n => i \in Matching
  BY MatchingGrows, LogNumbers
<1>2. ASSUME NEW i \in Matching, Accounted(i) PROVE Accounted(i)'
  BY <1>2, LogNumbers DEF Accounted, Grows
<1>3. Below(n) => Below(n)'
  BY <1>1, <1>2 DEF Below
<1>4. Known(n) /\ seen \subseteq seen' => Known(n)'
  BY <1>1, <1>2 DEF Known
<1> QED BY <1>3, <1>4

(* A request does not become harmful by arriving late. *)
LEMMA HarmlessStays ==
    ASSUME ServerTypeOK, ServerTypeOK', Grows, told \in Nat, told' \in Nat,
           NEW r, NEW n, Harmless(r, n)
    PROVE  Harmless(r, n)'
<1>1. Len(log) \in Nat /\ Len(log') \in Nat /\ Len(log) <= Len(log')
  BY LogNumbers DEF Grows, ServerTypeOK
<1>2. CASE r = "acking"
  BY <1>1, <1>2, BelowGrows DEF Harmless
<1>3. CASE r = "seeking"
  BY <1>3 DEF Harmless, Grows
<1> QED BY <1>2, <1>3 DEF Harmless

(* The requests under way, and the rows that were shown, after a step.      *)
LEMMA LateStays ==
    ASSUME Shape, RequestInv, ServerTypeOK', Grows, told' \in Nat
    PROVE  \A x \in late : x = <<x[1], x[2]>> /\ Harmless(x[1], x[2])'
<1> SUFFICES ASSUME NEW x \in late PROVE x = <<x[1], x[2]>> /\ Harmless(x[1], x[2])'
  OBVIOUS
<1>1. x = <<x[1], x[2]>> /\ Harmless(x[1], x[2])
  BY DEF RequestInv
<1> QED BY <1>1, HarmlessStays DEF Shape

(* What the session was shown still follows on what is accounted for. *)
LEMMA SeenStays ==
    ASSUME Shape, SeenInv, ServerTypeOK', Grows, told' \in Nat, seen \subseteq seen'
    PROVE  \A i \in seen : i \in Matching' /\ Known(i + 1)'
<1> SUFFICES ASSUME NEW i \in seen PROVE i \in Matching' /\ Known(i + 1)'
  OBVIOUS
<1>1. i \in Matching /\ Known(i + 1)
  BY DEF SeenInv
<1>2. i + 1 \in Nat /\ i + 1 <= Len(log) + 1
  BY <1>1, LogNumbers DEF Shape
<1> QED BY <1>1, <1>2, BelowGrows, MatchingGrows DEF Shape

(* A place from which the watch may read on. *)
LEMMA PlaceStays ==
    ASSUME Shape, ServerTypeOK', Grows, told' \in Nat, seen \subseteq seen',
           NEW c \in Nat, c <= Len(log) + 1, Known(c)
    PROVE  c <= Len(log') + 1 /\ Known(c)'
<1>1. Len(log) <= Len(log') /\ Len(log) \in Nat /\ Len(log') \in Nat
  BY LogNumbers DEF Grows, Shape, ServerTypeOK
<1> QED BY <1>1, BelowGrows DEF Shape

(* A stream's events stay in order when rows are appended. *)
LEMMA WireStays ==
    ASSUME Shape, WireInv, ServerTypeOK', Grows, UNCHANGED <<stream, from, last, place, wire>>
    PROVE  WireInv'
<1>1. ASSUME NEW k \in DOMAIN wire
      PROVE  /\ wire[k] \in Matching' /\ EventBefore(k) < wire[k]
             /\ \A i \in Matching' : i > EventBefore(k) => wire[k] <= i
  <2>1. wire[k] \in Matching /\ EventBefore(k) < wire[k]
        /\ \A i \in Matching : i > EventBefore(k) => wire[k] <= i
    BY DEF WireInv
  <2>2. wire[k] <= Len(log) /\ wire[k] \in Nat /\ Len(log) \in Nat
    BY <2>1, LogNumbers DEF Shape
  <2>3. ASSUME NEW i \in Matching', i > EventBefore(k) PROVE wire[k] <= i
    <3>1. i \in Nat /\ (i <= Len(log) => i \in Matching)
      BY MatchingGrows DEF Shape
    <3> QED BY <2>1, <2>2, <2>3, <3>1
  <2> QED BY <2>1, <2>3, MatchingGrows DEF Shape
<1>2. \A k \in DOMAIN wire : EventBefore(k)' = EventBefore(k)
  BY DEF EventBefore
<1>3. LastWritten' = LastWritten
  BY DEF LastWritten
<1> QED BY <1>1, <1>2, <1>3 DEF WireInv

-----------------------------------------------------------------------------
(* The server's side.                                                       *)

(* One more row at the end of the log. *)
LEMMA LogGrows ==
    ASSUME ServerTypeOK, Len(log) < MaxSeq, NEW k \in Kinds, log' = Append(log, k)
    PROVE  /\ log' \in Seq(Kinds) /\ Len(log') = Len(log) + 1 /\ Len(log') <= MaxSeq
           /\ \A i \in DOMAIN log : log'[i] = log[i]
           /\ DOMAIN log \subseteq DOMAIN log' /\ DOMAIN log' = 1..Len(log')
<1>1. /\ log' \in Seq(Kinds) /\ Len(log') = Len(log) + 1
      /\ \A i \in DOMAIN log : log'[i] = log[i]
  BY DEF ServerTypeOK
<1> QED BY <1>1, LogNumbers

(* What moves the cursor without being asked to passes over rows.           *)
LEMMA MovedAwayStep ==
    ASSUME ServerTypeOK, ServerTypeOK', Grows, told \in Nat, told' \in Nat, NothingUnseen,
           NEW n \in Nat, MovedAway(n)
    PROVE  NothingUnseen'
<1> SUFFICES ASSUME NEW i \in Matching', i < n
             PROVE  i \in handled' \/ i \in passed' \/ i < told'
  BY DEF NothingUnseen, MovedAway
<1>1. i \in Nat /\ (i <= Len(log) => i \in Matching)
  BY MatchingGrows
<1>2. CASE i < cursor
  BY <1>1, <1>2, LogNumbers DEF NothingUnseen, Grows
<1>3. CASE i >= cursor
  BY <1>1, <1>3, LogNumbers DEF MovedAway
<1> QED BY <1>1, <1>2, <1>3, LogNumbers

(* A step that leaves the cursor alone. *)
LEMMA CursorStays ==
    ASSUME ServerTypeOK, ServerTypeOK', Grows, told \in Nat, told' \in Nat, NothingUnseen,
           cursor' = cursor
    PROVE  NothingUnseen'
<1>1. Below(cursor) /\ cursor \in Nat /\ cursor <= Len(log) + 1
  BY LogNumbers DEF Below, NothingUnseen, Accounted
<1>2. PICK c : c = cursor
  OBVIOUS
<1>3. Below(c)'
  BY <1>1, <1>2, BelowGrows
<1> QED BY <1>2, <1>3 DEF Below, NothingUnseen, Accounted

(* Whatever happens at the server meanwhile (core.ts: publish, compact,    *)
(* ack, seek, retire, and the reset of a read) leaves no row unseen.       *)
LEMMA ServerStep ==
    ASSUME ServerTypeOK, told \in Nat, NothingUnseen, UNCHANGED <<handled, told>>,
           ServerMoves \/ Reset
    PROVE  ServerTypeOK' /\ Grows /\ NothingUnseen'
<1>0. OwnHead \in Nat /\ OwnHead <= Len(log) /\ "own" \in Kinds
  BY OwnHeadIs DEF Kinds
<1> USE LogNumbers
<1>1. ASSUME NEW k \in Kinds, Publish(k)
      PROVE  ServerTypeOK' /\ Grows /\ NothingUnseen'
  <2>1. ServerTypeOK' /\ Grows
    BY <1>1, LogGrows DEF Publish, ServerTypeOK, Grows
  <2> QED BY <1>1, <2>1, CursorStays DEF Publish
<1>2. ASSUME NEW u \in 1..Len(log), Compact(u)
      PROVE  ServerTypeOK' /\ Grows /\ NothingUnseen'
  <2>1. ServerTypeOK' /\ Grows
    BY <1>2 DEF Compact, ServerTypeOK, Grows
  <2> QED BY <1>2, <2>1, CursorStays DEF Compact
<1>3. ASSUME NEW n \in 1..MaxSeq + 1, OtherAck(n)
      PROVE  ServerTypeOK' /\ Grows /\ NothingUnseen'
  <2>1. ServerTypeOK' /\ Grows
    BY <1>0, <1>3 DEF OtherAck, MovedAway, ServerTypeOK, Grows
  <2> QED BY <1>3, <2>1, MovedAwayStep DEF OtherAck
<1>4. ASSUME NEW n \in 1..MaxSeq + 1, Seek(n)
      PROVE  ServerTypeOK' /\ Grows /\ NothingUnseen'
  <2>1. ServerTypeOK' /\ Grows
    BY <1>0, <1>4, LogGrows DEF Seek, MovedAway, ServerTypeOK, Grows
  <2> QED BY <1>4, <2>1, MovedAwayStep DEF Seek
<1>5. CASE Retire
  <2>0. active' \in BOOLEAN /\ UNCHANGED <<cursor, floor, policy, passed, moved>>
    BY <1>5 DEF Retire
  <2>1. /\ log' \in Seq(Kinds) /\ Len(log') = Len(log) + 1 /\ Len(log') <= MaxSeq
        /\ \A i \in DOMAIN log : log'[i] = log[i]
        /\ DOMAIN log \subseteq DOMAIN log'
    BY <1>0, <1>5, LogGrows DEF Retire
  <2>2. ServerTypeOK'
    BY <2>0, <2>1 DEF ServerTypeOK
  <2>3. Grows
    BY <2>0, <2>1 DEF Grows
  <2> QED BY <2>0, <2>2, <2>3, CursorStays
<1>6. CASE Reset
  <2>1. PICK n : n = IF policy = "latest" THEN OwnHead + 1 ELSE floor
    OBVIOUS
  <2>2. n \in Nat /\ n >= 1 /\ n <= Len(log) + 1
    BY <1>0, <1>6, <2>1 DEF Reset, ResetDue, LostSince, OwnRows
  <2>3. MovedAway(n)
    BY <1>6, <2>1 DEF Reset
  <2>4. ServerTypeOK' /\ Grows
    BY <1>0, <1>6, <2>2, <2>3, LogGrows DEF Reset, MovedAway, ServerTypeOK, Grows
  <2> QED BY <2>2, <2>3, <2>4, MovedAwayStep
<1>7. {"matching", "foreign"} \subseteq Kinds
  BY DEF Kinds
<1> QED BY <1>1, <1>2, <1>3, <1>4, <1>5, <1>6, <1>7 DEF ServerMoves

(* A request that was harmless when it was made moves the cursor over       *)
(* nothing that is not accounted for, whenever it arrives.                  *)
LEMMA RequestStep ==
    ASSUME ServerTypeOK, told \in Nat, NothingUnseen, UNCHANGED <<handled, told>>,
           NEW r, NEW n, Harmless(r, n), IF r = "acking" THEN AckAt(n) ELSE SeekAt(n)
    PROVE  ServerTypeOK' /\ Grows /\ NothingUnseen'
<1>0. OwnHead \in Nat /\ OwnHead <= Len(log) /\ "own" \in Kinds /\ n \in Nat /\ n >= 1
  BY OwnHeadIs DEF Kinds, Harmless
<1>1. /\ UNCHANGED <<floor, active, policy, passed, moved>>
      /\ log' = log \/ (Len(log) < MaxSeq /\ log' = Append(log, "own"))
      /\ cursor' = cursor \/ cursor' = (IF n <= OwnHead + 1 THEN n ELSE OwnHead + 1)
  BY DEF AckAt, SeekAt, AckTo
<1>2. cursor' \in 1..Len(log) + 1
  BY <1>0, <1>1, LogNumbers
<1>3. ServerTypeOK' /\ Grows
  BY <1>0, <1>1, <1>2, LogGrows, LogNumbers DEF ServerTypeOK, Grows
<1>4. CASE cursor' = cursor
  BY <1>3, <1>4, CursorStays
<1>5. CASE cursor' # cursor
  <2>1. PICK c \in Nat : c = cursor' /\ c <= n /\ c <= Len(log) + 1
    BY <1>0, <1>1, <1>2, <1>5, LogNumbers
  <2>2. ASSUME NEW i \in Matching', i < c
        PROVE  i \in handled' \/ i \in passed' \/ i < told'
    <3>1. i \in Nat /\ (i <= Len(log) => i \in Matching) /\ Len(log) \in Nat
      BY <1>3, MatchingGrows, LogNumbers
    <3>2. i \in Matching /\ i < n
      BY <1>0, <2>1, <2>2, <3>1
    <3>3. CASE r = "acking"
      BY <1>1, <3>2, <3>3 DEF Harmless, Below, Accounted
    <3>4. CASE r = "seeking"
      BY <1>0, <3>1, <3>2, <3>4 DEF Harmless
    <3> QED BY <3>3, <3>4 DEF Harmless
  <2> QED BY <1>3, <2>1, <2>2 DEF NothingUnseen
<1> QED BY <1>3, <1>4, <1>5

-----------------------------------------------------------------------------
(* The steps of the watch.                                                  *)

(* A step that leaves the server alone. *)
LEMMA ServerStays ==
    ASSUME ServerTypeOK, UNCHANGED serverVars, handled \subseteq handled', told <= told'
    PROVE  ServerTypeOK' /\ Grows /\ Matching' = Matching
<1>1. ServerTypeOK'
  BY DEF ServerTypeOK, serverVars
<1>2. Grows
  BY LogNumbers DEF ServerTypeOK, serverVars, Grows
<1>3. Matching' = Matching
  BY DEF Matching, serverVars
<1> QED BY <1>1, <1>2, <1>3

(* Before the first row there is nothing to account for. *)
LEMMA KnownFromStart ==
    ASSUME ServerTypeOK'
    PROVE  Known(0)'
BY DEF ServerTypeOK, Known, Matching

(* What a step of the watch has to leave, in terms of where it leaves the   *)
(* watch (w, waiting for c) and its own place (p).                          *)
LEMMA WatchGoesOn ==
    ASSUME IInv, ServerTypeOK', Grows, NothingUnseen', told' \in Nat, UNCHANGED streamVars,
           NEW w \in {"off", "catching", "pulling", "acking", "seeking"}, watch' = w,
           NEW c \in Nat, asked' = c,
           IF w \in {"acking", "seeking"} THEN Harmless(w, c)' ELSE c = 0,
           NEW p \in Nat, readFrom' = p,
           w # "off" => p <= Len(log') + 1 /\ Known(p)',
           AcksPrinted => p = 0,
           \A i \in seen' : i \in Matching' /\ Known(i + 1)',
           \A x \in late' : x = <<x[1], x[2]>> /\ Harmless(x[1], x[2])'
    PROVE  IInv'
<1>0. UNCHANGED <<reader, stream, from, last, place, wire>>
  BY DEF streamVars
<1>1. Shape'
  BY <1>0 DEF IInv, Shape
<1>2. RequestInv'
  <2>1. IF Waiting' THEN Harmless(watch, asked)' ELSE asked' = 0
    BY DEF Waiting, Harmless, Below, Accounted, Matching
  <2> QED BY <2>1 DEF RequestInv
<1>3. SeenInv'
  <2>1. \A i \in seen' : i \in Matching' /\ Known(i + 1)'
    OBVIOUS
  <2>2. watch' # "off" => readFrom' <= Len(log') + 1 /\ Known(readFrom)'
    BY DEF Known
  <2>3. AcksPrinted' => readFrom' = 0
    BY <1>0 DEF AcksPrinted
  <2> QED BY <2>1, <2>2, <2>3 DEF SeenInv
<1>4. WireInv'
  BY <1>0, WireStays DEF IInv
<1> QED BY <1>1, <1>2, <1>3, <1>4 DEF IInv, WatchInv

(* The watch starts without a place of its own. *)
LEMMA StartStep ==
    ASSUME IInv, Start
    PROVE  IInv'
<1>1. /\ ServerTypeOK /\ told \in Nat /\ NothingUnseen /\ RequestInv /\ SeenInv /\ Shape
      /\ UNCHANGED serverVars /\ UNCHANGED streamVars
      /\ UNCHANGED <<asked, told, seen, handled, late>> /\ readFrom' = 0
  BY DEF IInv, Shape, WatchInv, Start
<1>2. ServerTypeOK' /\ Grows /\ NothingUnseen'
  BY <1>1, ServerStays, CursorStays DEF serverVars
<1>3. asked' = 0
  BY <1>1 DEF RequestInv, Waiting, Start
<1>4. PICK w \in {"catching", "pulling"} : watch' = w
  BY DEF Start
<1>5. Known(0)' /\ 0 <= Len(log') + 1
  BY <1>2, KnownFromStart, LogNumbers DEF ServerTypeOK
<1>6. \A i \in seen' : i \in Matching' /\ Known(i + 1)'
  BY <1>1, <1>2, SeenStays
<1>7. \A x \in late' : x = <<x[1], x[2]>> /\ Harmless(x[1], x[2])'
  BY <1>1, <1>2, LateStays
<1> QED BY <1>1, <1>2, <1>3, <1>4, <1>5, <1>6, <1>7, WatchGoesOn

(* read() (core.ts): what it finds from c are matching rows at or after c,  *)
(* and before one of them it leaves out none that compaction has left,      *)
(* although it may end its scan after it.                                   *)
LEMMA FromIs ==
    ASSUME ServerTypeOK, NEW c \in Nat
    PROVE  /\ From(c) \in SUBSET (1..Len(log)) /\ From(c) \subseteq Matching
           /\ \A i \in From(c) : c <= i
           /\ \A i \in From(c), j \in Matching : j <= i /\ c <= j /\ floor <= j => j \in From(c)
<1>1. ScanCap \in Nat
  BY SubscriptionAssumption
<1>2. PICK start \in Nat : start = (IF c > floor THEN c ELSE floor) /\ c <= start
  BY LogNumbers
<1>3. \A i : i \in From(c) <=> i \in Matching /\ start <= i /\ i < start + ScanCap
  BY <1>2 DEF From, Scanned, Matching
<1>4. \A i \in Matching : i \in 1..Len(log) /\ i \in Nat
  BY LogNumbers
<1>5. ASSUME NEW i \in From(c), NEW j \in Matching, j <= i, c <= j, floor <= j PROVE j \in From(c)
  <2>1. start <= j
    BY <1>2, <1>5
  <2> QED BY <1>1, <1>3, <1>4, <1>5, <2>1
<1> QED BY <1>1, <1>2, <1>3, <1>4, <1>5

(* What a page leaves out before its last row is accounted for, or shown    *)
(* already to the session whose watch reads on by itself.                   *)
Follows(rows) ==
    /\ rows \subseteq Matching
    /\ \A r \in rows, j \in Matching :
          j <= r => j \in rows \/ Accounted(j) \/ (readFrom # 0 /\ j \in seen)

(* A page read from the stored cursor (pull with no cursor) leaves out     *)
(* nothing that is not accounted for.                                      *)
LEMMA DueFollows ==
    ASSUME ServerTypeOK, NothingUnseen, ~Refused, ~ResetDue,
           NEW rows, rows = Due \/ rows = FirstOf(Due, Limit)
    PROVE  Follows(rows)
<1>1. rows \subseteq Due /\ Due \in SUBSET (1..Len(log)) /\ Due \subseteq Matching /\ Len(log) \in Nat
  <2>1. PICK c \in Nat : c = cursor
    BY LogNumbers
  <2>2. Due = From(c)
    BY <2>1 DEF Due
  <2> QED BY <2>2, FromIs, LogNumbers DEF FirstOf
<1>2. ~LostSince
  BY DEF Refused, ResetDue
<1>3. ASSUME NEW r \in rows, NEW j \in Matching, j <= r
      PROVE  j \in rows \/ Accounted(j)
  <2>1. CASE j < cursor
    BY <2>1 DEF NothingUnseen, Accounted
  <2>2. CASE j >= cursor
    <3>1. j \in OwnRows
      BY DEF Matching, OwnRows
    <3>2. j >= floor
      BY <1>2, <2>2, <3>1, LogNumbers DEF LostSince
    <3>3. j \in Due
      <4>1. PICK c \in Nat : c = cursor
        BY LogNumbers
      <4>2. Due = From(c)
        BY <4>1 DEF Due
      <4> QED BY <1>1, <1>3, <2>2, <3>2, <4>1, <4>2, FromIs
    <3>4. CASE j < r /\ rows = FirstOf(Due, Limit)
      BY <1>1, <1>3, <3>3, <3>4, FirstOfIsClosed, ClientsAssumption
    <3>5. j = r \/ j < r
      BY <1>1, <1>3, <3>3
    <3> QED BY <3>3, <3>4, <3>5
  <2> QED BY <2>1, <2>2, LogNumbers
<1> QED BY <1>1, <1>3 DEF Follows

(* A page read from an explicit cursor leaves out nothing that is not      *)
(* known.                                                                  *)
LEMMA FromFollows ==
    ASSUME ServerTypeOK, NEW c \in Nat, c = readFrom, c # 0, Known(c), ~RefusedAt(c),
           NEW rows, rows = FirstOf(From(c), Limit)
    PROVE  Follows(rows)
<1>1. rows \subseteq From(c) /\ From(c) \in SUBSET (1..Len(log)) /\ From(c) \subseteq Matching
      /\ Len(log) \in Nat
  BY LogNumbers, FromIs DEF FirstOf
<1>2. ASSUME NEW r \in rows, NEW j \in Matching, j <= r
      PROVE  j \in rows \/ Accounted(j) \/ j \in seen
  <2>1. CASE j < c
    BY <2>1 DEF Known
  <2>2. CASE j >= c
    <3>1. j >= floor
      BY <2>2, LogNumbers DEF RefusedAt
    <3>2. j \in From(c)
      BY <1>1, <1>2, <2>2, <3>1, FromIs
    <3>3. CASE j < r
      BY <1>1, <3>2, <3>3, FirstOfIsClosed, ClientsAssumption
    <3>4. j = r \/ j < r
      BY <1>1, <1>2, <3>2
    <3> QED BY <3>3, <3>4
  <2> QED BY <2>1, <2>2, LogNumbers
<1> QED BY <1>1, <1>2 DEF Follows

(* Rows that are printed follow on, and so does the place after them.       *)
LEMMA ShownFollow ==
    ASSUME Shape, SeenInv, UNCHANGED serverVars, UNCHANGED <<handled, told>>,
           NEW rows, Follows(rows), seen' = seen \cup rows
    PROVE  \A i \in seen' : i \in Matching' /\ Known(i + 1)'
<1>1. ServerTypeOK' /\ Grows /\ Matching' = Matching /\ Matching \subseteq Nat /\ told' \in Nat
  BY ServerStays, LogNumbers DEF Shape
<1>2. ASSUME NEW i \in seen PROVE i \in Matching' /\ Known(i + 1)'
  BY <1>1, SeenStays
<1>3. ASSUME NEW i \in rows PROVE i \in Matching' /\ Known(i + 1)'
  <2>1. ASSUME NEW j \in Matching, j < i + 1 PROVE Accounted(j)' \/ j \in seen'
    <3>1. j <= i
      BY <1>1, <2>1 DEF Follows
    <3> QED BY <3>1, <1>1, LogNumbers DEF Follows, Accounted, serverVars
  <2> QED BY <1>1, <2>1 DEF Known, Follows
<1> QED BY <1>2, <1>3

(* What is printed by a watch that acknowledges leaves nothing before it.   *)
LEMMA PrintedFollow ==
    ASSUME Shape, UNCHANGED serverVars, UNCHANGED told, readFrom = 0,
           NEW rows, Follows(rows), handled' = handled \cup rows,
           NEW n \in Nat, n - 1 \in rows
    PROVE  Below(n)'
<1>1. ServerTypeOK' /\ Grows /\ Matching' = Matching /\ Matching \subseteq Nat
  BY ServerStays, LogNumbers DEF Shape
<1>2. ASSUME NEW j \in Matching, j < n PROVE Accounted(j)'
  <2>1. j <= n - 1
    BY <1>1, <1>2
  <2> QED BY <2>1 DEF Follows, Accounted, serverVars
<1> QED BY <1>1, <1>2 DEF Below

(* The place it then reads on from. *)
LEMMA ReadOnKnown ==
    ASSUME Shape, SeenInv, watch # "off", UNCHANGED serverVars, ServerTypeOK', Grows,
           told' \in Nat, seen \subseteq seen',
           NEW rows, Follows(rows), ReadOn(rows), ~AcksPrinted => seen' = seen \cup rows,
           \A i \in seen' : i \in Matching' /\ Known(i + 1)'
    PROVE  \E p \in Nat : /\ readFrom' = p /\ p <= Len(log') + 1 /\ Known(p)'
                          /\ AcksPrinted => p = 0
<1>1. CASE AcksPrinted \/ rows = {}
  <2>1. PICK p \in Nat : p = readFrom /\ p <= Len(log) + 1 /\ Known(p) /\ (AcksPrinted => p = 0)
    BY DEF SeenInv, Shape
  <2>2. p <= Len(log') + 1 /\ Known(p)'
    BY <2>1, PlaceStays
  <2> QED BY <1>1, <2>1, <2>2 DEF ReadOn
<1>2. CASE ~AcksPrinted /\ rows # {}
  <2>1. PICK p \in Nat : p = Following(rows) /\ p <= Len(log) + 1 /\ p - 1 \in rows
    BY <1>2, FollowingIs, LogNumbers DEF Follows, Shape
  <2>2. PICK i \in seen' : i = p - 1
    BY <1>2, <2>1
  <2>3. Known(i + 1)' /\ i + 1 = p
    BY <2>2, <2>1
  <2>4. Known(p)'
    BY <2>3
  <2> QED BY <1>2, <2>1, <2>4 DEF ReadOn, serverVars
<1> QED BY <1>1, <1>2

(* With a page, and nothing of the log changed. *)
LEMMA CatchUpStep ==
    ASSUME IInv, CatchUp
    PROVE  IInv'
<1>1. /\ ServerTypeOK /\ told \in Nat /\ NothingUnseen /\ RequestInv /\ SeenInv /\ Shape
      /\ UNCHANGED serverVars /\ UNCHANGED streamVars /\ UNCHANGED <<told, handled, late>>
      /\ watch' = "pulling" /\ asked' = 0 /\ watch = "catching" /\ ~ResetDue
  BY DEF IInv, Shape, WatchInv, CatchUp, Goto
<1>2. ServerTypeOK' /\ Grows /\ NothingUnseen' /\ told' \in Nat
  BY <1>1, ServerStays, CursorStays DEF serverVars
<1>3. PICK rows : /\ rows = (IF Refused THEN {} ELSE Due)
                  /\ seen' = (IF AcksPrinted THEN seen ELSE seen \cup rows)
                  /\ ReadOn(rows)
  BY DEF CatchUp
<1>4. Follows(rows)
  <2>1. CASE Refused
    BY <1>3, <2>1 DEF Follows
  <2>2. CASE ~Refused
    BY <1>1, <1>3, <2>2, DueFollows
  <2> QED BY <2>1, <2>2
<1>5. \A i \in seen' : i \in Matching' /\ Known(i + 1)'
  <2>1. CASE AcksPrinted
    BY <1>1, <1>2, <1>3, <2>1, SeenStays
  <2>2. CASE ~AcksPrinted
    BY <1>1, <1>3, <1>4, <2>2, ShownFollow
  <2> QED BY <2>1, <2>2
<1>6. PICK p \in Nat : /\ readFrom' = p /\ p <= Len(log') + 1 /\ Known(p)'
                       /\ AcksPrinted => p = 0
  BY <1>1, <1>2, <1>3, <1>4, <1>5, ReadOnKnown
<1>7. \A x \in late' : x = <<x[1], x[2]>> /\ Harmless(x[1], x[2])'
  BY <1>1, <1>2, LateStays
<1> QED BY <1>1, <1>2, <1>5, <1>6, <1>7, WatchGoesOn

(* A page is printed, and acknowledged or read on from. *)
LEMMA PageStep ==
    ASSUME IInv, Page
    PROVE  IInv'
<1>1. /\ ServerTypeOK /\ told \in Nat /\ NothingUnseen /\ RequestInv /\ SeenInv /\ Shape
      /\ UNCHANGED serverVars /\ UNCHANGED streamVars /\ UNCHANGED <<told, late>>
      /\ watch = "pulling"
  BY DEF IInv, Shape, WatchInv, Page
<1>2. PICK rows : /\ rows = FirstOf(IF readFrom = 0 THEN Due ELSE From(readFrom), Limit)
                  /\ Show(rows) /\ ReadOn(rows)
                  /\ IF AcksPrinted /\ rows # {} THEN Goto("acking", Following(rows))
                                                 ELSE Goto("pulling", 0)
  BY DEF Page
<1>3. Follows(rows)
  <2>1. CASE readFrom = 0
    BY <1>1, <1>2, <2>1, DueFollows DEF Page
  <2>2. CASE readFrom # 0
    <3>1. PICK c \in Nat : c = readFrom
      BY <1>1 DEF Shape
    <3>2. Known(c) /\ ~RefusedAt(c) /\ rows = FirstOf(From(c), Limit)
      BY <1>1, <1>2, <2>2, <3>1 DEF SeenInv, Page
    <3> QED BY <1>1, <2>2, <3>1, <3>2, FromFollows
  <2> QED BY <2>1, <2>2
<1>4. handled \subseteq handled' /\ seen \subseteq seen'
  BY <1>2 DEF Show
<1>5. ServerTypeOK' /\ Grows /\ NothingUnseen' /\ told' \in Nat
  BY <1>1, <1>4, ServerStays, CursorStays DEF serverVars
<1>6. \A i \in seen' : i \in Matching' /\ Known(i + 1)'
  <2>1. CASE AcksPrinted
    BY <1>1, <1>2, <1>5, <2>1, SeenStays DEF Show
  <2>2. CASE ~AcksPrinted
    BY <1>1, <1>2, <1>3, <2>2, ShownFollow DEF Show
  <2> QED BY <2>1, <2>2
<1>7. PICK p \in Nat : /\ readFrom' = p /\ p <= Len(log') + 1 /\ Known(p)'
                       /\ AcksPrinted => p = 0
  <2>1. ~AcksPrinted => seen' = seen \cup rows
    BY <1>2 DEF Show
  <2> QED BY <1>1, <1>2, <1>3, <1>4, <1>5, <1>6, <2>1, ReadOnKnown
<1>8. \A x \in late' : x = <<x[1], x[2]>> /\ Harmless(x[1], x[2])'
  BY <1>1, <1>5, LateStays
<1>9. CASE AcksPrinted /\ rows # {}
  <2>1. PICK n \in Nat : n = Following(rows) /\ n >= 1 /\ n <= Len(log) + 1 /\ n - 1 \in rows
    BY <1>1, <1>3, <1>9, FollowingIs, LogNumbers DEF Follows
  <2>2. watch' = "acking" /\ asked' = n
    BY <1>2, <1>9, <2>1 DEF Goto
  <2>3. readFrom = 0 /\ handled' = handled \cup rows
    BY <1>1, <1>2, <1>9 DEF Show, SeenInv
  <2>4. Below(n)'
    BY <1>1, <1>3, <2>1, <2>3, PrintedFollow
  <2>5. Harmless("acking", n)'
    BY <1>1, <2>1, <2>4 DEF Harmless, serverVars
  <2> QED BY <1>1, <1>5, <1>6, <1>7, <1>8, <2>2, <2>5, WatchGoesOn
<1>10. CASE ~(AcksPrinted /\ rows # {})
  <2>1. watch' = "pulling" /\ asked' = 0
    BY <1>2, <1>10 DEF Goto
  <2> QED BY <1>1, <1>5, <1>6, <1>7, <1>8, <2>1, WatchGoesOn
<1> QED BY <1>9, <1>10

(* EXPIRED: the seek names the floor that the line has told.                *)
LEMMA ExpiredStep ==
    ASSUME IInv, Expired
    PROVE  IInv'
<1>1. /\ ServerTypeOK /\ told \in Nat /\ NothingUnseen /\ RequestInv /\ SeenInv /\ Shape
      /\ UNCHANGED serverVars /\ UNCHANGED streamVars /\ UNCHANGED <<readFrom, seen, handled, late>>
      /\ watch = "pulling" /\ watch' = "seeking" /\ asked' = floor
      /\ told' = HighWater({told, floor})
  BY DEF IInv, Shape, WatchInv, Expired, Goto
<1>2. floor \in Nat /\ floor >= 1
  BY <1>1, LogNumbers DEF Expired, LostSince, RefusedAt, OwnRows
<1>3. told' \in Nat /\ told <= told' /\ floor <= told'
  BY <1>1, <1>2, HigherOfTwo
<1>4. ServerTypeOK' /\ Grows /\ NothingUnseen'
  BY <1>1, <1>3, ServerStays, CursorStays DEF serverVars
<1>5. PICK c \in Nat : c = floor
  BY <1>2
<1>6. Harmless("seeking", c)'
  BY <1>2, <1>3, <1>5 DEF Harmless
<1>7. PICK p \in Nat : p = readFrom /\ p <= Len(log) + 1 /\ Known(p) /\ (AcksPrinted => p = 0)
  BY <1>1 DEF SeenInv, Shape
<1>8. p <= Len(log') + 1 /\ Known(p)' /\ readFrom' = p
  BY <1>1, <1>3, <1>4, <1>7, PlaceStays
<1>9. \A i \in seen' : i \in Matching' /\ Known(i + 1)'
  BY <1>1, <1>3, <1>4, SeenStays
<1>10. \A x \in late' : x = <<x[1], x[2]>> /\ Harmless(x[1], x[2])'
  BY <1>1, <1>3, <1>4, LateStays
<1> QED BY <1>1, <1>3, <1>4, <1>5, <1>6, <1>7, <1>8, <1>9, <1>10, WatchGoesOn

(* A 404 ends the watch and changes nothing else. *)
LEMMA RetiredStep ==
    ASSUME IInv, Retired
    PROVE  IInv'
<1>1. /\ ServerTypeOK /\ told \in Nat /\ NothingUnseen /\ RequestInv /\ SeenInv /\ Shape
      /\ UNCHANGED serverVars /\ UNCHANGED streamVars
      /\ UNCHANGED <<readFrom, told, seen, handled, late>>
      /\ watch = "pulling" /\ watch' = "off" /\ asked' = 0
  BY DEF IInv, Shape, WatchInv, Retired, Goto
<1>2. ServerTypeOK' /\ Grows /\ NothingUnseen'
  BY <1>1, ServerStays, CursorStays DEF serverVars
<1>3. PICK p \in Nat : p = readFrom /\ (AcksPrinted => p = 0)
  BY <1>1 DEF SeenInv, Shape
<1>4. \A i \in seen' : i \in Matching' /\ Known(i + 1)'
  BY <1>1, <1>2, SeenStays
<1>5. \A x \in late' : x = <<x[1], x[2]>> /\ Harmless(x[1], x[2])'
  BY <1>1, <1>2, LateStays
<1> QED BY <1>1, <1>2, <1>3, <1>4, <1>5, WatchGoesOn

(* The acknowledgement of what was printed arrives in time. *)
LEMMA AckAnsweredStep ==
    ASSUME IInv, AckAnswered
    PROVE  IInv'
<1>1. /\ ServerTypeOK /\ told \in Nat /\ NothingUnseen /\ RequestInv /\ SeenInv /\ Shape
      /\ UNCHANGED streamVars /\ UNCHANGED <<readFrom, told, seen, handled, late>>
      /\ watch = "acking" /\ watch' = "pulling" /\ asked' = 0
  BY DEF IInv, Shape, WatchInv, AckAnswered, Goto
<1>2. PICK n \in Nat : n = asked
  BY <1>1 DEF Shape
<1>3. Harmless("acking", n) /\ AckAt(n)
  BY <1>1, <1>2 DEF RequestInv, Waiting, AckAnswered
<1>4. ServerTypeOK' /\ Grows /\ NothingUnseen'
  BY <1>1, <1>3, RequestStep
<1>5. PICK p \in Nat : p = readFrom /\ p <= Len(log) + 1 /\ Known(p) /\ (AcksPrinted => p = 0)
  BY <1>1 DEF SeenInv, Shape
<1>6. p <= Len(log') + 1 /\ Known(p)' /\ readFrom' = p
  BY <1>1, <1>4, <1>5, PlaceStays
<1>7. \A i \in seen' : i \in Matching' /\ Known(i + 1)'
  BY <1>1, <1>4, SeenStays
<1>8. \A x \in late' : x = <<x[1], x[2]>> /\ Harmless(x[1], x[2])'
  BY <1>1, <1>4, LateStays
<1> QED BY <1>1, <1>4, <1>5, <1>6, <1>7, <1>8, WatchGoesOn

(* The seek to the told floor arrives in time. *)
LEMMA SeekAnsweredStep ==
    ASSUME IInv, SeekAnswered
    PROVE  IInv'
<1>1. /\ ServerTypeOK /\ told \in Nat /\ NothingUnseen /\ RequestInv /\ SeenInv /\ Shape
      /\ UNCHANGED streamVars /\ UNCHANGED <<told, seen, handled, late>>
      /\ watch = "seeking" /\ watch' = "pulling" /\ asked' = 0 /\ readFrom' = 0
  BY DEF IInv, Shape, WatchInv, SeekAnswered, Goto
<1>2. PICK n \in Nat : n = asked
  BY <1>1 DEF Shape
<1>3. Harmless("seeking", n) /\ SeekAt(n)
  BY <1>1, <1>2 DEF RequestInv, Waiting, SeekAnswered
<1>4. ServerTypeOK' /\ Grows /\ NothingUnseen'
  BY <1>1, <1>3, RequestStep
<1>5. Known(0)' /\ 0 <= Len(log') + 1
  BY <1>4, KnownFromStart, LogNumbers DEF ServerTypeOK
<1>6. \A i \in seen' : i \in Matching' /\ Known(i + 1)'
  BY <1>1, <1>4, SeenStays
<1>7. \A x \in late' : x = <<x[1], x[2]>> /\ Harmless(x[1], x[2])'
  BY <1>1, <1>4, LateStays
<1> QED BY <1>1, <1>4, <1>5, <1>6, <1>7, WatchGoesOn

(* The request that is left behind is as harmless as it was.                *)
LEMMA LeftLate ==
    ASSUME Shape, RequestInv, ServerTypeOK', Grows, told' \in Nat, LeaveLate
    PROVE  \A x \in late' : x = <<x[1], x[2]>> /\ Harmless(x[1], x[2])'
<1>1. \A x \in late : x = <<x[1], x[2]>> /\ Harmless(x[1], x[2])'
  BY LateStays
<1>2. CASE late' = late
  BY <1>1, <1>2
<1>3. CASE late' # late
  <2>1. asked # 0 /\ late' = late \cup {<<watch, asked>>}
    BY <1>3 DEF LeaveLate
  <2>2. PICK w, c : w = watch /\ c = asked
    OBVIOUS
  <2>3. Harmless(w, c)
    BY <2>1, <2>2 DEF RequestInv
  <2>4. Harmless(w, c)'
    BY <2>3, HarmlessStays DEF Shape
  <2>5. ASSUME NEW x, x = <<w, c>> PROVE x = <<x[1], x[2]>> /\ Harmless(x[1], x[2])'
    <3>1. x[1] = w /\ x[2] = c
      BY <2>5
    <3> QED BY <2>4, <2>5, <3>1
  <2> QED BY <1>1, <2>1, <2>2, <2>5
<1> QED BY <1>2, <1>3

(* The watch gives up on a request, which stays under way or is lost. *)
LEMMA UnansweredStep ==
    ASSUME IInv, Unanswered
    PROVE  IInv'
<1>1. /\ ServerTypeOK /\ told \in Nat /\ NothingUnseen /\ RequestInv /\ SeenInv /\ Shape
      /\ UNCHANGED serverVars /\ UNCHANGED streamVars /\ UNCHANGED <<told, seen, handled>>
      /\ watch # "off" /\ watch' = "pulling" /\ asked' = 0 /\ LeaveLate
  BY DEF IInv, Shape, WatchInv, Unanswered, Goto
<1>2. ServerTypeOK' /\ Grows /\ NothingUnseen'
  BY <1>1, ServerStays, CursorStays DEF serverVars
<1>3. PICK p \in Nat : p = readFrom /\ p <= Len(log) + 1 /\ Known(p) /\ (AcksPrinted => p = 0)
  BY <1>1 DEF SeenInv, Shape
<1>4. p <= Len(log') + 1 /\ Known(p)' /\ Known(0)' /\ 0 <= Len(log') + 1
  BY <1>1, <1>2, <1>3, PlaceStays, KnownFromStart, LogNumbers DEF ServerTypeOK
<1>5. PICK q \in {p, 0} : readFrom' = q
  BY <1>3 DEF Unanswered
<1>6. \A i \in seen' : i \in Matching' /\ Known(i + 1)'
  BY <1>1, <1>2, SeenStays
<1>7. \A x \in late' : x = <<x[1], x[2]>> /\ Harmless(x[1], x[2])'
  BY <1>1, <1>2, LeftLate
<1> QED BY <1>1, <1>2, <1>3, <1>4, <1>5, <1>6, <1>7, WatchGoesOn

(* A killed watch leaves its request under way. *)
LEMMA KillStep ==
    ASSUME IInv, Kill
    PROVE  IInv'
<1>1. /\ ServerTypeOK /\ told \in Nat /\ NothingUnseen /\ RequestInv /\ SeenInv /\ Shape
      /\ UNCHANGED serverVars /\ UNCHANGED streamVars /\ UNCHANGED <<readFrom, told, handled>>
      /\ watch # "off" /\ watch' = "off" /\ asked' = 0 /\ LeaveLate
  BY DEF IInv, Shape, WatchInv, Kill, Goto
<1>2. ServerTypeOK' /\ Grows /\ NothingUnseen'
  BY <1>1, ServerStays, CursorStays DEF serverVars
<1>3. PICK p \in Nat : p = readFrom /\ (AcksPrinted => p = 0)
  BY <1>1 DEF SeenInv, Shape
<1>4. \A i \in seen' : i \in Matching' /\ Known(i + 1)'
  <2>1. CASE seen' = seen
    BY <1>1, <1>2, <2>1, SeenStays
  <2>2. CASE seen' = {}
    BY <2>2
  <2> QED BY <2>1, <2>2 DEF Kill
<1>5. \A x \in late' : x = <<x[1], x[2]>> /\ Harmless(x[1], x[2])'
  BY <1>1, <1>2, LeftLate
<1> QED BY <1>1, <1>2, <1>3, <1>4, <1>5, WatchGoesOn

(* A step that leaves the watch where it is: what is shown and what is late *)
(* is all that may change.                                                  *)
LEMMA WatchWaits ==
    ASSUME IInv, ServerTypeOK', Grows, NothingUnseen', told' = told, UNCHANGED streamVars,
           UNCHANGED <<watch, readFrom, asked, seen>>,
           \A x \in late' : x = <<x[1], x[2]>> /\ Harmless(x[1], x[2])'
    PROVE  IInv'
<1>1. ServerTypeOK /\ told \in Nat /\ told' \in Nat /\ RequestInv /\ SeenInv /\ Shape
  BY DEF IInv, Shape, WatchInv
<1>2. PICK w \in {"off", "catching", "pulling", "acking", "seeking"}, c \in Nat :
         w = watch /\ c = asked
  BY <1>1 DEF Shape
<1>3. IF w \in {"acking", "seeking"} THEN Harmless(w, c) ELSE c = 0
  BY <1>1, <1>2 DEF RequestInv, Waiting
<1>4. IF w \in {"acking", "seeking"} THEN Harmless(w, c)' ELSE c = 0
  BY <1>1, <1>3, HarmlessStays
<1>5. PICK p \in Nat : /\ p = readFrom /\ (AcksPrinted => p = 0)
                       /\ w # "off" => p <= Len(log) + 1 /\ Known(p)
  BY <1>1, <1>2 DEF SeenInv, Shape
<1>6. w # "off" => p <= Len(log') + 1 /\ Known(p)'
  BY <1>1, <1>5, PlaceStays
<1>7. \A i \in seen' : i \in Matching' /\ Known(i + 1)'
  BY <1>1, SeenStays
<1> QED BY <1>1, <1>2, <1>4, <1>5, <1>6, <1>7, WatchGoesOn

(* A request that nobody waits for arrives. *)
LEMMA LateStep ==
    ASSUME IInv, NEW r, NEW n, Late(r, n)
    PROVE  IInv'
<1>1. /\ ServerTypeOK /\ told \in Nat /\ NothingUnseen /\ RequestInv /\ SeenInv /\ Shape
      /\ UNCHANGED streamVars /\ UNCHANGED <<watch, readFrom, asked, told, seen, handled>>
      /\ <<r, n>> \in late /\ late' \subseteq late
  BY DEF IInv, Shape, WatchInv, Late
<1>2. Harmless(r, n)
  <2>1. PICK x \in late : x = <<r, n>>
    BY <1>1
  <2>2. Harmless(x[1], x[2]) /\ x[1] = r /\ x[2] = n
    BY <1>1, <2>1 DEF RequestInv
  <2> QED BY <2>2
<1>3. ServerTypeOK' /\ Grows /\ NothingUnseen'
  <2>1. IF r = "acking" THEN AckAt(n) ELSE SeekAt(n)
    BY DEF Late
  <2> QED BY <1>1, <1>2, <2>1, RequestStep
<1>4. \A x \in late' : x = <<x[1], x[2]>> /\ Harmless(x[1], x[2])'
  BY <1>1, <1>3, LateStays
<1> QED BY <1>1, <1>3, <1>4, WatchWaits

(* The session acknowledges what it has handled, up to a NEXT it was given. *)
LEMMA SessionStep ==
    ASSUME IInv, NEW i, SessionHandles(i)
    PROVE  IInv'
<1>1. /\ ServerTypeOK /\ told \in Nat /\ NothingUnseen /\ RequestInv /\ SeenInv /\ Shape
      /\ UNCHANGED serverVars /\ UNCHANGED streamVars
      /\ UNCHANGED <<watch, readFrom, asked, told, seen>>
      /\ i \in seen /\ handled' = handled \cup {j \in seen : j <= i}
      /\ late' \subseteq late \cup {<<"acking", i + 1>>}
  BY DEF IInv, Shape, WatchInv, SessionHandles
<1>2. ServerTypeOK' /\ Grows /\ NothingUnseen' /\ Matching' = Matching
  BY <1>1, ServerStays, CursorStays DEF serverVars
<1>3. i \in Matching /\ Known(i + 1) /\ i \in Nat /\ i >= 1 /\ i <= Len(log) /\ Len(log) \in Nat
  BY <1>1, LogNumbers DEF SeenInv
<1>4. PICK n \in Nat : n = i + 1
  BY <1>3
<1>5. Below(n)'
  <2>1. ASSUME NEW j \in Matching, j < n PROVE Accounted(j)'
    <3>1. j <= i /\ (Accounted(j) \/ j \in seen)
      BY <1>1, <1>3, <1>4, <2>1, LogNumbers DEF Known
    <3> QED BY <1>1, <3>1 DEF Accounted, serverVars
  <2> QED BY <1>2, <2>1 DEF Below
<1>6. Harmless("acking", n)'
  BY <1>1, <1>3, <1>4, <1>5 DEF Harmless, serverVars
<1>7. \A x \in late : x = <<x[1], x[2]>> /\ Harmless(x[1], x[2])'
  BY <1>1, <1>2, LateStays
<1>8. ASSUME NEW x, x = <<"acking", n>> PROVE x = <<x[1], x[2]>> /\ Harmless(x[1], x[2])'
  <2>1. x[1] = "acking" /\ x[2] = n
    BY <1>8
  <2> QED BY <1>6, <1>8, <2>1
<1>9. \A x \in late' : x = <<x[1], x[2]>> /\ Harmless(x[1], x[2])'
  BY <1>1, <1>4, <1>7, <1>8
<1> QED BY <1>1, <1>2, <1>9, WatchWaits

(* What happens at the server, to either reader.                            *)
LEMMA MeanwhileStep ==
    ASSUME IInv, ServerMoves \/ Reset, UNCHANGED <<watchVars, streamVars>>
    PROVE  IInv'
<1>1. /\ ServerTypeOK /\ told \in Nat /\ NothingUnseen /\ RequestInv /\ SeenInv /\ Shape
      /\ UNCHANGED streamVars /\ UNCHANGED <<watch, readFrom, asked, told, seen, handled, late>>
  BY DEF IInv, Shape, WatchInv, watchVars
<1>2. ServerTypeOK' /\ Grows /\ NothingUnseen'
  BY <1>1, ServerStep
<1>3. \A x \in late' : x = <<x[1], x[2]>> /\ Harmless(x[1], x[2])'
  BY <1>1, <1>2, LateStays
<1> QED BY <1>1, <1>2, <1>3, WatchWaits

-----------------------------------------------------------------------------
(* The steps of the stream.                                                 *)

(* A step of the stream touches nothing of the watch, and nothing at the    *)
(* server.                                                                  *)
LEMMA StreamGoesOn ==
    ASSUME IInv, UNCHANGED <<serverVars, watchVars>>,
           stream' \in {"off", "probing", "open"}, from' \in Nat, last' \in Nat, place' \in Nat,
           wire' \in Seq(Nat), WireInv'
    PROVE  IInv'
<1>1. Shape'
  BY DEF IInv, Shape, ServerTypeOK, serverVars, watchVars
<1>2. NothingUnseen'
  BY DEF IInv, WatchInv, NothingUnseen, Matching, serverVars, watchVars
<1>3. RequestInv'
  BY DEF IInv, WatchInv, RequestInv, Waiting, Harmless, Below, Accounted, Matching, serverVars,
         watchVars
<1>4. SeenInv'
  BY DEF IInv, WatchInv, SeenInv, AcksPrinted, Known, Accounted, Matching, serverVars, watchVars
<1> QED BY <1>1, <1>2, <1>3, <1>4 DEF IInv, WatchInv

(* With nothing on its way, nothing can be out of order.                    *)
LEMMA EmptyWireStep ==
    ASSUME IInv, Connect \/ NewClient \/ (\E c \in {cursor} \cup 1..Len(log) : Open(c))
    PROVE  IInv'
<1>1. Shape /\ WireInv /\ cursor \in Nat /\ cursor >= 1
  BY LogNumbers DEF IInv, Shape
<1>2. CASE Connect \/ NewClient
  <2>1. stream' \in {"off", "probing"} /\ wire' = <<>> /\ from' \in Nat /\ last' \in Nat
        /\ place' \in Nat /\ UNCHANGED <<serverVars, watchVars>>
    BY <1>1, <1>2 DEF Connect, NewClient, Shape
  <2>2. WireInv'
    BY <2>1 DEF WireInv
  <2> QED BY <2>1, <2>2, StreamGoesOn
<1>3. ASSUME NEW c \in {cursor} \cup 1..Len(log), Open(c) PROVE IInv'
  <2>1. wire = <<>> /\ wire' = <<>> /\ stream' = "open" /\ UNCHANGED <<serverVars, watchVars>>
    BY <1>1, <1>3 DEF Open, WireInv
  <2>2. place' = last' + 1 /\ from' \in Nat /\ last' \in Nat /\ place' \in Nat
    <3>1. c \in Nat /\ c >= 1 /\ c - 1 \in Nat /\ c = (c - 1) + 1
      BY <1>1, LogNumbers DEF Shape
    <3>2. CASE last >= from /\ from # 0
      BY <1>1, <1>3, <3>2 DEF Open, Shape
    <3>3. CASE ~(last >= from /\ from # 0)
      BY <1>3, <3>1, <3>3 DEF Open
    <3> QED BY <3>2, <3>3
  <2>3. WireInv'
    BY <2>1, <2>2 DEF WireInv, LastWritten
  <2> QED BY <2>1, <2>2, <2>3, StreamGoesOn
<1> QED BY <1>2, <1>3

(* A broken connection keeps what is on its way in order. *)
LEMMA DisconnectStep ==
    ASSUME IInv, Disconnect
    PROVE  IInv'
<1>1. stream' = "off" /\ UNCHANGED <<serverVars, watchVars, from, last, place, wire>>
      /\ Shape /\ WireInv
  BY DEF Disconnect, IInv
<1>2. WireInv'
  BY <1>1 DEF WireInv, EventBefore, Matching, serverVars
<1> QED BY <1>1, <1>2, StreamGoesOn DEF Shape

(* The client receives the first of the events on their way. *)
LEMMA ReceiveStep ==
    ASSUME IInv, Receive
    PROVE  IInv'
<1>1. /\ wire # <<>> /\ wire \in Seq(Nat) /\ last' = Head(wire) /\ wire' = Tail(wire)
      /\ UNCHANGED <<serverVars, watchVars, stream, from, place>> /\ Shape /\ WireInv
  BY DEF Receive, IInv, Shape
<1>2. PICK w \in Seq(Nat), n \in Nat : w = wire' /\ Len(wire) = n + 1 /\ Len(w) = n
  BY <1>1
<1>3. \A k \in 1..n : w[k] = wire[k + 1]
  BY <1>1, <1>2
<1>4. last' = wire[1] /\ last' \in Nat
  BY <1>1
<1>5. ASSUME NEW k \in 1..n
      PROVE  /\ wire'[k] \in Matching' /\ EventBefore(k)' < wire'[k]
             /\ \A i \in Matching' : i > EventBefore(k)' => wire'[k] <= i
  <2>1. k + 1 \in DOMAIN wire
    BY <1>1, <1>2
  <2>2. EventBefore(k)' = EventBefore(k + 1)
    <3>1. EventBefore(k)' = IF k = 1 THEN last' ELSE w[k - 1]
      BY <1>2 DEF EventBefore
    <3>2. EventBefore(k + 1) = wire[k]
      BY DEF EventBefore
    <3> QED BY <1>3, <1>4, <3>1, <3>2
  <2>3. Matching' = Matching
    BY <1>1 DEF Matching, serverVars
  <2> QED BY <1>1, <1>2, <1>3, <2>1, <2>2, <2>3 DEF WireInv
<1>6. LastWritten' = LastWritten
  <2>1. LastWritten = wire[n + 1]
    BY <1>1, <1>2 DEF LastWritten
  <2>2. LastWritten' = IF n = 0 THEN last' ELSE w[n]
    BY <1>2 DEF LastWritten
  <2> QED BY <1>3, <1>4, <2>1, <2>2
<1>7. stream # "probing"
  BY <1>1 DEF WireInv
<1>8. WireInv'
  <2>1. DOMAIN wire' = 1..n
    BY <1>2
  <2> QED BY <1>1, <1>5, <1>6, <1>7, <2>1 DEF WireInv
<1> QED BY <1>1, <1>2, <1>4, <1>8, StreamGoesOn DEF Shape

(* One turn that finds rows: they go on after the last event written.       *)
LEMMA WriteStep ==
    ASSUME IInv, Write
    PROVE  IInv'
<1>1. /\ stream = "open" /\ ~RefusedAt(place) /\ UNCHANGED <<serverVars, watchVars, stream, from, last>>
      /\ Shape /\ WireInv /\ ServerTypeOK /\ wire \in Seq(Nat) /\ last \in Nat
  BY DEF Write, IInv, Shape
<1>2. PICK p, rows : /\ p \in Nat /\ p = place
                     /\ rows = FirstOf(From(p), Limit) /\ rows # {}
                     /\ place' = Following(rows)
                     /\ \E events \in [1..Cardinality(rows) -> rows] :
                           InOrder(events, rows) /\ wire' = wire \o events
  BY <1>1 DEF Write, Shape
<1>3. /\ p = LastWritten + 1 /\ rows \subseteq From(p) /\ From(p) \subseteq Matching
      /\ From(p) \in SUBSET (1..Len(log)) /\ Matching \subseteq Nat /\ Len(log) \in Nat
      /\ ~RefusedAt(p)
  BY <1>1, <1>2, LogNumbers, FromIs DEF WireInv, FirstOf
<1>4. PICK n \in Nat : n = Cardinality(rows)
  <2>1. IsFiniteSet(1..Len(log)) /\ rows \subseteq 1..Len(log)
    BY <1>3, FS_Interval
  <2>2. IsFiniteSet(rows)
    BY <2>1, FS_Subset
  <2> QED BY <2>2, FS_CardinalityType
<1>5. PICK events \in [1..n -> rows] : InOrder(events, rows) /\ wire' = wire \o events
  BY <1>2, <1>4
<1>6. /\ {events[k] : k \in 1..n} = rows
      /\ \A k, l \in 1..n : k < l => events[k] < events[l]
      /\ \A k \in 1..n : events[k] \in rows /\ events[k] \in Nat
  BY <1>3, <1>5 DEF InOrder
<1>7. PICK m \in Nat : m = Len(wire) /\ DOMAIN wire = 1..m
  BY <1>1
<1>8. /\ events \in Seq(Nat) /\ Len(events) = n /\ wire' \in Seq(Nat) /\ Len(wire') = m + n
      /\ DOMAIN wire' = 1..(m + n)
      /\ \A k \in 1..m : wire'[k] = wire[k]
      /\ \A k \in 1..n : wire'[m + k] = events[k]
  <2>1. events \in Seq(Nat) /\ Len(events) = n
    BY <1>3, <1>5
  <2>2. PICK w \in Seq(Nat) : w = wire /\ Len(w) = m
    BY <1>1, <1>7
  <2>3. PICK e \in Seq(Nat) : e = events /\ Len(e) = n
    BY <2>1
  <2>4. /\ w \o e \in Seq(Nat) /\ Len(w \o e) = m + n
        /\ \A k \in 1..m : (w \o e)[k] = w[k]
        /\ \A k \in 1..n : (w \o e)[m + k] = e[k]
    BY <2>2, <2>3
  <2> QED BY <1>5, <2>2, <2>3, <2>4
<1>9. Matching' = Matching
  BY <1>1 DEF Matching, serverVars
<1>10. ASSUME NEW k \in 1..m
       PROVE  /\ wire'[k] \in Matching' /\ EventBefore(k)' < wire'[k]
              /\ \A i \in Matching' : i > EventBefore(k)' => wire'[k] <= i
  <2>1. EventBefore(k)' = EventBefore(k)
    <3>1. k = 1 \/ k - 1 \in 1..m
      BY <1>7
    <3> QED BY <1>1, <1>8, <3>1 DEF EventBefore
  <2>2. wire'[k] = wire[k] /\ k \in DOMAIN wire
    BY <1>7, <1>8
  <2> QED BY <1>1, <1>9, <2>1, <2>2 DEF WireInv
<1>11. ASSUME NEW i \in From(p), NEW k \in 1..n, i < events[k] PROVE i \in rows
  <2>1. PICK D : D = From(p) /\ D \in SUBSET (1..Len(log)) /\ rows = FirstOf(D, Limit)
    BY <1>2, <1>3
  <2>2. PICK r \in rows : r = events[k]
    BY <1>6
  <2>3. Limit \in Nat /\ i < r /\ i \in D
    BY <1>11, <2>1, <2>2, ClientsAssumption
  <2> QED BY <1>3, <2>1, <2>2, <2>3, FirstOfIsClosed
<1>12. ASSUME NEW i \in Matching, i >= p, NEW r \in rows, i <= r PROVE i \in From(p)
  <2>1. floor <= i
    BY <1>1, <1>3, <1>12, LogNumbers DEF RefusedAt
  <2>2. r \in From(p) /\ p <= i
    BY <1>3, <1>12
  <2> QED BY <1>1, <1>2, <1>12, <2>1, <2>2, FromIs
<1>13. ASSUME NEW k \in 1..n PROVE events[k] >= p
  BY <1>1, <1>2, <1>3, <1>6, FromIs
<1>14. ASSUME NEW k \in 1..n
       PROVE  /\ wire'[m + k] \in Matching' /\ EventBefore(m + k)' < wire'[m + k]
              /\ \A i \in Matching' : i > EventBefore(m + k)' => wire'[m + k] <= i
  <2>1. wire'[m + k] = events[k] /\ events[k] \in Matching /\ events[k] \in rows /\ events[k] \in Nat
    BY <1>3, <1>6, <1>8
  <2>2. CASE k = 1
    <3>1. EventBefore(m + k)' = LastWritten
      BY <1>1, <1>7, <1>8, <2>2 DEF EventBefore, LastWritten
    <3>2. LastWritten \in Nat
      BY <1>1 DEF LastWritten
    <3>3. ASSUME NEW i \in Matching, i > LastWritten PROVE events[k] <= i
      <4>1. i \in Nat /\ i >= p
        BY <1>3, <3>2, <3>3
      <4>2. CASE i < events[k]
        <5>1. PICK q \in 1..n : i = events[q]
          BY <1>6, <1>11, <1>12, <2>1, <4>1, <4>2
        <5> QED BY <1>6, <2>2, <4>2, <5>1
      <4> QED BY <2>1, <4>1, <4>2
    <3> QED BY <1>3, <1>9, <1>13, <2>1, <3>1, <3>2, <3>3
  <2>3. CASE k > 1
    <3>1. PICK j \in 1..n : j = k - 1
      BY <2>3
    <3>2. EventBefore(m + k)' = events[j]
      <4>1. m + k # 1 /\ (m + k) - 1 = m + j
        BY <2>3, <3>1
      <4> QED BY <1>8, <3>1, <4>1 DEF EventBefore
    <3>3. events[j] < events[k] /\ events[j] \in Nat
      BY <1>6, <3>1
    <3>4. ASSUME NEW i \in Matching, i > events[j] PROVE events[k] <= i
      <4>1. i \in Nat /\ i >= p
        BY <1>3, <1>13, <3>1, <3>3, <3>4
      <4>2. CASE i < events[k]
        <5>1. PICK q \in 1..n : i = events[q]
          BY <1>6, <1>11, <1>12, <2>1, <4>1, <4>2
        <5>2. q = j \/ q < j \/ q = k \/ q > k
          BY <3>1
        <5> QED BY <1>6, <3>3, <3>4, <4>1, <4>2, <5>1, <5>2
      <4> QED BY <2>1, <4>1, <4>2
    <3> QED BY <1>9, <2>1, <3>2, <3>3, <3>4
  <2> QED BY <2>2, <2>3
<1>15. LastWritten' = events[n] /\ n >= 1 /\ Following(rows) \in Nat /\ Following(rows) = events[n] + 1
  <2>1. PICK f \in Nat : /\ f = Following(rows) /\ f - 1 \in rows /\ \A i \in rows : i < f
    BY <1>1, <1>2, <1>3, FollowingIs, LogNumbers
  <2>2. PICK q \in 1..n : events[q] = f - 1
    BY <1>6, <2>1
  <2>3. n \in 1..n /\ n >= 1
    BY <2>2
  <2>4. events[n] = f - 1
    <3>1. events[n] < f /\ events[n] \in Nat
      BY <1>6, <2>1, <2>3
    <3>2. q < n => events[q] < events[n]
      BY <1>6, <2>3
    <3> QED BY <2>1, <2>2, <2>3, <3>1, <3>2
  <2>5. LastWritten' = events[n]
    BY <1>8, <2>3 DEF LastWritten
  <2> QED BY <2>1, <2>3, <2>4, <2>5
<1>16. ASSUME NEW k \in DOMAIN wire'
       PROVE  /\ wire'[k] \in Matching' /\ EventBefore(k)' < wire'[k]
              /\ \A i \in Matching' : i > EventBefore(k)' => wire'[k] <= i
  <2>1. k \in 1..m \/ (\E l \in 1..n : k = m + l)
    <3>1. k \in 1..(m + n)
      BY <1>8
    <3>2. CASE k > m
      <4>1. k - m \in 1..n /\ k = m + (k - m)
        BY <3>1, <3>2
      <4> QED BY <4>1
    <3> QED BY <3>1, <3>2
  <2> QED BY <1>10, <1>14, <2>1
<1>17. WireInv'
  BY <1>1, <1>2, <1>15, <1>16 DEF WireInv
<1> QED BY <1>1, <1>2, <1>8, <1>15, <1>17, StreamGoesOn DEF Shape

-----------------------------------------------------------------------------
(* The theorems.                                                            *)

(* The invariant holds at the start. *)
LEMMA InitIsGood ==
    ASSUME Init
    PROVE  IInv
<1>1. /\ log = <<"own", "matching">> /\ cursor = 2 /\ floor = 0 /\ active = TRUE
      /\ policy \in Policies /\ passed = {} /\ moved = FALSE
  BY DEF Init, StartsWith
<1>2. log \in Seq(Kinds) /\ Len(log) = 2 /\ DOMAIN log = 1..2 /\ log[1] = "own"
  BY <1>1 DEF Kinds
<1>3. ServerTypeOK
  <2>1. Len(log) <= MaxSeq /\ cursor \in 1..Len(log) + 1 /\ floor \in 0..Len(log) + 1
    BY <1>1, <1>2, SubscriptionAssumption
  <2>2. passed \subseteq DOMAIN log /\ active \in BOOLEAN /\ moved \in BOOLEAN
    BY <1>1
  <2> QED BY <1>1, <1>2, <2>1, <2>2 DEF ServerTypeOK
<1>4. Shape
  BY <1>3 DEF Init, Shape
<1>5. \A i \in Matching : i >= 2
  BY <1>2 DEF Matching
<1>6. NothingUnseen
  BY <1>1, <1>2, <1>5 DEF NothingUnseen, Matching
<1>7. RequestInv /\ SeenInv
  BY DEF Init, RequestInv, SeenInv, Waiting
<1>8. WireInv
  BY DEF Init, WireInv
<1> QED BY <1>4, <1>6, <1>7, <1>8 DEF IInv, WatchInv

(* Every step keeps the invariant. *)
LEMMA StepKeeps ==
    ASSUME IInv, [Next]_vars
    PROVE  IInv'
<1>1. CASE ServerMoves /\ UNCHANGED <<watchVars, streamVars>>
  BY <1>1, MeanwhileStep
<1>2. CASE Watch
  <2>1. CASE PullResets
    BY <2>1, MeanwhileStep DEF PullResets
  <2>2. CASE Answered
    BY <2>2, CatchUpStep, PageStep, ExpiredStep, RetiredStep DEF Answered
  <2>3. CASE \E i \in seen : SessionHandles(i)
    BY <2>3, SessionStep
  <2>4. CASE \E request \in late : Late(request[1], request[2])
    <3>1. PICK r, n : Late(r, n)
      BY <2>4
    <3> QED BY <3>1, LateStep
  <2> QED BY <1>2, <2>1, <2>2, <2>3, <2>4, StartStep, AckAnsweredStep, SeekAnsweredStep,
          UnansweredStep, KillStep DEF Watch
<1>3. CASE Stream
  <2>1. CASE ProbeResets
    BY <2>1, MeanwhileStep DEF ProbeResets
  <2> QED BY <1>3, <2>1, EmptyWireStep, WriteStep, DisconnectStep, ReceiveStep DEF Stream
<1>4. CASE UNCHANGED vars
  <2>1. UNCHANGED <<serverVars, watchVars>> /\ UNCHANGED <<stream, from, last, place, wire>>
    BY <1>4 DEF vars, streamVars
  <2>2. WireInv'
    BY <2>1 DEF IInv, WireInv, EventBefore, LastWritten, Matching, serverVars
  <2> QED BY <2>1, <2>2, StreamGoesOn DEF IInv, Shape
<1> QED BY <1>1, <1>2, <1>3, <1>4 DEF Next

(* The invariant holds of every behaviour of Clients. *)
THEOREM Inductive == Spec => []IInv
<1>1. Init => IInv
  BY InitIsGood
<1>2. IInv /\ [Next]_vars => IInv'
  BY StepKeeps
<1> QED BY <1>1, <1>2, PTL DEF Spec

(* NothingUnseen (watch.ts, the acknowledgement and the EXPIRED branch of   *)
(* the loop; core.ts, ack and seek): a matching row falls behind the        *)
(* committed cursor only if a session has handled it, somebody else moved   *)
(* the cursor past it, or an EXPIRED line named a floor beyond it, however  *)
(* many late requests there are and whenever they arrive.                   *)
THEOREM NothingUnseenCorrect == Spec => []NothingUnseen
<1>1. IInv => NothingUnseen
  BY DEF IInv, WatchInv
<1> QED BY <1>1, Inductive, PTL

(* StreamInOrder (http.ts, stream): the events a client receives over all   *)
(* its connections are the matching rows after its place, each once, in     *)
(* order, with none left out.                                               *)
THEOREM StreamInOrderCorrect == Spec => []StreamInOrder
<1>1. IInv => StreamInOrder
  <2> SUFFICES ASSUME IInv PROVE StreamInOrder
    OBVIOUS
  <2>1. wire \in Seq(Nat) /\ last \in Nat /\ WireInv /\ Matching \subseteq Nat
    BY LogNumbers DEF IInv, Shape
  <2>2. PICK events : events = <<last>> \o wire
    OBVIOUS
  <2>3. ASSUME NEW k \in DOMAIN wire
        PROVE  wire[k] = First({i \in Matching : i > events[k]})
    <3>1. events[k] = EventBefore(k)
      BY <2>1, <2>2 DEF EventBefore
    <3>2. PICK b : b = EventBefore(k)
      OBVIOUS
    <3> DEFINE After == {i \in Matching : i > b}
    <3>3. wire[k] \in After /\ \A j \in After : wire[k] <= j
      BY <2>1, <3>2 DEF WireInv
    <3>4. \A x, y \in After : (\A j \in After : x <= j) /\ (\A j \in After : y <= j) => x = y
      BY <2>1
    <3>5. First(After) = wire[k]
      <4> HIDE DEF After
      <4> QED BY <3>3, <3>4 DEF First
    <3> QED BY <3>1, <3>2, <3>5
  <2> QED BY <2>2, <2>3 DEF StreamInOrder
<1> QED BY <1>1, Inductive, PTL
=============================================================================
