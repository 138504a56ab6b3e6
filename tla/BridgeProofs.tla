---------------------------- MODULE BridgeProofs ----------------------------
(***************************************************************************)
(* Theorems about Bridge, for every log bound, number of workers, of       *)
(* commands and of policies.                                               *)
(*                                                                         *)
(* The argument does not follow the worker: what makes an acknowledgement  *)
(* harmless is that every delivery in the journal, from the moment it gets *)
(* there, has nothing unsettled below it (JournalInv).  Rows, receipts and *)
(* what was passed only grow, so that stays true under every other step.   *)
(***************************************************************************)
EXTENDS Bridge, FiniteSetTheorems, WellFoundedInduction, TLAPS

-----------------------------------------------------------------------------
(* Smallest and largest elements.                                           *)

(* A non-empty set of naturals has a smallest element, and First is it.     *)
LEMMA FirstExists ==
    ASSUME NEW S \in SUBSET Nat, S # {}
    PROVE  First(S) \in S /\ \A j \in S : First(S) <= j
<1>1. PICK n \in S : \A k \in S : ~ (<<k, n>> \in OpToRel(<,Nat))
  BY NatLessThanWellFounded, WFMin, Zenon
<1>2. \A k \in S : ~ (k < n)
  BY <1>1 DEF OpToRel
<1>3. \A k \in S : n <= k
  BY <1>2
<1>4. \E i \in S : \A j \in S : i <= j
  BY <1>3
<1> QED BY <1>4 DEF First

(* headOf (store.ts): no row of the monitor is above the head, and the head *)
(* is in the log or 0.                                                      *)
LEMMA OwnHeadIs ==
    ASSUME log \in Seq(Kinds)
    PROVE  OwnHead \in 0..Len(log) /\ \A i \in OwnRows : i <= OwnHead
<1> DEFINE S == {0} \cup OwnRows
           T == {k \in Nat : Len(log) - k \in S}
<1>1. Len(log) \in Nat /\ S \subseteq 0..Len(log)
  BY DEF OwnRows
<1>2. T \in SUBSET Nat /\ Len(log) \in T
  BY <1>1
<1>3. First(T) \in T /\ \A j \in T : First(T) <= j
  <2> HIDE DEF T
  <2> QED BY <1>2, FirstExists
<1>4. \A y \in S : y <= Len(log) - First(T)
  <2> TAKE y \in S
  <2>1. Len(log) - y \in T
    BY <1>1, Len(log) - (Len(log) - y) = y
  <2> QED BY <2>1, <1>1, <1>3
<1>5. \E x \in S : \A y \in S : y <= x
  BY <1>3, <1>4
<1>6. OwnHead \in S /\ \A y \in S : y <= OwnHead
  BY <1>5 DEF OwnHead, HighWater
<1> QED BY <1>1, <1>6

(* read() (core.ts): what it returns lies in the log at or after the cursor *)
(* and the floor, no further than ScanCap rows; and before a row it returns *)
(* it leaves out none.                                                      *)
LEMMA DueIs ==
    ASSUME ServerTypeOK
    PROVE  /\ Due \in SUBSET Nat
           /\ \A i \in Due : i \in DOMAIN log /\ log[i] = "matching" /\ cursor <= i
           /\ \A i \in Due : floor <= cursor => i < cursor + ScanCap
           /\ \A i \in Due, j \in DOMAIN log :
                 j < i /\ cursor <= j /\ floor <= j /\ log[j] = "matching" => j \in Due
           /\ \A j \in DOMAIN log :
                 floor <= cursor /\ cursor <= j /\ j < cursor + ScanCap /\ log[j] = "matching" => j \in Due
<1>1. /\ Len(log) \in Nat /\ DOMAIN log = 1..Len(log)
      /\ cursor \in Nat /\ floor \in Nat /\ ScanCap \in Nat
  BY SubscriptionAssumption DEF ServerTypeOK
<1>2. PICK start \in Nat : /\ start = IF cursor > floor THEN cursor ELSE floor
                          /\ cursor <= start /\ (floor <= cursor => start = cursor)
  BY <1>1
<1>3. \A i : i \in Due <=> /\ i \in DOMAIN log /\ log[i] = "matching"
                          /\ start <= i /\ i < start + ScanCap
  BY <1>2 DEF Due, From, Scanned
<1> QED BY <1>1, <1>2, <1>3

-----------------------------------------------------------------------------
(* The inductive invariant.                                                 *)

Holding == {"holding", "confirming", "acking", "comparing", "announcing", "enqueueing"}

WorkerInv == \A w \in Workers :
    /\ at[w] \in Holding => item[w] \in delivery
    /\ at[w] \in {"confirming", "acking"} => Handled(item[w])

HandInv == \A h \in Handlers :
    /\ hand[h] # 0 => hand[h] \in delivery
    /\ h \in linking => hand[h] # 0

LateInv == \A n \in late : \E d \in delivery : n = d + 1 /\ Handled(d)

JournalInv == \A d \in delivery : log[d] = "matching" /\ SettledBelow(d)

IInv == /\ TypeOK /\ WorkerInv /\ HandInv /\ LateInv /\ JournalInv
        /\ NothingPassedOver /\ MarksAreTrue /\ ReportsStand

(* What every step leaves alone: rows, receipts, deliveries, marks.         *)
ServerGrows ==
    /\ log' \in Seq(Kinds) /\ Len(log) <= Len(log')
    /\ \A i \in DOMAIN log : log'[i] = log[i]
    /\ passed \subseteq passed'
    /\ moved => moved'

JournalGrows ==
    /\ delivery \subseteq delivery'
    /\ \A i \in Seqs : Handled(i) => receipt'[i] = receipt[i]

(* How the cursor moves: by somebody else, over rows that are then passed,  *)
(* or up to just after a delivery that is handled.                          *)
CursorStep ==
    \/ cursor' = cursor
    \/ moved' /\ cursor..(cursor' - 1) \subseteq passed'
    \/ \E d \in delivery : Handled(d) /\ cursor' = d + 1 /\ cursor <= d + 1

-----------------------------------------------------------------------------
(* The server's side.                                                       *)

(* What is settled stays settled, for as far as the log reached.            *)
LEMMA SettledStays ==
    ASSUME ServerTypeOK, ServerGrows, JournalGrows, NEW n \in Int,
           n <= Len(log) + 1, SettledBelow(n)
    PROVE  SettledBelow(n)'
<1> SUFFICES ASSUME NEW i \in DOMAIN log', i < n, log'[i] = "matching"
             PROVE  receipt'[i] # Nobody \/ i \in passed'
  BY DEF SettledBelow, Settled, Handled
<1>0. /\ Len(log) \in Nat /\ DOMAIN log = 1..Len(log) /\ Len(log) <= MaxSeq /\ MaxSeq \in Nat
      /\ Len(log') \in Nat /\ DOMAIN log' = 1..Len(log')
  BY SubscriptionAssumption DEF ServerTypeOK, ServerGrows
<1>1. i \in DOMAIN log /\ log[i] = "matching" /\ i \in Seqs
  BY <1>0 DEF ServerGrows, Seqs
<1>2. Handled(i) \/ i \in passed
  BY <1>1 DEF SettledBelow, Settled
<1> QED BY <1>1, <1>2 DEF ServerGrows, JournalGrows, Handled

(* Appending a row of any kind (append, store.ts). *)
LEMMA AppendGrows ==
    ASSUME ServerTypeOK, Len(log) < MaxSeq, NEW k \in Kinds, log' = Append(log, k)
    PROVE  /\ log' \in Seq(Kinds) /\ Len(log') = Len(log) + 1 /\ Len(log') <= MaxSeq
           /\ DOMAIN log \subseteq DOMAIN log'
           /\ \A i \in DOMAIN log : log'[i] = log[i]
<1>1. /\ log' \in Seq(Kinds) /\ Len(log') = Len(log) + 1 /\ Len(log') <= MaxSeq
      /\ \A i \in DOMAIN log : log'[i] = log[i]
  BY SubscriptionAssumption DEF ServerTypeOK
<1>2. DOMAIN log = 1..Len(log) /\ DOMAIN log' = 1..Len(log') /\ Len(log) \in Nat
  BY <1>1 DEF ServerTypeOK
<1> QED BY <1>1, <1>2

(* The cursor and what it passed, when somebody else moves it.              *)
LEMMA MovedAwayStep ==
    ASSUME ServerTypeOK, log' \in Seq(Kinds), Len(log) <= Len(log'),
           NEW n \in 1..Len(log) + 1, MovedAway(n)
    PROVE  /\ cursor' \in 1..Len(log') + 1
           /\ passed' \subseteq DOMAIN log'
           /\ moved' = TRUE /\ passed \subseteq passed'
           /\ CursorStep
BY DEF ServerTypeOK, MovedAway, CursorStep

(* Whatever others do at the server (append, compact, subAction): types,    *)
(* growth, and how the cursor moved.                                        *)
LEMMA ServerStep ==
    ASSUME ServerTypeOK, Server
    PROVE  ServerTypeOK' /\ ServerGrows /\ CursorStep
<1>0. OwnHead \in 0..Len(log) /\ Len(log) \in Nat
  BY OwnHeadIs DEF ServerTypeOK
<1>1. ASSUME NEW k \in Kinds, Publish(k)
      PROVE  ServerTypeOK' /\ ServerGrows /\ CursorStep
  BY <1>1, AppendGrows DEF Publish, ServerTypeOK, ServerGrows, CursorStep
<1>2. ASSUME NEW u \in 1..Len(log), Compact(u)
      PROVE  ServerTypeOK' /\ ServerGrows /\ CursorStep
  BY <1>0, <1>2 DEF Compact, ServerTypeOK, ServerGrows, CursorStep
<1>3. ASSUME NEW n \in 1..MaxSeq + 1, OtherAck(n)
      PROVE  ServerTypeOK' /\ ServerGrows /\ CursorStep
  <2>1. n \in 1..Len(log) + 1
    BY <1>0, <1>3 DEF OtherAck
  <2>2. log' = log /\ MovedAway(n)
    BY <1>3 DEF OtherAck
  <2>3. log' \in Seq(Kinds) /\ Len(log) <= Len(log')
    BY <2>2, <1>0 DEF ServerTypeOK
  <2> QED BY <1>0, <1>3, <2>1, <2>2, <2>3, MovedAwayStep DEF OtherAck, ServerTypeOK, ServerGrows
<1>4. ASSUME NEW n \in 1..MaxSeq + 1, Seek(n)
      PROVE  ServerTypeOK' /\ ServerGrows /\ CursorStep
  <2>1. n \in 1..Len(log) + 1
    BY <1>0, <1>4 DEF Seek
  <2>2. /\ log' \in Seq(Kinds) /\ Len(log') = Len(log) + 1 /\ Len(log') <= MaxSeq
        /\ DOMAIN log \subseteq DOMAIN log'
        /\ \A i \in DOMAIN log : log'[i] = log[i]
    BY <1>4, AppendGrows DEF Seek, Kinds
  <2>3. /\ cursor' \in 1..Len(log') + 1 /\ passed' \subseteq DOMAIN log'
        /\ moved' = TRUE /\ passed \subseteq passed' /\ CursorStep
    <3>1. log' \in Seq(Kinds) /\ Len(log) <= Len(log') /\ MovedAway(n)
      BY <1>0, <1>4, <2>2 DEF Seek
    <3> QED BY <2>1, <3>1, MovedAwayStep
  <2>4. UNCHANGED <<floor, active, policy>> /\ Len(log) <= Len(log')
    BY <1>0, <1>4, <2>2 DEF Seek
  <2>5. floor' \in 0..Len(log') + 1
    BY <1>0, <2>2, <2>4 DEF ServerTypeOK
  <2> QED BY <2>2, <2>3, <2>4, <2>5 DEF ServerTypeOK, ServerGrows
<1>5. ASSUME Retire
      PROVE  ServerTypeOK' /\ ServerGrows /\ CursorStep
  <2>2. /\ log' \in Seq(Kinds) /\ Len(log') = Len(log) + 1 /\ Len(log') <= MaxSeq
        /\ DOMAIN log \subseteq DOMAIN log'
        /\ \A i \in DOMAIN log : log'[i] = log[i]
    BY <1>5, AppendGrows DEF Retire, Kinds
  <2>3. UNCHANGED <<cursor, floor, policy, passed, moved>> /\ active' = FALSE
    BY <1>5 DEF Retire
  <2>4. cursor' \in 1..Len(log') + 1 /\ floor' \in 0..Len(log') + 1 /\ Len(log) <= Len(log')
    BY <1>0, <2>2, <2>3 DEF ServerTypeOK
  <2> QED BY <2>2, <2>3, <2>4 DEF ServerTypeOK, ServerGrows, CursorStep
<1> QED BY <1>1, <1>2, <1>3, <1>4, <1>5 DEF Server

(* The same of a read that resets the cursor (pull, core.ts).               *)
LEMMA ResetStep ==
    ASSUME ServerTypeOK, Reset
    PROVE  ServerTypeOK' /\ ServerGrows /\ CursorStep
<1>0. OwnHead \in 0..Len(log) /\ Len(log) \in Nat
  BY OwnHeadIs DEF ServerTypeOK
<1>1. /\ log' \in Seq(Kinds) /\ Len(log') = Len(log) + 1 /\ Len(log') <= MaxSeq
      /\ DOMAIN log \subseteq DOMAIN log'
      /\ \A i \in DOMAIN log : log'[i] = log[i]
  BY AppendGrows DEF Reset, Kinds
<1>2. floor \in 1..Len(log) + 1
  BY DEF Reset, ResetDue, LostSince, ServerTypeOK, OwnRows
<1>3. PICK n \in 1..Len(log) + 1 : MovedAway(n)
  BY <1>0, <1>2 DEF Reset
<1>4. /\ cursor' \in 1..Len(log') + 1 /\ passed' \subseteq DOMAIN log'
      /\ moved' = TRUE /\ passed \subseteq passed' /\ CursorStep
  <2>1. log' \in Seq(Kinds) /\ Len(log) <= Len(log')
    BY <1>0, <1>1
  <2> QED BY <1>3, <2>1, MovedAwayStep
<1>5. UNCHANGED <<floor, active, policy>> /\ Len(log) <= Len(log')
  BY <1>0, <1>1 DEF Reset
<1>6. floor' \in 0..Len(log') + 1
  BY <1>0, <1>1, <1>5 DEF ServerTypeOK
<1> QED BY <1>1, <1>4, <1>5, <1>6 DEF ServerTypeOK, ServerGrows

(* An acknowledgement up to a delivery: never clamped, since the delivery   *)
(* is a row of the monitor (subAction, core.ts).                            *)
LEMMA AckStep ==
    ASSUME TypeOK, JournalInv, NEW d \in delivery, Handled(d),
           AckTaken(d + 1), AckTo(d + 1), UNCHANGED <<log, floor, active, policy, passed, moved>>
    PROVE  ServerTypeOK' /\ ServerGrows /\ CursorStep /\ cursor' = d + 1
<1>0. d \in OwnRows /\ d \in 1..Len(log)
  BY DEF TypeOK, ServerTypeOK, JournalInv, OwnRows
<1>1. OwnHead \in 0..Len(log) /\ d <= OwnHead /\ Len(log) \in Nat
  BY <1>0, OwnHeadIs DEF TypeOK, ServerTypeOK
<1>2. cursor' = d + 1
  BY <1>0, <1>1 DEF AckTo
<1> QED BY <1>0, <1>1, <1>2 DEF TypeOK, ServerTypeOK, ServerGrows, CursorStep, AckTaken

-----------------------------------------------------------------------------
(* What any step of these shapes leaves true.                               *)

(* The cursor moves over settled rows only, whoever moves it, and a         *)
(* delivery keeps nothing unsettled below it.                               *)
LEMMA GrowthKeeps ==
    ASSUME IInv, ServerTypeOK', ServerGrows, JournalGrows, CursorStep
    PROVE  /\ NothingPassedOver'
           /\ \A d \in delivery : log'[d] = "matching" /\ SettledBelow(d)'
<1>0. /\ ServerTypeOK /\ Len(log) \in Nat /\ cursor \in 1..Len(log) + 1
      /\ delivery \subseteq 1..Len(log) /\ Len(log) <= MaxSeq /\ MaxSeq \in Nat
  BY SubscriptionAssumption DEF IInv, TypeOK, ServerTypeOK
<1>1. ASSUME NEW d \in delivery
      PROVE  log'[d] = "matching" /\ SettledBelow(d)'
  <2>1. log[d] = "matching" /\ SettledBelow(d) /\ d \in Int /\ d <= Len(log) + 1 /\ d \in DOMAIN log
    BY <1>0 DEF IInv, JournalInv, ServerTypeOK
  <2>2. SettledBelow(d)'
    BY <1>0, <2>1, SettledStays
  <2> QED BY <2>1, <2>2 DEF ServerGrows
<1>2. SettledBelow(cursor) /\ cursor \in Int /\ cursor <= Len(log) + 1
  BY <1>0 DEF IInv, NothingPassedOver
<1>3. ASSUME NEW i \in DOMAIN log', i < cursor, log'[i] = "matching"
      PROVE  receipt'[i] # Nobody \/ i \in passed'
  <2>1. PICK n \in Int : n = cursor
    BY <1>2
  <2>2. SettledBelow(n)'
    BY <1>0, <1>2, <2>1, SettledStays
  <2> QED BY <1>3, <2>1, <2>2 DEF SettledBelow, Settled, Handled
<1>4. ASSUME NEW i \in DOMAIN log', i < cursor', log'[i] = "matching"
      PROVE  receipt'[i] # Nobody \/ i \in passed'
  <2>1. i \in Int /\ cursor' \in Int
    BY DEF ServerTypeOK
  <2>2. CASE i < cursor
    BY <1>3, <1>4, <2>2
  <2>3. CASE moved' /\ cursor..(cursor' - 1) \subseteq passed' /\ ~(i < cursor)
    <3>1. i \in cursor..(cursor' - 1)
      BY <1>2, <1>4, <2>1, <2>3
    <3> QED BY <2>3, <3>1
  <2>4. CASE ~(i < cursor) /\ \E d \in delivery : Handled(d) /\ cursor' = d + 1 /\ cursor <= d + 1
    <3>1. PICK d \in delivery : Handled(d) /\ cursor' = d + 1
      BY <2>4
    <3>2. d \in Int /\ d \in Seqs /\ (i = d \/ i < d)
      BY <1>0, <1>4, <2>1, <3>1 DEF Seqs
    <3>3. CASE i = d
      BY <3>1, <3>2, <3>3 DEF JournalGrows, Handled
    <3>4. CASE i < d
      BY <1>1, <1>4, <3>4 DEF SettledBelow, Settled, Handled
    <3> QED BY <3>2, <3>3, <3>4
  <2> QED BY <1>4, <2>2, <2>3, <2>4 DEF CursorStep
<1> QED BY <1>1, <1>4 DEF NothingPassedOver, SettledBelow, Settled, Handled

(* A worker goes somewhere, with a delivery in hand if the place needs one. *)
WorkerGoes(w) == \E p \in Places, i \in 0..MaxSeq :
    /\ Goto(w, p, i)
    /\ p \in Holding => i \in delivery'
    /\ p \in {"confirming", "acking"} => receipt'[i] # Nobody

WorkersStep == UNCHANGED <<at, item>> \/ \E w \in Workers : WorkerGoes(w)

(* The other workers' deliveries and receipts are where they were.          *)
LEMMA WorkersKeep ==
    ASSUME TypeOK, WorkerInv, JournalGrows, WorkersStep
    PROVE  WorkerInv' /\ at' \in [Workers -> Places] /\ item' \in [Workers -> 0..MaxSeq]
<1>0. /\ at \in [Workers -> Places] /\ item \in [Workers -> 0..MaxSeq]
      /\ delivery \subseteq Seqs
  BY SubscriptionAssumption DEF TypeOK, ServerTypeOK, Seqs
<1>1. ASSUME NEW v \in Workers, at'[v] = at[v], item'[v] = item[v]
      PROVE  /\ at'[v] \in Holding => item'[v] \in delivery'
             /\ at'[v] \in {"confirming", "acking"} => receipt'[item'[v]] # Nobody
  <2>1. at[v] \in Holding => item[v] \in delivery /\ item[v] \in Seqs
    BY <1>0 DEF WorkerInv
  <2>2. at[v] \in {"confirming", "acking"} => receipt[item[v]] # Nobody /\ at[v] \in Holding
    BY DEF WorkerInv, Handled, Holding
  <2> QED BY <1>1, <2>1, <2>2 DEF JournalGrows, Handled
<1>2. CASE UNCHANGED <<at, item>>
  BY <1>0, <1>1, <1>2 DEF WorkerInv, Handled
<1>3. ASSUME NEW w \in Workers, WorkerGoes(w)
      PROVE  WorkerInv' /\ at' \in [Workers -> Places] /\ item' \in [Workers -> 0..MaxSeq]
  <2>1. PICK p \in Places, i \in 0..MaxSeq :
            /\ at' = [at EXCEPT ![w] = p] /\ item' = [item EXCEPT ![w] = i]
            /\ p \in Holding => i \in delivery'
            /\ p \in {"confirming", "acking"} => receipt'[i] # Nobody
    BY <1>3 DEF WorkerGoes, Goto
  <2>2. at' \in [Workers -> Places] /\ item' \in [Workers -> 0..MaxSeq]
    BY <1>0, <2>1
  <2>3. ASSUME NEW v \in Workers, v # w
        PROVE  at'[v] = at[v] /\ item'[v] = item[v]
    BY <1>0, <2>1, <2>3
  <2>4. at'[w] = p /\ item'[w] = i
    BY <1>0, <2>1
  <2>5. ASSUME NEW v \in Workers
        PROVE  /\ at'[v] \in Holding => item'[v] \in delivery'
               /\ at'[v] \in {"confirming", "acking"} => receipt'[item'[v]] # Nobody
    <3>1. CASE v = w
      BY <2>1, <2>4, <3>1
    <3>2. CASE v # w
      BY <1>1, <2>3, <3>2
    <3> QED BY <3>1, <3>2
  <2> QED BY <2>2, <2>5 DEF WorkerInv, Handled
<1> QED BY <1>2, <1>3 DEF WorkersStep

(* The shape of every step that leaves the journal's deliveries and the     *)
(* receipts alone.                                                          *)
Moves ==
    /\ ServerTypeOK' /\ ServerGrows /\ CursorStep
    /\ WorkersStep
    /\ UNCHANGED <<delivery, receipt, hand, linking, told>>
    /\ lock' \in Workers \cup {Nobody} /\ stopped' \in BOOLEAN /\ live' \in BOOLEAN
    /\ inbox \subseteq inbox' /\ inbox' \subseteq inbox \cup delivery
    /\ queued' \subseteq inbox'
    /\ \A i \in acked' \ acked : i \in delivery /\ Handled(i) /\ i < cursor'
    /\ \A n \in late' \ late : \E d \in delivery : n = d + 1 /\ Handled(d)

(* Such a step preserves the invariant.                                     *)
LEMMA MovesKeep ==
    ASSUME IInv, Moves
    PROVE  IInv'
<1>0. /\ TypeOK /\ ServerTypeOK /\ MaxSeq \in Nat
      /\ delivery \subseteq Seqs /\ delivery \subseteq DOMAIN log
  BY SubscriptionAssumption DEF IInv, TypeOK, ServerTypeOK, Seqs
<1>1. JournalGrows /\ delivery' = delivery /\ receipt' = receipt
  BY DEF Moves, JournalGrows
<1>2. WorkerInv' /\ at' \in [Workers -> Places] /\ item' \in [Workers -> 0..MaxSeq]
  BY <1>0, <1>1, WorkersKeep DEF IInv, Moves
<1>3. NothingPassedOver' /\ JournalInv'
  BY <1>1, GrowthKeeps DEF Moves, JournalInv
<1>4. LateInv'
  BY <1>1 DEF IInv, LateInv, Moves, Handled
<1>5. TypeOK'
  <2>1. DOMAIN log \subseteq DOMAIN log'
    BY <1>0 DEF Moves, ServerGrows, ServerTypeOK
  <2>2. delivery' \subseteq DOMAIN log' /\ queued' \cup acked' \cup inbox' \subseteq delivery'
    BY <1>0, <1>1, <2>1 DEF TypeOK, Moves
  <2>3. late' \subseteq 1..MaxSeq + 1
    BY <1>0, <1>1, <1>4 DEF LateInv, Seqs
  <2> QED BY <1>0, <1>1, <1>2, <2>2, <2>3 DEF TypeOK, Moves, Handled
<1>6. HandInv' /\ ReportsStand'
  BY <1>1 DEF IInv, HandInv, ReportsStand, Moves
<1>7. MarksAreTrue'
  <2> SUFFICES ASSUME NEW i \in acked'
               PROVE  Handled(i)' /\ (i < cursor' \/ moved')
    BY DEF MarksAreTrue, Moves
  <2>1. CASE i \notin acked
    BY <1>1, <2>1 DEF Moves, Handled
  <2>2. CASE i \in acked
    <3>1. Handled(i) /\ (i < cursor \/ moved) /\ i \in Int /\ cursor \in Int /\ cursor' \in Int
      BY <1>0, <2>2 DEF IInv, MarksAreTrue, TypeOK, ServerTypeOK, Moves
    <3>2. ASSUME NEW d \in delivery, cursor' = d + 1, cursor <= d + 1
          PROVE  cursor <= cursor'
      BY <1>0, <3>1, <3>2 DEF Seqs
    <3>3. cursor <= cursor' \/ moved'
      BY <3>1, <3>2 DEF Moves, CursorStep
    <3> QED BY <1>1, <3>1, <3>3 DEF Moves, ServerGrows, Handled
  <2> QED BY <2>1, <2>2
<1> QED BY <1>2, <1>3, <1>4, <1>5, <1>6, <1>7 DEF IInv

-----------------------------------------------------------------------------
(* Every step but three kinds has that shape.                               *)

(* One worker goes to a place that asks for no delivery, or goes on with    *)
(* the one it has.                                                          *)
LEMMA GoesEmpty ==
    ASSUME NEW w \in Workers, NEW p \in Places \ Holding, Goto(w, p, 0)
    PROVE  WorkersStep
<1>1. p \in Places /\ p \notin Holding /\ p \notin {"confirming", "acking"} /\ 0 \in 0..MaxSeq
  BY SubscriptionAssumption DEF Holding
<1> QED BY <1>1 DEF WorkersStep, WorkerGoes

(* A worker goes to a place with a delivery of the journal in hand.         *)
LEMMA GoesHolding ==
    ASSUME TypeOK, NEW w \in Workers, NEW p \in Holding, NEW i \in delivery, Goto(w, p, i),
           UNCHANGED <<delivery, receipt>>, p \in {"confirming", "acking"} => Handled(i)
    PROVE  WorkersStep
<1>1. p \in Places /\ i \in 0..MaxSeq
  BY SubscriptionAssumption DEF Holding, Places, TypeOK, ServerTypeOK
<1> QED BY <1>1 DEF WorkersStep, WorkerGoes, Handled

(* Only workers, the lock and the stop mark move.                           *)
LEMMA QuietMoves ==
    ASSUME IInv, WorkersStep,
           UNCHANGED <<serverVars, delivery, queued, receipt, acked, hand, linking, inbox, told, late>>,
           lock' \in Workers \cup {Nobody}, stopped' \in BOOLEAN, live' \in BOOLEAN
    PROVE  Moves
<1>1. ServerTypeOK /\ inbox \subseteq delivery /\ queued \subseteq inbox
  BY DEF IInv, TypeOK, MarksAreTrue
<1>2. ServerTypeOK' /\ ServerGrows /\ CursorStep
  BY <1>1 DEF serverVars, ServerTypeOK, ServerGrows, CursorStep
<1> QED BY <1>1, <1>2 DEF Moves

(* A worker that ends, one that goes to sleep, and one that first asks      *)
(* whether the bridge is stopped.                                           *)
LEMMA EndMoves ==
    ASSUME IInv, NEW w \in Workers, GiveUp(w) \/ EndStopped(w) \/ (Sleep(w) /\ JournalUnchanged),
           OthersUnchanged
    PROVE  Moves
<1>1. "failed" \in Places \ Holding /\ "down" \in Places \ Holding /\ "asleep" \in Places \ Holding
  BY DEF Places, Holding
<1>2. WorkersStep
  BY <1>1, GoesEmpty DEF GiveUp, EndStopped, Sleep
<1>3. UNCHANGED <<serverVars, delivery, queued, receipt, acked, hand, linking, inbox, told, late>>
  BY DEF GiveUp, EndStopped, JournalUnchanged, journalVars, OthersUnchanged, sessionVars
<1>4. lock' \in Workers \cup {Nobody} /\ stopped' \in BOOLEAN /\ live' \in BOOLEAN
  BY DEF GiveUp, EndStopped, JournalUnchanged, journalVars, OthersUnchanged, sessionVars, IInv, TypeOK
<1> QED BY <1>2, <1>3, <1>4, QuietMoves

(* A worker that goes on with nothing in hand (runSessionBridge).           *)
LEMMA EmptyMoves ==
    ASSUME IInv, NEW w \in Workers, NEW p \in Places \ Holding, Goto(w, p, 0),
           UNCHANGED <<delivery, queued, receipt, acked, stopped>>,
           lock' \in Workers \cup {Nobody}, OthersUnchanged
    PROVE  Moves
<1>1. WorkersStep
  BY GoesEmpty
<1>2. stopped' \in BOOLEAN /\ live' \in BOOLEAN
  BY DEF OthersUnchanged, sessionVars, IInv, TypeOK
<1> QED BY <1>1, <1>2, QuietMoves DEF OthersUnchanged, sessionVars

(* A worker that goes on with a delivery in hand (step).                    *)
LEMMA HoldingMoves ==
    ASSUME IInv, NEW w \in Workers, NEW p \in Holding, NEW i \in delivery, Goto(w, p, i),
           p \in {"confirming", "acking"} => Handled(i), JournalUnchanged, OthersUnchanged
    PROVE  Moves
<1>1. WorkersStep
  BY GoesHolding DEF IInv, JournalUnchanged, journalVars
<1>2. lock' \in Workers \cup {Nobody} /\ stopped' \in BOOLEAN /\ live' \in BOOLEAN
  BY DEF JournalUnchanged, journalVars, OthersUnchanged, sessionVars, IInv, TypeOK
<1> QED BY <1>1, <1>2, QuietMoves DEF JournalUnchanged, journalVars, OthersUnchanged, sessionVars

(* The worker's own steps, except the pull that finds a row, and those that *)
(* reach the server, the queue or the network.                              *)
LEMMA LocalMoves ==
    ASSUME IInv, NEW w \in Workers,
           \/ Start(w) \/ StartFails(w) \/ Loop(w) \/ LookFails(w) \/ Enter(w) \/ Take(w)
           \/ Confirm(w) \/ Compare(w) \/ Announce(w)
    PROVE  Moves
<1>0. /\ at[w] \in Holding => item[w] \in delivery
      /\ at[w] \in {"confirming", "acking"} => Handled(item[w])
  BY DEF IInv, WorkerInv
<1>1. {"starting", "entering", "pulling"} \subseteq Places \ Holding
  BY DEF Places, Holding
<1>2. lock \in Workers \cup {Nobody}
  BY DEF IInv, TypeOK
<1>3. CASE Start(w)
  BY <1>1, <1>3, EmptyMoves DEF Start
<1>4. CASE Loop(w)
  <2>1. CASE EndStopped(w)
    BY <1>4, <2>1, EndMoves DEF Loop
  <2>2. CASE Goto(w, "entering", 0) /\ JournalUnchanged
    <3>1. UNCHANGED <<delivery, queued, receipt, acked, stopped>> /\ lock' = lock
      BY <2>2 DEF JournalUnchanged, journalVars
    <3> QED BY <1>1, <1>2, <1>4, <2>2, <3>1, EmptyMoves DEF Loop
  <2> QED BY <1>4, <2>1, <2>2 DEF Loop, IfActive
<1>5. CASE LookFails(w) \/ StartFails(w)
  BY <1>5, EndMoves DEF LookFails, StartFails
<1>6. CASE Enter(w)
  <2>1. CASE GiveUp(w)
    BY <1>6, <2>1, EndMoves DEF Enter
  <2>2. CASE Goto(w, "pulling", 0) /\ JournalUnchanged
    <3>1. UNCHANGED <<delivery, queued, receipt, acked, stopped>> /\ lock' = lock
      BY <2>2 DEF JournalUnchanged, journalVars
    <3> QED BY <1>1, <1>2, <1>6, <2>2, <3>1, EmptyMoves DEF Enter
  <2>3. CASE JournalUnchanged /\ \E i \in Pending : Goto(w, "holding", i)
    <3>1. PICK i \in delivery : Goto(w, "holding", i)
      BY <2>3 DEF Pending
    <3>2. "holding" \in Holding /\ "holding" \notin {"confirming", "acking"}
      BY DEF Holding
    <3> QED BY <1>6, <2>3, <3>1, <3>2, HoldingMoves DEF Enter
  <2> QED BY <1>6, <2>1, <2>2, <2>3 DEF Enter
<1>7. CASE Take(w)
  <2>0. item[w] \in delivery /\ {"confirming", "comparing"} \subseteq Holding /\ OthersUnchanged
    BY <1>0, <1>7 DEF Take, Holding
  <2>1. CASE EndStopped(w)
    BY <2>0, <2>1, EndMoves
  <2>2. CASE Handled(item[w]) /\ Goto(w, "confirming", item[w]) /\ JournalUnchanged
    BY <2>0, <2>2, HoldingMoves
  <2>3. CASE Goto(w, "comparing", item[w]) /\ JournalUnchanged
    BY <2>0, <2>3, HoldingMoves
  <2> QED BY <1>7, <2>1, <2>2, <2>3 DEF Take, IfActive
<1>8. CASE Confirm(w)
  <2>1. item[w] \in delivery /\ Handled(item[w]) /\ "acking" \in Holding
    BY <1>0, <1>8 DEF Confirm, Holding
  <2> QED BY <1>8, <2>1, HoldingMoves DEF Confirm
<1>9. CASE Compare(w)
  <2>0. item[w] \in delivery /\ "announcing" \in Holding /\ OthersUnchanged
    BY <1>0, <1>9 DEF Compare, Holding
  <2>1. CASE GiveUp(w) \/ EndStopped(w) \/ (Sleep(w) /\ JournalUnchanged)
    BY <2>0, <2>1, EndMoves
  <2>2. CASE Goto(w, "announcing", item[w]) /\ JournalUnchanged
    BY <2>0, <2>2, HoldingMoves
  <2> QED BY <1>9, <2>1, <2>2 DEF Compare, IfActive
<1>10. CASE Announce(w)
  <2>1. item[w] \in delivery /\ "enqueueing" \in Holding
    BY <1>0, <1>10 DEF Announce, Holding
  <2> QED BY <1>10, <2>1, HoldingMoves DEF Announce
<1> QED BY <1>3, <1>4, <1>5, <1>6, <1>7, <1>8, <1>9, <1>10

(* An acknowledgement that is taken, whoever waits for it, moves the cursor *)
(* to just after its delivery.                                              *)
LEMMA AcknowledgeMoves ==
    ASSUME IInv, NEW w \in Workers, Acknowledge(w)
    PROVE  Moves
<1> DEFINE d == item[w]
<1>0. d \in delivery /\ Handled(d) /\ TypeOK /\ JournalInv
  BY DEF IInv, WorkerInv, Acknowledge, Holding
<1>1. CASE GiveUp(w) /\ UNCHANGED cursor
  <2>1. OthersUnchanged
    BY <1>1 DEF Acknowledge, OthersUnchanged, serverVars, sessionVars
  <2> QED BY <1>1, <2>1, EndMoves
<1>2. CASE /\ AckTaken(d + 1) /\ AckTo(d + 1) /\ Sleep(w)
           /\ acked' = acked \cup {d}
           /\ UNCHANGED <<delivery, queued, receipt, stopped, lock>>
  <2>1. UNCHANGED <<log, floor, active, policy, passed, moved, hand, linking, inbox, told, live, late>>
    BY DEF Acknowledge, sessionVars
  <2>2. ServerTypeOK' /\ ServerGrows /\ CursorStep /\ cursor' = d + 1
    <3> HIDE DEF d
    <3> QED BY <1>0, <1>2, <2>1, AckStep
  <2>3. WorkersStep
    <3>1. "asleep" \in Places \ Holding
      BY DEF Places, Holding
    <3> QED BY <1>2, <3>1, GoesEmpty DEF Sleep
  <2>4. d < cursor'
    BY <1>0, <2>2 DEF TypeOK, ServerTypeOK
  <2> QED BY <1>0, <1>2, <2>1, <2>2, <2>3, <2>4 DEF Moves, IInv, TypeOK, MarksAreTrue
<1> QED BY <1>1, <1>2 DEF Acknowledge

(* The same of an acknowledgement that the worker gave up waiting for.      *)
LEMMA LateAckMoves ==
    ASSUME IInv, NEW n \in 1..MaxSeq + 1, LateAck(n)
    PROVE  Moves
<1>1. PICK d \in delivery : n = d + 1 /\ Handled(d)
  BY DEF IInv, LateInv, LateAck
<1>2. /\ UNCHANGED <<log, floor, active, policy, passed, moved, at, item>>
      /\ UNCHANGED <<delivery, queued, receipt, acked, stopped, lock, hand, linking, inbox, told, live>>
      /\ late' \subseteq late
  BY DEF LateAck, sessionVars, JournalUnchanged, journalVars
<1>3. ServerTypeOK' /\ ServerGrows /\ CursorStep
  <2>1. CASE AckTaken(n) /\ AckTo(n)
    BY <1>1, <1>2, <2>1, AckStep DEF IInv
  <2>2. CASE UNCHANGED cursor
    BY <1>2, <2>2 DEF ServerTypeOK, ServerGrows, CursorStep, IInv, TypeOK
  <2> QED BY <2>1, <2>2 DEF LateAck
<1> QED BY <1>2, <1>3 DEF Moves, WorkersStep, IInv, TypeOK, MarksAreTrue

(* The steps at the queue and on the network.                               *)
LEMMA QueueMoves ==
    ASSUME IInv, NEW w \in Workers,
           Enqueue(w) \/ EnqueueFails(w) \/ Unanswered(w) \/ Kill(w)
    PROVE  Moves
<1>0. /\ at[w] \in Holding => item[w] \in delivery
      /\ at[w] = "acking" => Handled(item[w])
      /\ "acking" \in Holding /\ "enqueueing" \in Holding
      /\ {"asleep", "failed", "down"} \subseteq Places \ Holding
  BY DEF IInv, WorkerInv, Holding, Places
<1>1. UNCHANGED <<serverVars, delivery, receipt, acked, hand, linking, told, live>>
  BY DEF Enqueue, EnqueueFails, Unanswered, Kill, GiveUp, JournalUnchanged, journalVars, sessionVars
<1>2. WorkersStep
  <2>1. Goto(w, "asleep", 0) \/ Goto(w, "failed", 0) \/ Goto(w, "down", 0)
    BY DEF Enqueue, EnqueueFails, Unanswered, Kill, GiveUp, Sleep
  <2> QED BY <1>0, <2>1, GoesEmpty
<1>3. ServerTypeOK' /\ ServerGrows /\ CursorStep
  BY <1>1 DEF serverVars, ServerTypeOK, ServerGrows, CursorStep, IInv, TypeOK
<1>4. lock' \in Workers \cup {Nobody} /\ stopped' \in BOOLEAN /\ live' \in BOOLEAN
  BY <1>1 DEF Enqueue, EnqueueFails, Unanswered, Kill, GiveUp, JournalUnchanged, journalVars, IInv, TypeOK
<1>5. inbox \subseteq inbox' /\ inbox' \subseteq inbox \cup delivery /\ queued' \subseteq inbox'
  <2>0. queued \subseteq inbox
    BY DEF IInv, MarksAreTrue
  <2>1. CASE Enqueue(w)
    BY <1>0, <2>0, <2>1 DEF Enqueue
  <2>2. CASE EnqueueFails(w)
    BY <1>0, <2>0, <2>2 DEF EnqueueFails, MaybeAccepted, GiveUp, JournalUnchanged, journalVars
  <2>3. CASE Unanswered(w)
    BY <2>0, <2>3 DEF Unanswered, JournalUnchanged, journalVars, sessionVars
  <2>4. CASE Kill(w)
    BY <1>0, <2>0, <2>4 DEF Kill, MaybeAccepted, JournalUnchanged, journalVars
  <2> QED BY <2>1, <2>2, <2>3, <2>4
<1>6. \A n \in late' \ late : \E d \in delivery : n = d + 1 /\ Handled(d)
  <2>1. late' \subseteq late \/ (at[w] = "acking" /\ late' = late \cup {item[w] + 1})
    BY DEF Enqueue, EnqueueFails, Unanswered, Kill, LeaveLate
  <2> QED BY <1>0, <2>1
<1> QED BY <1>1, <1>2, <1>3, <1>4, <1>5, <1>6 DEF Moves

(* Everybody but workers and commands.                                      *)
LEMMA OtherMoves ==
    ASSUME IInv, ServerMoves \/ RemoveLock \/ Stop \/ SessionDies
    PROVE  Moves
<1>1. CASE ServerMoves
  <2>1. ServerTypeOK' /\ ServerGrows /\ CursorStep
    BY <1>1, ServerStep DEF ServerMoves, IInv, TypeOK
  <2> QED BY <1>1, <2>1 DEF ServerMoves, JournalUnchanged, journalVars, sessionVars, Moves,
                            WorkersStep, IInv, TypeOK, MarksAreTrue
<1>2. CASE RemoveLock \/ Stop \/ SessionDies
  <2>1. /\ UNCHANGED <<at, item, serverVars, delivery, queued, receipt, acked>>
        /\ UNCHANGED <<hand, linking, inbox, told, late>>
        /\ lock' \in Workers \cup {Nobody} /\ stopped' \in BOOLEAN /\ live' \in BOOLEAN
    BY <1>2 DEF RemoveLock, Stop, SessionDies, OthersUnchanged, JournalUnchanged,
                journalVars, sessionVars, IInv, TypeOK
  <2> QED BY <2>1, QuietMoves DEF WorkersStep
<1> QED BY <1>1, <1>2

(* A pull whose read resets the cursor changes nothing of the bridge's.     *)
LEMMA PullResetsMoves ==
    ASSUME IInv, NEW w \in Workers, PullResets(w)
    PROVE  Moves
<1>1. ServerTypeOK' /\ ServerGrows /\ CursorStep
  BY ResetStep DEF PullResets, IInv, TypeOK
<1> QED BY <1>1 DEF PullResets, JournalUnchanged, journalVars, sessionVars, Moves,
                    WorkersStep, IInv, TypeOK, MarksAreTrue

-----------------------------------------------------------------------------
(* The three other kinds of step.                                           *)

(* A row that a read returns has nothing unsettled below it: what lies      *)
(* between the cursor and it was not let through by the filters, or was     *)
(* below the floor, and then the read would have been refused or reset.     *)
LEMMA PulledIsNext ==
    ASSUME IInv, ~ResetDue, ~PageRefused, Due # {}
    PROVE  First(Due) \in DOMAIN log /\ log[First(Due)] = "matching" /\ SettledBelow(First(Due))
<1>0. /\ log \in Seq(Kinds) /\ Len(log) \in Nat /\ DOMAIN log = 1..Len(log)
      /\ cursor \in Int /\ floor \in Int
  BY DEF IInv, TypeOK, ServerTypeOK
<1>1. First(Due) \in Due /\ \A j \in Due : First(Due) <= j
  <2>1. Due \in SUBSET Nat
    BY DueIs DEF IInv, TypeOK
  <2> QED BY <2>1, FirstExists
<1>2. ~LostSince
  BY DEF ResetDue, PageRefused, Refused
<1>3. ASSUME NEW i \in DOMAIN log, i < First(Due), log[i] = "matching"
      PROVE  Handled(i) \/ i \in passed
  <2>0. First(Due) \in DOMAIN log /\ First(Due) \in Int /\ i \in Int
    BY <1>0, <1>1, DueIs DEF IInv, TypeOK
  <2>1. i \notin Due
    BY <1>1, <1>3, <2>0
  <2>2. CASE i < cursor
    BY <1>3, <2>2 DEF IInv, NothingPassedOver, SettledBelow, Settled
  <2>3. CASE ~(i < cursor)
    <3>1. i < floor /\ cursor <= i /\ i \in OwnRows
      BY <1>0, <1>1, <1>3, <2>0, <2>1, <2>3, DueIs DEF OwnRows, IInv, TypeOK
    <3> QED BY <1>2, <3>1 DEF LostSince
  <2> QED BY <2>2, <2>3
<1> QED BY <1>1, <1>3, DueIs DEF SettledBelow, Settled, IInv, TypeOK

(* A pull that writes a row to the journal (step, add) preserves the        *)
(* invariant, by PulledIsNext.                                              *)
LEMMA PullKeeps ==
    ASSUME IInv, NEW w \in Workers, Pull(w)
    PROVE  IInv'
<1>1. CASE GiveUp(w) \/ (Sleep(w) /\ JournalUnchanged)
  BY <1>1, EndMoves, MovesKeep DEF Pull
<1>2. CASE /\ ~PageRefused /\ Due # {}
           /\ delivery' = delivery \cup {First(Due)}
           /\ Goto(w, "holding", First(Due))
           /\ UNCHANGED <<queued, receipt, acked, stopped, lock>>
  <2> DEFINE d == First(Due)
  <2>0. TypeOK /\ ServerTypeOK /\ MaxSeq \in Nat
    BY SubscriptionAssumption DEF IInv, TypeOK
  <2>1. d \in DOMAIN log /\ log[d] = "matching" /\ SettledBelow(d)
    BY <1>2, PulledIsNext DEF Pull
  <2>2. UNCHANGED <<serverVars, sessionVars, late>> /\ UNCHANGED <<log, cursor, passed, moved, live, hand, linking, inbox, told>>
    BY DEF Pull, OthersUnchanged, serverVars, sessionVars
  <2>3. ServerTypeOK' /\ ServerGrows /\ CursorStep /\ JournalGrows
    BY <1>2, <2>0, <2>2 DEF serverVars, ServerTypeOK, ServerGrows, CursorStep, JournalGrows
  <2>4. d \in 0..MaxSeq /\ "holding" \in Places /\ "holding" \notin {"confirming", "acking"}
    <3> HIDE DEF d
    <3> QED BY <2>0, <2>1 DEF Places, ServerTypeOK
  <2>5. WorkersStep
    <3>1. d \in delivery' /\ Goto(w, "holding", d)
      BY <1>2
    <3> HIDE DEF d
    <3> QED BY <2>4, <3>1 DEF WorkersStep, WorkerGoes
  <2>6. WorkerInv' /\ at' \in [Workers -> Places] /\ item' \in [Workers -> 0..MaxSeq]
    BY <2>3, <2>5, WorkersKeep DEF IInv
  <2>7. NothingPassedOver' /\ \A e \in delivery : log'[e] = "matching" /\ SettledBelow(e)'
    BY <2>3, GrowthKeeps
  <2>8. JournalInv'
    <3>1. log'[d] = "matching" /\ \A i \in DOMAIN log' : i < d => Settled(i)'
      <4>1. PICK n \in Int : n = d
        BY <2>4
      <4>2. n <= Len(log) + 1 /\ SettledBelow(n)
        <5> HIDE DEF d
        <5> QED BY <2>0, <2>1, <4>1 DEF ServerTypeOK
      <4>3. SettledBelow(n)'
        BY <2>0, <2>3, <4>2, SettledStays
      <4> HIDE DEF d
      <4> QED BY <2>1, <2>2, <4>1, <4>3 DEF SettledBelow
    <3>2. delivery' = delivery \cup {d}
      BY <1>2
    <3> HIDE DEF d
    <3>3. ASSUME NEW e \in delivery'
          PROVE  log'[e] = "matching" /\ \A i \in DOMAIN log' : i < e => Settled(i)'
      <4>1. CASE e \in delivery
        BY <2>7, <4>1 DEF SettledBelow, Settled, Handled
      <4>2. CASE e = d
        BY <3>1, <4>2
      <4> QED BY <3>2, <4>1, <4>2
    <3> QED BY <3>3 DEF JournalInv, SettledBelow
  <2>9. TypeOK'
    <3>1. delivery' = delivery \cup {d}
      BY <1>2
    <3> HIDE DEF d
    <3> QED BY <1>2, <2>0, <2>1, <2>2, <2>3, <2>6, <3>1 DEF TypeOK, Handled
  <2>10. HandInv' /\ LateInv' /\ MarksAreTrue' /\ ReportsStand'
    <3>1. delivery \subseteq delivery' /\ UNCHANGED <<queued, receipt, acked>>
      BY <1>2
    <3> QED BY <2>2, <3>1 DEF IInv, HandInv, LateInv, MarksAreTrue, ReportsStand, Handled
  <2> QED BY <2>6, <2>7, <2>8, <2>9, <2>10 DEF IInv
<1> QED BY <1>1, <1>2 DEF Pull

(* A command of `bridge handled`: a receipt once written stays, and it is   *)
(* read again before the command reports.                                   *)
LEMMA HandlerKeeps ==
    ASSUME IInv, NEW h \in Handlers, HandlerMoves(h)
    PROVE  IInv'
<1>0. /\ TypeOK /\ ServerTypeOK /\ h # Nobody
      /\ hand \in [Handlers -> 0..MaxSeq] /\ receipt \in [Seqs -> Handlers \cup {Nobody}]
      /\ delivery \subseteq Seqs /\ HandInv
      /\ Seqs \subseteq 0..MaxSeq /\ 0 \in 0..MaxSeq /\ 0 \notin Seqs
  BY BridgeAssumption, SubscriptionAssumption DEF IInv, TypeOK, ServerTypeOK, Seqs
<1>1. /\ UNCHANGED <<serverVars, delivery, queued, acked, stopped, lock, live, inbox, at, item, late>>
      /\ UNCHANGED <<log, cursor, passed, moved>>
  BY DEF HandlerMoves, HandleBegins, HandleLooks, HandleRefused, HandleLinks,
         JournalUnchanged, journalVars, serverVars
<1>2. /\ receipt' \in [Seqs -> Handlers \cup {Nobody}]
      /\ \A i \in Seqs : Handled(i) => receipt'[i] = receipt[i]
      /\ \A i \in Seqs : receipt'[i] # Nobody => i \in delivery
  <2>0. \A i \in Seqs : Handled(i) => i \in delivery
    BY <1>0 DEF TypeOK
  <2>1. CASE HandleLinks(h)
    <3>1. hand[h] \in delivery
      BY <1>0, <2>1 DEF HandInv, HandleLinks
    <3> QED BY <1>0, <2>0, <2>1, <3>1 DEF HandleLinks, Handled
  <2>2. CASE receipt' = receipt
    BY <1>0, <2>0, <2>2 DEF Handled
  <2> QED BY <2>1, <2>2 DEF HandlerMoves, HandleBegins, HandleLooks, HandleRefused,
                            JournalUnchanged, journalVars
<1>3. ServerTypeOK' /\ ServerGrows /\ CursorStep /\ JournalGrows
  BY <1>0, <1>1, <1>2 DEF serverVars, ServerTypeOK, ServerGrows, CursorStep, JournalGrows
<1>4. NothingPassedOver' /\ JournalInv'
  BY <1>1, <1>3, GrowthKeeps DEF JournalInv
<1>5. WorkerInv'
  BY <1>1, <1>3, WorkersKeep DEF WorkersStep, IInv
<1>6. LateInv' /\ MarksAreTrue'
  <2>1. \A i \in Seqs : Handled(i) => Handled(i)'
    BY <1>2 DEF Handled
  <2>2. acked \subseteq Seqs
    BY <1>0 DEF TypeOK
  <2> QED BY <1>0, <1>1, <2>1, <2>2 DEF IInv, LateInv, MarksAreTrue
<1>7. hand' \in [Handlers -> 0..MaxSeq] /\ linking' \subseteq Handlers /\ HandInv'
  <2>0. linking \subseteq Handlers
    BY <1>0 DEF TypeOK
  <2>1. ASSUME NEW i \in Seqs, HandleBegins(h, i)
        PROVE  hand' \in [Handlers -> 0..MaxSeq] /\ linking' \subseteq Handlers /\ HandInv'
    BY <1>0, <1>1, <2>0, <2>1 DEF HandleBegins, HandInv
  <2>2. CASE HandleLooks(h)
    BY <1>0, <1>1, <2>0, <2>2 DEF HandleLooks, HandInv
  <2>3. CASE HandleRefused(h) \/ HandleLinks(h)
    BY <1>0, <1>1, <2>0, <2>3 DEF HandleRefused, HandleLinks, HandInv
  <2> QED BY <2>1, <2>2, <2>3 DEF HandlerMoves
<1>8. told' \subseteq Seqs \X Handlers /\ ReportsStand'
  <2>1. told' = told \/ (hand[h] \in delivery /\ Report(h, hand[h], receipt'))
    <3>1. CASE HandleLooks(h)
      BY <1>0, <3>1 DEF HandleLooks, HandInv, JournalUnchanged, journalVars
    <3>2. CASE HandleLinks(h)
      BY <1>0, <3>2 DEF HandleLinks, HandInv
    <3> QED BY <3>1, <3>2 DEF HandlerMoves, HandleBegins, HandleRefused
  <2>2. told \subseteq Seqs \X Handlers
    BY <1>0 DEF TypeOK
  <2>3. told' \subseteq told \cup {<<hand[h], h>>} /\ (<<hand[h], h>> \in told' \ told => hand[h] \in Seqs /\ receipt'[hand[h]] = h)
    BY <1>0, <2>1 DEF Report
  <2>4. ASSUME NEW i \in Seqs, NEW g \in Handlers, <<i, g>> \in told'
        PROVE  receipt'[i] = g
    <3>1. CASE <<i, g>> \in told
      <4>1. receipt[i] = g /\ g # Nobody
        BY <3>1, BridgeAssumption DEF IInv, ReportsStand
      <4> QED BY <1>2, <4>1 DEF Handled
    <3>2. CASE <<i, g>> \notin told
      BY <2>3, <2>4, <3>2
    <3> QED BY <3>1, <3>2
  <2>5. told' \subseteq Seqs \X Handlers
    BY <2>2, <2>3
  <2> QED BY <2>4, <2>5 DEF ReportsStand
<1>9. TypeOK'
  BY <1>0, <1>1, <1>2, <1>3, <1>7, <1>8 DEF TypeOK, Handled
<1> QED BY <1>4, <1>5, <1>6, <1>7, <1>8, <1>9 DEF IInv

-----------------------------------------------------------------------------
(* The invariant, and what it says.                                         *)

(* A new subscription and an empty journal satisfy the invariant.           *)
LEMMA InitIInv ==
    ASSUME Init
    PROVE  IInv
<1>1. ServerTypeOK /\ \A i \in DOMAIN log : log[i] = "own"
  <2>1. /\ log = <<"own", "own">> /\ cursor = 2 /\ floor = 0 /\ active = TRUE
        /\ policy \in Policies /\ passed = {} /\ moved = FALSE
    BY DEF Init, ServerInit, StartsWith
  <2>2. "own" \in Kinds
    BY DEF Kinds
  <2>3. /\ log \in Seq(Kinds) /\ Len(log) = 2 /\ DOMAIN log = 1..2
        /\ \A i \in DOMAIN log : log[i] = "own"
    BY <2>1, <2>2
  <2>4. cursor \in 1..Len(log) + 1 /\ floor \in 0..Len(log) + 1 /\ Len(log) <= MaxSeq
    BY <2>1, <2>3, SubscriptionAssumption
  <2>5. active \in BOOLEAN /\ moved \in BOOLEAN /\ passed \subseteq DOMAIN log
    BY <2>1
  <2> QED BY <2>1, <2>3, <2>4, <2>5 DEF ServerTypeOK
<1>2. TypeOK
  <2>1. /\ delivery = {} /\ queued = {} /\ acked = {} /\ late = {} /\ inbox = {} /\ told = {}
        /\ linking = {} /\ stopped = FALSE /\ lock = Nobody /\ live = TRUE
        /\ receipt \in [Seqs -> Handlers \cup {Nobody}]
        /\ \A i \in Seqs : ~Handled(i)
    BY DEF Init, Handled
  <2>2. /\ at \in [Workers -> Places] /\ item \in [Workers -> 0..MaxSeq]
        /\ hand \in [Handlers -> 0..MaxSeq]
    BY SubscriptionAssumption DEF Init, Places
  <2> QED BY <1>1, <2>1, <2>2 DEF TypeOK
<1>3. NothingPassedOver /\ JournalInv
  BY <1>1 DEF Init, NothingPassedOver, JournalInv, SettledBelow, Settled
<1>4. WorkerInv /\ HandInv /\ LateInv
  BY DEF Init, WorkerInv, HandInv, LateInv, Holding
<1>5. MarksAreTrue /\ ReportsStand
  BY DEF Init, MarksAreTrue, ReportsStand
<1> QED BY <1>2, <1>3, <1>4, <1>5 DEF IInv

(* Every step of anybody preserves it.                                      *)
LEMMA NextIInv ==
    ASSUME IInv, [Next]_vars
    PROVE  IInv'
<1>1. ASSUME NEW w \in Workers, WorkerMoves(w)
      PROVE  IInv'
  <2>1. CASE Pull(w)
    BY <2>1, PullKeeps
  <2>2. CASE ~Pull(w)
    <3>1. Moves
      BY <1>1, <2>2, LocalMoves, PullResetsMoves, AcknowledgeMoves, QueueMoves
      DEF WorkerMoves, Runs, Answered
    <3> QED BY <3>1, MovesKeep
  <2> QED BY <2>1, <2>2
<1>2. ASSUME NEW h \in Handlers, HandlerMoves(h)
      PROVE  IInv'
  BY <1>2, HandlerKeeps
<1>3. ASSUME NEW n \in 1..MaxSeq + 1, LateAck(n)
      PROVE  IInv'
  BY <1>3, LateAckMoves, MovesKeep
<1>4. CASE ServerMoves \/ RemoveLock \/ Stop \/ SessionDies
  BY <1>4, OtherMoves, MovesKeep
<1>5. CASE UNCHANGED vars
  <2>1. Moves
    BY <1>5, QuietMoves DEF vars, journalVars, sessionVars, WorkersStep, IInv, TypeOK
  <2> QED BY <2>1, MovesKeep
<1> QED BY <1>1, <1>2, <1>3, <1>4, <1>5 DEF Next

(* The bridge invariant holds of every execution.                           *)
THEOREM BridgeInvariant == Spec => []IInv
<1>1. Init => IInv
  BY InitIInv
<1>2. IInv /\ [Next]_vars => IInv'
  BY NextIInv
<1> QED BY <1>1, <1>2, PTL DEF Spec

(* Types: in particular a row is announced, acknowledged or handled only    *)
(* after it was written to the journal, and the journal holds rows of the   *)
(* log.                                                                     *)
THEOREM BridgeTypeCorrect == Spec => []TypeOK
<1>1. IInv => TypeOK
  BY DEF IInv
<1> QED BY <1>1, BridgeInvariant, PTL

(* The committed cursor passes only what the session has handled, or what   *)
(* somebody else moved it over.                                             *)
THEOREM BridgePassesNothingOver == Spec => []NothingPassedOver
<1>1. IInv => NothingPassedOver
  BY DEF IInv
<1> QED BY <1>1, BridgeInvariant, PTL

(* The journal's marks are true of the session's queue and of the server.   *)
THEOREM BridgeMarksAreTrue == Spec => []MarksAreTrue
<1>1. IInv => MarksAreTrue
  BY DEF IInv
<1> QED BY <1>1, BridgeInvariant, PTL

(* A disposition reported as recorded is never replaced.                    *)
THEOREM BridgeReportsStand == Spec => []ReportsStand
<1>1. IInv => ReportsStand
  BY DEF IInv
<1> QED BY <1>1, BridgeInvariant, PTL

-----------------------------------------------------------------------------
(* One delivery at a time.  That is the lock's doing, not the journal's:    *)
(* only the worker that holds it runs, and it pulls only when nothing is    *)
(* pending.                                                                 *)

AtMostOne == \A i, j \in Pending : i = j

InHand(p, i) ==
    /\ p = "pulling" => Pending = {}
    /\ p \in Holding => Pending = {i}

LockInv == \A w \in Workers : at[w] \notin Gone => lock = w /\ InHand(at[w], item[w])

OneInv == AtMostOne /\ LockInv

(* A step of the worker that holds the lock.                                *)
RunsAlone(w) == \E p \in Places, i \in Int :
    /\ Goto(w, p, i)
    /\ lock' = lock \/ p \in Gone
    /\ p = "pulling" => Pending' = {}
    /\ p \in Holding => Pending' = {i}
    /\ \A j, k \in Pending' : j = k

(* Such a step keeps the others where they were: gone.                      *)
LEMMA AloneKeeps ==
    ASSUME TypeOK, OneInv, NEW w \in Workers, at[w] \notin Gone, RunsAlone(w)
    PROVE  OneInv'
<1>1. PICK p \in Places, i \in Int :
          /\ at' = [at EXCEPT ![w] = p] /\ item' = [item EXCEPT ![w] = i]
          /\ lock' = lock \/ p \in Gone
          /\ p = "pulling" => Pending' = {}
          /\ p \in Holding => Pending' = {i}
          /\ \A j, k \in Pending' : j = k
  BY DEF RunsAlone, Goto
<1>2. lock = w
  BY DEF OneInv, LockInv
<1>3. ASSUME NEW v \in Workers, at'[v] \notin Gone
      PROVE  lock' = v /\ InHand(at[v], item[v])'
  <2>1. CASE v = w
    <3>1. at'[w] = p /\ item'[w] = i
      BY <1>1 DEF TypeOK
    <3> QED BY <1>1, <1>2, <1>3, <2>1, <3>1 DEF InHand
  <2>2. CASE v # w
    <3>1. at'[v] = at[v]
      BY <1>1, <2>2 DEF TypeOK
    <3> QED BY <1>2, <1>3, <2>2, <3>1 DEF OneInv, LockInv
  <2> QED BY <2>1, <2>2
<1> QED BY <1>1, <1>3 DEF OneInv, AtMostOne, LockInv

(* Two deliveries that are the same are one, and Cardinality says so.       *)
LEMMA AtMostOneCardinality ==
    ASSUME TypeOK
    PROVE  /\ AtMostOne <=> Cardinality(Pending) <= 1
           /\ Cardinality(Pending) \in Nat
<1>1. IsFiniteSet(Pending)
  <2>1. MaxSeq \in Int /\ Pending \subseteq 1..MaxSeq
    BY SubscriptionAssumption DEF TypeOK, ServerTypeOK, Pending
  <2>2. IsFiniteSet(1..MaxSeq)
    BY <2>1, FS_Interval
  <2> QED BY <2>1, <2>2, FS_Subset
<1>2. CASE Pending = {}
  BY <1>1, <1>2, FS_EmptySet, FS_CardinalityType DEF AtMostOne
<1>3. CASE Pending # {}
  <2>1. PICK i : i \in Pending
    BY <1>3
  <2>2. /\ IsFiniteSet(Pending \ {i}) /\ Cardinality(Pending \ {i}) = Cardinality(Pending) - 1
        /\ Cardinality(Pending) \in Nat
    BY <1>1, <2>1, FS_RemoveElement, FS_CardinalityType
  <2>3. Cardinality(Pending) <= 1 <=> Cardinality(Pending \ {i}) = 0
    BY <2>2, FS_CardinalityType
  <2>4. Cardinality(Pending \ {i}) = 0 <=> Pending \ {i} = {}
    BY <2>2, FS_EmptySet
  <2> QED BY <2>1, <2>2, <2>3, <2>4 DEF AtMostOne
<1> QED BY <1>2, <1>3

(* All steps of a running worker are of this kind (step, runSessionBridge). *)
LEMMA RunsAloneAll ==
    ASSUME TypeOK, WorkerInv, OneInv, NEW w \in Workers, at[w] \notin Gone, Runs(w) \/ Kill(w)
    PROVE  OneInv'
<1>0. /\ lock = w /\ InHand(at[w], item[w]) /\ AtMostOne
      /\ item[w] \in Int /\ 0 \in Int
      /\ {"down", "failed", "entering", "pulling", "asleep"} \subseteq Places \ Holding
      /\ {"down", "failed"} \subseteq Gone /\ Holding \subseteq Places /\ "pulling" \notin Holding
  BY DEF OneInv, LockInv, TypeOK, Holding, Places, Gone
<1> USE DEF RunsAlone
<1>1. ASSUME UNCHANGED <<delivery, acked>>
      PROVE  Pending' = Pending /\ \A j, k \in Pending' : j = k
  BY <1>0, <1>1 DEF Pending, AtMostOne
<1>2. CASE GiveUp(w) \/ EndStopped(w) \/ (UNCHANGED <<delivery, acked>> /\ Goto(w, "down", 0))
  BY <1>0, <1>1, <1>2, AloneKeeps DEF GiveUp, EndStopped
<1>3. ASSUME NEW p \in Places \ Holding, p # "pulling", Goto(w, p, 0), UNCHANGED <<delivery, acked, lock>>
      PROVE  OneInv'
  BY <1>0, <1>1, <1>3, AloneKeeps
<1>4. ASSUME NEW p \in Holding, at[w] \in Holding, Goto(w, p, item[w]), JournalUnchanged
      PROVE  OneInv'
  BY <1>0, <1>1, <1>4, AloneKeeps DEF JournalUnchanged, journalVars, InHand
<1>5. CASE StartFails(w) \/ Loop(w) \/ LookFails(w)
  BY <1>0, <1>2, <1>3, <1>5 DEF StartFails, Loop, LookFails, IfActive, JournalUnchanged, journalVars
<1>6. CASE Enter(w)
  <2>1. CASE Pending = {} /\ Goto(w, "pulling", 0) /\ JournalUnchanged
    BY <1>0, <1>1, <2>1, AloneKeeps DEF JournalUnchanged, journalVars
  <2>2. CASE JournalUnchanged /\ \E i \in Pending : Goto(w, "holding", i)
    <3>1. PICK i \in Pending : Goto(w, "holding", i)
      BY <2>2
    <3>2. Pending = {i} /\ i \in Int /\ "holding" \in Holding
      BY <1>0, <3>1 DEF AtMostOne, Pending, TypeOK, ServerTypeOK, Holding
    <3> QED BY <1>0, <1>1, <2>2, <3>1, <3>2, AloneKeeps DEF JournalUnchanged, journalVars
  <2> QED BY <1>2, <1>6, <2>1, <2>2 DEF Enter
<1>7. CASE PullResets(w)
  BY <1>7 DEF PullResets, JournalUnchanged, journalVars, OneInv, LockInv, AtMostOne, InHand, Pending
<1>8. CASE Pull(w)
  <2>1. CASE Sleep(w) /\ JournalUnchanged
    BY <1>0, <1>3, <2>1 DEF Sleep, JournalUnchanged, journalVars
  <2>2. CASE /\ Due # {} /\ First(Due) \notin acked
             /\ delivery' = delivery \cup {First(Due)} /\ Goto(w, "holding", First(Due))
             /\ UNCHANGED <<acked, lock>>
    <3>1. Pending = {}
      BY <1>0, <1>8 DEF Pull, InHand
    <3>2. First(Due) \in Int
      <4>1. Due \in SUBSET Nat
        BY DueIs DEF TypeOK
      <4>2. First(Due) \in Due
        BY <2>2, <4>1, FirstExists
      <4>3. \A k \in Due : k \in Int
        BY <4>1
      <4> QED BY <4>2, <4>3
    <3>3. Pending' = {First(Due)} /\ "holding" \in Holding
      BY <2>2, <3>1 DEF Pending, Holding
    <3> QED BY <1>0, <2>2, <3>2, <3>3, AloneKeeps
  <2> QED BY <1>2, <1>8, <2>1, <2>2 DEF Pull
<1>9. CASE Take(w) \/ Confirm(w) \/ Announce(w)
  <2>1. /\ at[w] \in Holding /\ {"confirming", "comparing", "acking", "enqueueing"} \subseteq Holding
    BY <1>9 DEF Take, Confirm, Announce, Holding
  <2> QED BY <1>2, <1>4, <1>9, <2>1 DEF Take, Confirm, Announce, IfActive
<1>10. CASE Compare(w)
  <2>1. at[w] \in Holding /\ "announcing" \in Holding
    BY <1>10 DEF Compare, Holding
  <2>2. CASE Sleep(w) /\ JournalUnchanged
    BY <1>0, <1>3, <2>2 DEF Sleep, JournalUnchanged, journalVars
  <2> QED BY <1>2, <1>4, <1>10, <2>1, <2>2 DEF Compare, IfActive
<1>11. CASE Acknowledge(w)
  <2>1. CASE Sleep(w) /\ acked' = acked \cup {item[w]} /\ UNCHANGED <<delivery, lock>>
    <3>1. \A j, k \in Pending' : j = k
      BY <1>0, <2>1 DEF Pending, AtMostOne
    <3> QED BY <1>0, <2>1, <3>1, AloneKeeps DEF Sleep
  <2> QED BY <1>2, <1>11, <2>1 DEF Acknowledge
<1>12. CASE Unanswered(w) \/ Kill(w) \/ Enqueue(w) \/ EnqueueFails(w)
  <2>1. CASE Goto(w, "asleep", 0) /\ UNCHANGED <<delivery, acked, lock>>
    BY <1>0, <1>3, <2>1
  <2> QED BY <1>2, <1>12, <2>1 DEF Unanswered, Kill, Enqueue, EnqueueFails, Sleep, JournalUnchanged, journalVars
<1> QED BY <1>5, <1>6, <1>7, <1>8, <1>9, <1>10, <1>11, <1>12 DEF Runs, Answered

(* Every step keeps one worker running and one delivery pending at most.    *)
LEMMA NextOneInv ==
    ASSUME TypeOK, WorkerInv, OneInv, [Next]_vars
    PROVE  OneInv'
<1>1. ASSUME UNCHANGED <<delivery, acked, lock, at, item>>
      PROVE  OneInv'
  BY <1>1 DEF OneInv, AtMostOne, LockInv, InHand, Pending
<1>2. ASSUME NEW w \in Workers, WorkerMoves(w)
      PROVE  OneInv'
  <2>1. CASE Start(w)
    <3>1. \A v \in Workers : at[v] \in Gone
      BY <2>1, BridgeAssumption DEF Start, OneInv, LockInv
    <3>2. /\ at' = [at EXCEPT ![w] = "starting"] /\ lock' = w
          /\ Pending' = Pending /\ "starting" \notin Holding \cup {"pulling"}
      BY <2>1 DEF Start, Goto, Pending, Holding
    <3> QED BY <3>1, <3>2 DEF OneInv, AtMostOne, LockInv, InHand, TypeOK
  <2>2. CASE Runs(w) \/ Kill(w)
    <3>1. at[w] \notin Gone
      BY <2>2 DEF Runs, Kill, Answered, StartFails, Loop, LookFails, Enter, Take, Confirm, Announce,
                  PullResets, Pull, Acknowledge, Compare, Unanswered, Enqueue, EnqueueFails, Gone
    <3> QED BY <2>2, <3>1, RunsAloneAll
  <2> QED BY <1>2, <2>1, <2>2 DEF WorkerMoves
<1>3. CASE RemoveLock
  <2>1. \A v \in Workers : at[v] \in Gone
    BY <1>3 DEF RemoveLock, OneInv, LockInv
  <2> QED BY <1>3, <2>1 DEF RemoveLock, OneInv, AtMostOne, LockInv, Pending
<1>4. CASE \/ ServerMoves \/ Stop \/ SessionDies \/ UNCHANGED vars
           \/ (\E h \in Handlers : HandlerMoves(h)) \/ (\E n \in 1..MaxSeq + 1 : LateAck(n))
  BY <1>1, <1>4 DEF ServerMoves, Stop, SessionDies, HandlerMoves, HandleBegins, HandleLooks,
      HandleRefused, HandleLinks, LateAck, OthersUnchanged, JournalUnchanged, journalVars, vars
<1> QED BY <1>2, <1>3, <1>4 DEF Next

(* pending() finds at most one delivery in every execution.                 *)
THEOREM BridgeOnePending == Spec => []OnePending
<1>1. Init => OneInv
  BY DEF Init, OneInv, AtMostOne, LockInv, Pending, Gone
<1>2. IInv /\ OneInv /\ [Next]_vars => OneInv'
  BY NextOneInv DEF IInv
<1>3. IInv /\ OneInv => OnePending
  BY AtMostOneCardinality DEF IInv, OneInv, OnePending
<1> QED BY <1>1, <1>2, <1>3, BridgeInvariant, PTL DEF Spec
-----------------------------------------------------------------------------
(* When a worker gives up.  As long as nobody else moves the cursor, what   *)
(* is acknowledged lies below it and the one pending delivery is the next   *)
(* row a read can return: the cursor is at most just past it, and that only *)
(* if it is handled, and not so far before it that a read would end its     *)
(* scan on the way.  A worker compares a delivery that was not handled     *)
(* when it looked, so no acknowledgement of it is on its way.               *)

OursInv == ~moved =>
    /\ passed = {}
    /\ \A d \in Pending : cursor <= d + 1 /\ d < cursor + ScanCap
    /\ \A w \in Workers : at[w] = "comparing" => cursor <= item[w] /\ item[w] + 1 \notin late

(* While nobody else moves the cursor, only an acknowledgement does, and    *)
(* that of an acknowledged delivery leaves it where it is.                  *)
LEMMA OursCursor ==
    ASSUME IInv, CursorStep, ~moved', ~moved
    PROVE  cursor' = cursor \/ \E d \in Pending : Handled(d) /\ cursor' = d + 1
<1>1. CASE cursor' = cursor
  BY <1>1
<1>2. CASE \E d \in delivery : Handled(d) /\ cursor' = d + 1 /\ cursor <= d + 1
  <2>1. PICK d \in delivery : Handled(d) /\ cursor' = d + 1 /\ cursor <= d + 1
    BY <1>2
  <2>2. d \in Int /\ cursor \in Int
    BY DEF IInv, TypeOK, ServerTypeOK
  <2>3. d \in acked => d < cursor
    BY DEF IInv, MarksAreTrue
  <2> QED BY <2>1, <2>2, <2>3 DEF Pending
<1> QED BY <1>1, <1>2 DEF CursorStep

(* What is passed by others is passed by moving the cursor.                 *)
LEMMA PassedByOthers ==
    ASSUME TypeOK, [Next]_vars, ~moved'
    PROVE  ~moved /\ passed' = passed
<1>1. CASE ServerMoves
  BY <1>1 DEF ServerMoves, Server, Publish, Compact, OtherAck, Seek, Retire, MovedAway
<1>2. ASSUME NEW w \in Workers, WorkerMoves(w)
      PROVE  ~moved /\ passed' = passed
  BY <1>2 DEF WorkerMoves, Start, Runs, StartFails, Loop, LookFails, Enter, Take, Confirm, Announce,
      PullResets, Reset, MovedAway, Answered, Pull, Acknowledge, Compare, Unanswered, Enqueue, EnqueueFails,
      Kill, OthersUnchanged, serverVars
<1>3. CASE \/ \E h \in Handlers : HandlerMoves(h)
           \/ \E n \in 1..MaxSeq + 1 : LateAck(n)
           \/ RemoveLock \/ Stop \/ SessionDies \/ UNCHANGED vars
  BY <1>3 DEF HandlerMoves, HandleBegins, HandleLooks, HandleRefused, HandleLinks, LateAck, RemoveLock,
      Stop, SessionDies, OthersUnchanged, serverVars, vars
<1> QED BY <1>1, <1>2, <1>3 DEF Next

(* The journal's pending deliveries: a pull adds the row it returns, and    *)
(* no other step adds any.                                                  *)
LEMMA PendingStep ==
    ASSUME [Next]_vars
    PROVE  \/ Pending' \subseteq Pending
           \/ \E w \in Workers : /\ Pull(w) /\ ~PageRefused /\ Due # {}
                                 /\ Pending' \subseteq Pending \cup {First(Due)}
<1>1. ASSUME NEW w \in Workers, Pull(w)
      PROVE  \/ Pending' \subseteq Pending
             \/ /\ ~PageRefused /\ Due # {}
                /\ Pending' \subseteq Pending \cup {First(Due)}
  BY <1>1 DEF Pull, Pending, GiveUp, JournalUnchanged, journalVars
<1>2. ASSUME NEW w \in Workers, WorkerMoves(w), ~Pull(w)
      PROVE  Pending' \subseteq Pending
  BY <1>2 DEF WorkerMoves, Start, Runs, StartFails, Loop, LookFails, Enter, Take, Confirm, Announce,
      PullResets, Answered, Acknowledge, Compare, Unanswered, Enqueue, EnqueueFails,
      Kill, GiveUp, EndStopped, IfActive, JournalUnchanged, journalVars, Pending
<1>3. CASE \/ ServerMoves
           \/ \E h \in Handlers : HandlerMoves(h)
           \/ \E n \in 1..MaxSeq + 1 : LateAck(n)
           \/ RemoveLock \/ Stop \/ SessionDies \/ UNCHANGED vars
  BY <1>3 DEF ServerMoves, HandlerMoves, HandleBegins, HandleLooks, HandleRefused, HandleLinks, LateAck,
      RemoveLock, Stop, SessionDies, JournalUnchanged, journalVars, vars, Pending
<1> QED BY <1>1, <1>2, <1>3 DEF Next

(* How every step but a pull moves the cursor: see Moves, HandlerKeeps.     *)
LEMMA NextCursorStep ==
    ASSUME IInv, [Next]_vars
    PROVE  CursorStep
<1>1. ASSUME NEW w \in Workers, WorkerMoves(w)
      PROVE  CursorStep
  <2>1. CASE Pull(w)
    BY <2>1 DEF Pull, OthersUnchanged, serverVars, CursorStep
  <2>2. CASE ~Pull(w)
    <3>1. Moves
      BY <1>1, <2>2, LocalMoves, PullResetsMoves, AcknowledgeMoves, QueueMoves
      DEF WorkerMoves, Runs, Answered
    <3> QED BY <3>1 DEF Moves
  <2> QED BY <2>1, <2>2
<1>2. ASSUME NEW h \in Handlers, HandlerMoves(h)
      PROVE  CursorStep
  BY <1>2 DEF HandlerMoves, HandleBegins, HandleLooks, HandleRefused, HandleLinks, serverVars, CursorStep
<1>3. ASSUME NEW n \in 1..MaxSeq + 1, LateAck(n)
      PROVE  CursorStep
  BY <1>3, LateAckMoves DEF Moves
<1>4. CASE ServerMoves \/ RemoveLock \/ Stop \/ SessionDies
  BY <1>4, OtherMoves DEF Moves
<1>5. CASE UNCHANGED vars
  BY <1>5 DEF vars, serverVars, CursorStep
<1> QED BY <1>1, <1>2, <1>3, <1>4, <1>5 DEF Next

(* A worker that holds a delivery whose receipt it did not find has the     *)
(* cursor at or before it, and no acknowledgement of it on its way.         *)
LEMMA TakeToCompare ==
    ASSUME IInv, OneInv, OursInv, ~moved, NEW w \in Workers, Take(w), at'[w] = "comparing"
    PROVE  cursor <= item[w] /\ item[w] + 1 \notin late
<1>0. item[w] \in Pending /\ ~Handled(item[w])
  <2>1. at[w] \in Holding /\ at[w] \notin Gone
    BY DEF Take, Holding, Gone
  <2>2. ~Handled(item[w])
    BY DEF Take, IfActive, EndStopped, Goto, IInv, TypeOK
  <2> QED BY <2>1, <2>2 DEF OneInv, LockInv, InHand
<1>1. cursor <= item[w] + 1 /\ passed = {} /\ item[w] \in Int /\ cursor \in Int
  BY <1>0 DEF OursInv, IInv, TypeOK, ServerTypeOK, Pending
<1>2. item[w] \in DOMAIN log /\ log[item[w]] = "matching"
  BY <1>0 DEF IInv, JournalInv, Pending, TypeOK
<1>3. ~(item[w] < cursor)
  BY <1>0, <1>1, <1>2 DEF IInv, NothingPassedOver, SettledBelow, Settled
<1>4. item[w] + 1 \notin late
  <2>1. ASSUME NEW d \in delivery, item[w] + 1 = d + 1, Handled(d)
        PROVE  FALSE
    <3>1. d \in Int
      BY DEF IInv, TypeOK, ServerTypeOK
    <3> QED BY <1>0, <1>1, <2>1, <3>1
  <2> QED BY <2>1 DEF IInv, LateInv
<1> QED BY <1>1, <1>3, <1>4

(* Every step preserves it.                                                 *)
LEMMA NextOursInv ==
    ASSUME IInv, OneInv, OursInv, [Next]_vars
    PROVE  OursInv'
<1> SUFFICES ASSUME ~moved'
             PROVE  /\ passed' = {}
                    /\ \A d \in Pending' : cursor' <= d + 1 /\ d < cursor' + ScanCap
                    /\ \A w \in Workers : at'[w] = "comparing" =>
                           cursor' <= item'[w] /\ item'[w] + 1 \notin late'
  BY DEF OursInv
<1>0. /\ ~moved /\ passed' = passed /\ passed = {} /\ TypeOK /\ CursorStep
      /\ \A d \in Pending : cursor <= d + 1 /\ d < cursor + ScanCap
      /\ cursor \in Int /\ delivery \subseteq Int /\ Pending \subseteq Int
      /\ ScanCap \in Nat \ {0}
  <2>1. TypeOK
    BY DEF IInv
  <2>2. cursor \in Int /\ delivery \subseteq Int
    BY <2>1 DEF TypeOK, ServerTypeOK
  <2>3. ~moved /\ passed' = passed /\ CursorStep
    BY <2>1, PassedByOthers, NextCursorStep
  <2>4. passed = {} /\ \A d \in Pending : cursor <= d + 1 /\ d < cursor + ScanCap
    BY <2>3 DEF OursInv
  <2>5. Pending \subseteq Int
    BY <2>2 DEF Pending
  <2> QED BY <2>1, <2>2, <2>3, <2>4, <2>5, SubscriptionAssumption
<1>1. cursor' = cursor \/ \E d \in Pending : Handled(d) /\ cursor' = d + 1
  BY <1>0, OursCursor
<1>2. \A d \in Pending' : cursor' <= d + 1 /\ d < cursor' + ScanCap
  <2>1. CASE Pending' \subseteq Pending
    BY <1>0, <1>1, <2>1 DEF OneInv, AtMostOne
  <2>2. ASSUME NEW w \in Workers, Pull(w), ~PageRefused, Due # {}, Pending' \subseteq Pending \cup {First(Due)}
        PROVE  \A d \in Pending' : cursor' <= d + 1 /\ d < cursor' + ScanCap
    <3>1. First(Due) \in Due /\ First(Due) \in Int
      <4>1. Due \in SUBSET Nat
        BY <1>0, DueIs DEF TypeOK
      <4>2. First(Due) \in Due
        BY <2>2, <4>1, FirstExists
      <4>3. \A k \in Due : k \in Int
        BY <4>1
      <4> QED BY <4>2, <4>3
    <3>2. cursor <= First(Due) /\ First(Due) < cursor + ScanCap
      <4>1. floor <= cursor
        BY <1>0, <2>2 DEF PageRefused, FloorPassed, TypeOK, ServerTypeOK
      <4> QED BY <1>0, <3>1, <4>1, DueIs DEF TypeOK
    <3>3. cursor' = cursor
      BY <2>2 DEF Pull, OthersUnchanged, serverVars
    <3> QED BY <1>0, <2>2, <3>1, <3>2, <3>3
  <2> QED BY <2>1, <2>2, PendingStep
<1>3. ASSUME NEW v \in Workers, at'[v] = "comparing"
      PROVE  cursor' <= item'[v] /\ item'[v] + 1 \notin late'
  <2>1. ASSUME at[v] = "comparing", item'[v] = item[v], cursor' = cursor, late' \subseteq late
        PROVE  cursor' <= item'[v] /\ item'[v] + 1 \notin late'
    BY <1>0, <2>1 DEF OursInv
  <2>2. at \in [Workers -> Places] /\ item \in [Workers -> 0..MaxSeq]
    BY <1>0 DEF TypeOK
  <2>3. ASSUME NEW w \in Workers, WorkerMoves(w)
        PROVE  cursor' <= item'[v] /\ item'[v] + 1 \notin late'
    <3>1. CASE v = w
      <4>1. CASE Take(v)
        <5>1. cursor <= item[v] /\ item[v] + 1 \notin late
          BY <1>0, <1>3, <4>1, TakeToCompare
        <5>2. UNCHANGED <<cursor, late>> /\ item'[v] = item[v]
          BY <1>3, <2>2, <4>1 DEF Take, IfActive, EndStopped, Goto, OthersUnchanged, serverVars
        <5> QED BY <5>1, <5>2
      <4>2. CASE ~Take(v)
        <5>1. ~PullResets(v)
          BY <1>0 DEF PullResets, Reset, MovedAway
        <5> QED BY <1>3, <2>2, <2>3, <3>1, <4>2, <5>1
            DEF WorkerMoves, Start, Runs, StartFails, Loop, LookFails, Enter, Confirm, Announce,
                Answered, Pull, Acknowledge, Compare, Unanswered, Enqueue, EnqueueFails, Kill,
                GiveUp, EndStopped, Sleep, IfActive, Goto
      <4> QED BY <4>1, <4>2
    <3>2. CASE v # w
      <4>1. at'[v] = at[v]
        BY <2>2, <2>3, <3>2
        DEF WorkerMoves, Start, Runs, StartFails, Loop, LookFails, Enter, Take, Confirm, Announce,
            PullResets, Answered, Pull, Acknowledge, Compare, Unanswered, Enqueue, EnqueueFails, Kill,
            GiveUp, EndStopped, Sleep, IfActive, Goto
      <4>2. at[v] \notin Gone
        BY <1>3, <4>1 DEF Gone
      <4>3. lock = v /\ at[w] \in Gone
        BY <3>2, <4>2 DEF OneInv, LockInv
      <4> QED BY <2>3, <4>3, BridgeAssumption
          DEF WorkerMoves, Start, Runs, StartFails, Loop, LookFails, Enter, Take, Confirm, Announce,
              PullResets, Answered, Pull, Acknowledge, Compare, Unanswered, Enqueue, EnqueueFails, Kill, Gone
    <3> QED BY <3>1, <3>2
  <2>4. ASSUME NEW n \in 1..MaxSeq + 1, LateAck(n)
        PROVE  cursor' <= item'[v] /\ item'[v] + 1 \notin late'
    <3>1. /\ UNCHANGED <<at, item>> /\ late' \subseteq late /\ n \in late
          /\ cursor' = cursor \/ cursor' = n \/ cursor' = OwnHead + 1
      BY <2>4 DEF LateAck, AckTo
    <3>2. at[v] = "comparing" /\ item[v] + 1 \notin late /\ cursor <= item[v]
      BY <1>0, <1>3, <3>1 DEF OursInv
    <3>3. Pending = {item[v]}
      BY <3>2 DEF OneInv, LockInv, InHand, Gone, Holding
    <3>4. cursor' = cursor
      <4>1. PICK d \in delivery : n = d + 1 /\ Handled(d)
        BY <3>1 DEF IInv, LateInv
      <4>2. d \in acked
        BY <3>1, <3>2, <3>3, <4>1 DEF Pending
      <4>3. d < cursor
        BY <1>0, <4>2 DEF IInv, MarksAreTrue
      <4>4. ~(\E e \in Pending : Handled(e) /\ cursor' = e + 1) \/ cursor' = item[v] + 1
        BY <3>3
      <4>5. CASE cursor' = item[v] + 1 /\ cursor' # cursor
        <5>1. AckTaken(n) /\ AckTo(n)
          BY <2>4, <4>5 DEF LateAck
        <5>2. cursor' <= n /\ n = cursor
          <6>1. OwnHead \in Int
            BY <1>0, OwnHeadIs DEF TypeOK, ServerTypeOK
          <6> QED BY <1>0, <4>1, <4>3, <5>1, <6>1 DEF AckTaken, AckTo
        <5>3. item[v] \in Int
          BY <2>2
        <5> QED BY <1>0, <3>2, <4>5, <5>2, <5>3
      <4> QED BY <1>1, <4>4, <4>5
    <3> QED BY <2>1, <3>1, <3>2, <3>4
  <2>5. CASE \/ \E h \in Handlers : HandlerMoves(h)
             \/ RemoveLock \/ Stop \/ SessionDies \/ UNCHANGED vars
    <3>1. UNCHANGED <<at, item, cursor, late>>
      BY <2>5 DEF HandlerMoves, HandleBegins, HandleLooks, HandleRefused, HandleLinks, RemoveLock,
          Stop, SessionDies, OthersUnchanged, serverVars, vars
    <3> QED BY <1>3, <2>1, <3>1
  <2>6. CASE ServerMoves
    <3>1. UNCHANGED <<at, item, late, cursor>>
      BY <1>0, <2>6 DEF ServerMoves, Server, Publish, Compact, OtherAck, Seek, Retire, MovedAway
    <3> QED BY <1>3, <2>1, <3>1
  <2> QED BY <2>3, <2>4, <2>5, <2>6 DEF Next
<1> QED BY <1>0, <1>2, <1>3

(* A pending delivery that is compared is what the read returns, unless     *)
(* there is a conflict.                                                     *)
LEMMA ComparedIsSame ==
    ASSUME IInv, OneInv, OursInv, NEW w \in Workers, Compare(w), ~Conflict
    PROVE  ~PageRefused /\ Due # {} /\ First(Due) = item[w]
<1> DEFINE p == item[w]
<1>0. /\ ~moved /\ active /\ ~FloorPassed /\ TypeOK
      /\ cursor \in Int /\ cursor >= 1 /\ floor \in Int /\ p \in Int
      /\ Len(log) \in Nat /\ DOMAIN log = 1..Len(log)
  BY DEF Conflict, IInv, TypeOK, ServerTypeOK
<1>1. Pending = {p} /\ cursor <= p /\ p < cursor + ScanCap /\ passed = {}
  BY <1>0 DEF Compare, OneInv, LockInv, InHand, Gone, Holding, OursInv
<1>2. floor <= cursor
  BY <1>0 DEF FloorPassed
<1>3. ~PageRefused
  <2>1. ~LostSince
    BY <1>0, <1>2 DEF LostSince, OwnRows
  <2> QED BY <1>0, <2>1 DEF PageRefused, Refused
<1>4. p \in DOMAIN log /\ log[p] = "matching" /\ SettledBelow(p)
  BY <1>1 DEF Pending, IInv, JournalInv, TypeOK
<1>5. p \in Due /\ Due \in SUBSET Nat
  BY <1>0, <1>1, <1>2, <1>4, DueIs DEF TypeOK
<1>6. ASSUME NEW i \in Due
      PROVE  p <= i
  <2>1. i \in DOMAIN log /\ i \in Int /\ cursor <= i /\ log[i] = "matching" /\ i \in Seqs
    BY <1>0, SubscriptionAssumption, DueIs DEF Seqs, TypeOK, ServerTypeOK
  <2>2. CASE i < p
    <3>1. Handled(i)
      BY <1>1, <1>4, <2>1, <2>2 DEF SettledBelow, Settled
    <3>2. i \in acked
      BY <1>1, <2>1, <2>2, <3>1 DEF Pending, TypeOK, IInv
    <3> QED BY <1>0, <2>1, <3>2 DEF IInv, MarksAreTrue
  <2> QED BY <1>0, <2>1, <2>2
<1>7. First(Due) \in Due /\ First(Due) <= p
  BY <1>5, FirstExists
<1>8. \A k \in Due : k \in Int
  BY <1>5
<1>9. p <= First(Due) /\ First(Due) \in Int
  BY <1>6, <1>7, <1>8
<1>10. First(Due) = p
  <2> HIDE DEF p
  <2> QED BY <1>0, <1>7, <1>9
<1> QED BY <1>3, <1>5, <1>10

(* Without a conflict no step of a worker is one that gives up.             *)
LEMMA NobodyGivesUp ==
    ASSUME IInv, OneInv, OursInv, [Next]_vars, NEW w \in Workers, GivesUp(w), ~Conflict
    PROVE  FALSE
<1>0. /\ at \in [Workers -> Places] /\ TypeOK /\ ~moved /\ active /\ ~FloorPassed
      /\ cursor \in Int /\ cursor >= 1 /\ floor \in Int
      /\ Len(log) \in Nat /\ DOMAIN log = 1..Len(log)
  BY DEF IInv, TypeOK, ServerTypeOK, Conflict
<1>1. WorkerMoves(w)
  <2>1. ASSUME NEW v \in Workers, WorkerMoves(v), v # w
        PROVE  at'[w] = at[w]
    BY <1>0, <2>1
    DEF WorkerMoves, Start, Runs, StartFails, Loop, LookFails, Enter, Take, Confirm, Announce,
        PullResets, Answered, Pull, Acknowledge, Compare, Unanswered, Enqueue, EnqueueFails, Kill,
        GiveUp, EndStopped, Sleep, IfActive, Goto
  <2>2. CASE \/ ServerMoves
             \/ \E h \in Handlers : HandlerMoves(h)
             \/ \E n \in 1..MaxSeq + 1 : LateAck(n)
             \/ RemoveLock \/ Stop \/ SessionDies \/ UNCHANGED vars
    BY <2>2 DEF ServerMoves, HandlerMoves, HandleBegins, HandleLooks, HandleRefused, HandleLinks,
        LateAck, RemoveLock, Stop, SessionDies, vars, GivesUp
  <2> QED BY <2>1, <2>2 DEF Next, GivesUp
<1>2. CASE Enter(w)
  <2>1. Cardinality(Pending) <= 1 /\ Cardinality(Pending) \in Nat
    BY <1>0, AtMostOneCardinality DEF OneInv
  <2>2. Goto(w, "pulling", 0) \/ \E i \in Pending : Goto(w, "holding", i)
    BY <1>2, <2>1 DEF Enter
  <2> QED BY <1>0, <2>2 DEF Goto, GivesUp
<1>3. ~PageRefused
  <2>1. floor <= cursor
    BY <1>0 DEF FloorPassed
  <2>2. ~LostSince
    BY <1>0, <2>1 DEF LostSince, OwnRows
  <2> QED BY <1>0, <2>2 DEF PageRefused, Refused
<1>4. CASE Pull(w)
  <2>1. Due # {} /\ First(Due) \in acked
    BY <1>0, <1>3, <1>4 DEF Pull, Sleep, Goto, GivesUp
  <2>2. Due \in SUBSET Nat
    BY <1>0, DueIs DEF TypeOK
  <2>3. First(Due) \in Due
    BY <2>1, <2>2, FirstExists
  <2>4. First(Due) >= cursor /\ First(Due) < cursor /\ First(Due) \in Nat
    BY <1>0, <2>1, <2>2, <2>3, DueIs DEF IInv, TypeOK, MarksAreTrue
  <2> QED BY <1>0, <2>4
<1>5. CASE Acknowledge(w)
  <2>1. item[w] \in Pending
    BY <1>5 DEF Acknowledge, OneInv, LockInv, InHand, Gone, Holding
  <2>2. cursor <= item[w] + 1
    BY <1>0, <2>1 DEF OursInv
  <2>3. item[w] \in Int
    BY <2>1 DEF Pending, IInv, TypeOK, ServerTypeOK
  <2>4. AckTaken(item[w] + 1)
    BY <1>0, <2>2, <2>3 DEF AckTaken
  <2> QED BY <1>0, <1>5, <2>4 DEF Acknowledge, Sleep, Goto, GivesUp
<1>6. CASE Compare(w)
  <2>1. ~PageRefused /\ Due # {} /\ First(Due) = item[w]
    BY <1>6, ComparedIsSame
  <2> QED BY <1>0, <1>6, <2>1 DEF Compare, IfActive, EndStopped, Sleep, Goto, GivesUp
<1>7. CASE \/ Start(w) \/ StartFails(w) \/ Loop(w) \/ LookFails(w) \/ Take(w) \/ Confirm(w) \/ Announce(w)
           \/ PullResets(w) \/ Unanswered(w) \/ Enqueue(w) \/ EnqueueFails(w) \/ Kill(w)
  BY <1>0, <1>7 DEF Start, StartFails, Loop, LookFails, Take, Confirm, Announce, PullResets, Unanswered,
      Enqueue, EnqueueFails, Kill, EndStopped, Sleep, IfActive, Goto, GivesUp
<1> QED BY <1>1, <1>2, <1>4, <1>5, <1>6, <1>7 DEF WorkerMoves, Runs, Answered

(* Timeouts, late answers, kills and restarts alone never make a worker     *)
(* give up, however many there are of them.                                 *)
THEOREM BridgeGivesUpOnConflict == Spec => GivesUpOnConflict
<1>1. Init => OneInv /\ OursInv
  BY SubscriptionAssumption DEF Init, ServerInit, StartsWith, OneInv, AtMostOne, LockInv, OursInv, Pending, Gone
<1>2. IInv /\ OneInv /\ [Next]_vars => OneInv'
  BY NextOneInv DEF IInv
<1>3. IInv /\ OneInv /\ OursInv /\ [Next]_vars => OursInv'
  BY NextOursInv
<1>4. IInv /\ OneInv /\ OursInv /\ [Next]_vars => [\A w \in Workers : GivesUp(w) => Conflict]_vars
  BY NobodyGivesUp
<1> QED BY <1>1, <1>2, <1>3, <1>4, BridgeInvariant, PTL DEF Spec, GivesUpOnConflict
=============================================================================
