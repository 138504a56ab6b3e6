-------------------------- MODULE StateLockProofs --------------------------
(***************************************************************************)
(* What the lock of the state file is good for, for any number of          *)
(* processes and every interleaving of their calls and kills.              *)
(*                                                                         *)
(* A process that met nobody when it started has the lock file for its own *)
(* from the moment it creates it (Owned): whoever starts later reads its   *)
(* id, finds it running and is refused, so that nobody reaches the call    *)
(* that would remove the file.                                             *)
(***************************************************************************)
EXTENDS StateLock, FiniteSetTheorems, TLAPS

Places == {"off", "open", "write", "read", "judge", "unlink",
           "serving", "checking", "releasing"}

Shape ==
    /\ pc \in [Procs -> Places]
    /\ seen \in [Procs -> SUBSET Procs]
    /\ attempt \in [Procs -> 0..3]
    /\ \A p \in Procs : Starting(p) => attempt[p] \in 1..2
    /\ met \subseteq Procs
    /\ \/ lock = NoFile
       \/ \E p \in Procs, w \in BOOLEAN : lock = [by |-> {p}, written |-> w]

(* While a process starts that met nobody, the others serve or do not run.  *)
Alone ==
    \A p \in Procs \ met : Starting(p) =>
        \A q \in Procs \ {p} : pc[q] \in {"off", "serving"}

(* It removes a stale lock once, and then finds none. *)
Attempts ==
    \A p \in Procs \ met :
        /\ pc[p] = "open" => attempt[p] = 1 \/ (attempt[p] = 2 /\ lock = NoFile)
        /\ pc[p] \in {"read", "judge", "unlink"} => attempt[p] = 1

(* What q does leaves the lock file of p alone. *)
Harmless(p, q) ==
    /\ pc[q] \notin {"write", "unlink", "releasing"}
    /\ pc[q] = "judge" => seen[q] = {p}

(* The lock file is its own, and nobody is about to remove it. *)
Owned ==
    \A p \in Procs \ met :
        /\ pc[p] = "write" => lock = [by |-> {p}, written |-> FALSE]
        /\ Writing(p) => /\ lock = [by |-> {p}, written |-> TRUE]
                         /\ \A q \in Procs \ {p} : Harmless(p, q)

IInv == Shape /\ Alone /\ Attempts /\ Owned

-----------------------------------------------------------------------------
(* A process that goes from one place to another leaves the others alone. *)
LEMMA Goes ==
    ASSUME Shape, NEW p \in Procs, NEW from, NEW to, Go(p, from, to)
    PROVE  /\ pc[p] = from /\ pc'[p] = to
           /\ \A q \in Procs \ {p} : pc'[q] = pc[q]
BY DEF Go, Shape

(* A step of p between two of its calls, or at its end, that is neither a   *)
(* begin nor a stop: whoever starts and met nobody is still alone.          *)
LEMMA AloneStays ==
    ASSUME Alone, NEW p \in Procs, \A q \in Procs \ {p} : pc'[q] = pc[q], met' = met,
           Starting(p) \/ ~Starting(p)',
           Between(p) \/ pc'[p] \in {"off", "serving"}
    PROVE  Alone'
<1> SUFFICES ASSUME NEW r \in Procs \ met, Starting(r)', NEW q \in Procs \ {r}
             PROVE  pc'[q] \in {"off", "serving"}
  BY DEF Alone
<1>1. Starting(r)
  BY DEF Starting
<1>2. pc[q] \in {"off", "serving"}
  BY <1>1 DEF Alone
<1>3. CASE q = p
  BY <1>2, <1>3 DEF Between, Starting
<1>4. CASE q # p
  BY <1>2, <1>4
<1> QED BY <1>3, <1>4

(* Begin and Stop are noticed by whoever is starting.                       *)
LEMMA MeetingNoticed ==
    ASSUME Shape, NEW p \in Procs, \A q \in Procs \ {p} : pc'[q] = pc[q],
           Begin(p) \/ Stop(p)
    PROVE  /\ Alone' /\ met' \subseteq Procs
           /\ \A r \in Procs \ met' : r # p => ~Starting(r)' /\ r \notin met
<1>1. \A r \in Procs \ met' : r # p => ~Starting(r)' /\ r \notin met
  BY DEF Begin, Stop, Meets, Starting
<1>2. met' \subseteq Procs
  BY DEF Begin, Stop, Meets, IsMet, Shape
<1>3. ASSUME NEW r \in Procs \ met', Starting(r)', NEW q \in Procs \ {r}
      PROVE  pc'[q] \in {"off", "serving"}
  <2>1. r = p
    BY <1>1, <1>3
  <2>2. Begin(p)
    BY <1>3, <2>1, Goes DEF Stop, Starting
  <2>3. ~Between(q)
    BY <1>3, <2>1, <2>2 DEF Begin, IsMet
  <2> QED BY <2>1, <2>3 DEF Between, Starting, Shape, Places
<1> QED BY <1>1, <1>2, <1>3 DEF Alone

(* Where somebody is about to write or remove the lock file, nobody else is *)
(* who met nobody, neither as a writer nor on its way.                      *)
LEMMA NobodyElse ==
    ASSUME Alone, Owned, NEW p \in Procs, pc[p] \in {"write", "unlink", "releasing"},
           NEW r \in Procs \ met, r # p
    PROVE  ~Starting(r) /\ ~Writing(r) /\ pc[r] # "write"
<1>1. ~Starting(r)
  BY DEF Alone
<1>2. ~Writing(r)
  BY DEF Owned, Harmless
<1> QED BY <1>1, <1>2 DEF Starting

-----------------------------------------------------------------------------
(* Every call on the lock file, and every kill, keeps the invariant.        *)

(* A process begins to start, or to stop. *)
LEMMA MeetingStep ==
    ASSUME IInv, NEW p \in Procs, Begin(p) \/ Stop(p)
    PROVE  IInv'
<1>1. /\ \A q \in Procs \ {p} : pc'[q] = pc[q]
      /\ UNCHANGED <<lock, seen>>
      /\ \/ pc[p] = "off" /\ pc'[p] = "open" /\ attempt' = [attempt EXCEPT ![p] = 1]
         \/ pc[p] = "serving" /\ pc'[p] = "checking" /\ attempt' = attempt /\ met \subseteq met'
  BY Goes DEF IInv, Begin, Stop
<1>2. /\ Alone' /\ met' \subseteq Procs
      /\ \A r \in Procs \ met' : r # p => ~Starting(r)' /\ r \notin met
  BY <1>1, MeetingNoticed DEF IInv
<1>3. Shape'
  BY <1>1, <1>2 DEF IInv, Shape, Places, Begin, Stop, Go, Starting
<1>4. Attempts'
  <2> SUFFICES ASSUME NEW r \in Procs \ met'
               PROVE  /\ pc'[r] = "open" => attempt'[r] = 1
                      /\ pc'[r] \notin {"read", "judge", "unlink"}
    BY DEF Attempts
  <2>1. CASE r = p
    BY <1>1, <2>1 DEF IInv, Shape
  <2>2. CASE r # p
    BY <1>2, <2>2 DEF Starting
  <2> QED BY <2>1, <2>2
<1>5. Owned'
  <2> SUFFICES ASSUME NEW r \in Procs \ met'
               PROVE  /\ pc'[r] # "write"
                      /\ Writing(r)' => /\ lock = [by |-> {r}, written |-> TRUE]
                                        /\ \A q \in Procs \ {r} : Harmless(r, q)'
    BY <1>1 DEF Owned
  <2>1. CASE r = p
    <3>1. Writing(p)' => Writing(p) /\ p \notin met
      BY <1>1, <2>1 DEF Writing
    <3> QED BY <1>1, <2>1, <3>1 DEF IInv, Owned, Harmless
  <2>2. CASE r # p
    <3>1. pc'[r] = pc[r] /\ r \notin met /\ pc'[r] # "write"
      BY <1>1, <1>2, <2>2 DEF Starting
    <3> QED BY <1>1, <2>2, <3>1 DEF IInv, Owned, Harmless, Writing
  <2> QED BY <2>1, <2>2
<1> QED BY <1>2, <1>3, <1>4, <1>5 DEF IInv

(* A process creates the lock file. *)
LEMMA CreateStep ==
    ASSUME IInv, NEW p \in Procs, Create(p)
    PROVE  IInv'
<1>1. /\ pc[p] = "open" /\ pc'[p] = "write" /\ \A q \in Procs \ {p} : pc'[q] = pc[q]
      /\ lock = NoFile /\ lock' = [by |-> {p}, written |-> FALSE]
      /\ UNCHANGED <<seen, attempt, met>>
  BY Goes DEF IInv, Create
<1>2. Alone'
  BY <1>1, AloneStays DEF IInv, Starting, Between
<1>3. Shape'
  BY <1>1 DEF IInv, Shape, Places, Create, Go, Starting
<1>4. ASSUME NEW r \in Procs \ met, r # p
      PROVE  ~Starting(r) /\ ~Writing(r) /\ pc'[r] = pc[r]
  <2>1. ~Starting(r)
    BY <1>1, <1>4 DEF IInv, Alone
  <2>2. ~Writing(r)
    BY <1>1 DEF IInv, Owned, NoFile
  <2> QED BY <1>1, <1>4, <2>1, <2>2
<1>5. Attempts'
  BY <1>1, <1>4 DEF Attempts, Starting
<1>6. Owned'
  BY <1>1, <1>4 DEF Owned, Starting, Writing
<1> QED BY <1>2, <1>3, <1>5, <1>6 DEF IInv

(* A process finds the lock file there, or reads it. *)
LEMMA LookStep ==
    ASSUME IInv, NEW p \in Procs, Exists(p) \/ ReadHolder(p)
    PROVE  IInv'
<1>1. /\ pc[p] \in {"open", "read"} /\ pc'[p] \in {"read", "judge"}
      /\ \A q \in Procs \ {p} : pc'[q] = pc[q] /\ seen'[q] = seen[q]
      /\ pc'[p] = "judge" => pc[p] = "read" /\ seen'[p] = Content
      /\ pc[p] = "open" => lock # NoFile
      /\ UNCHANGED <<lock, attempt, met>>
  BY Goes DEF IInv, Exists, ReadHolder, Shape
<1>2. Alone'
  BY <1>1, AloneStays DEF IInv, Starting, Between
<1>3. Content \in SUBSET Procs
  BY DEF IInv, Shape, Content, NoId, NoFile
<1>4. Shape'
  BY <1>1, <1>3 DEF IInv, Shape, Places, Exists, ReadHolder, Go, Starting
<1>5. Attempts'
  BY <1>1 DEF IInv, Attempts
<1>6. ASSUME NEW r \in Procs \ met, Writing(r)'
      PROVE  lock = [by |-> {r}, written |-> TRUE] /\ \A q \in Procs \ {r} : Harmless(r, q)'
  <2>1. r # p /\ Writing(r)
    BY <1>1, <1>6 DEF Writing
  <2>2. lock = [by |-> {r}, written |-> TRUE] /\ \A q \in Procs \ {r} : Harmless(r, q)
    BY <2>1 DEF IInv, Owned
  <2>3. Content = {r}
    BY <2>2 DEF Content
  <2> QED BY <1>1, <2>2, <2>3 DEF Harmless
<1>7. Owned'
  <2>1. \A r \in Procs : pc'[r] = "write" => pc[r] = "write"
    BY <1>1
  <2> QED BY <1>1, <1>6, <2>1 DEF IInv, Owned
<1> QED BY <1>2, <1>4, <1>5, <1>7 DEF IInv

(* A process writes its id and serves. *)
LEMMA WriteIdStep ==
    ASSUME IInv, NEW p \in Procs, WriteId(p)
    PROVE  IInv'
<1>1. /\ pc[p] = "write" /\ pc'[p] = "serving" /\ \A q \in Procs \ {p} : pc'[q] = pc[q]
      /\ UNCHANGED <<seen, attempt, met>>
      /\ lock' = IF lock.by = {p} THEN [lock EXCEPT !.written = TRUE] ELSE lock
  BY Goes DEF IInv, WriteId
<1>2. Alone'
  BY <1>1, AloneStays DEF IInv, Starting, Between
<1>3. lock' = lock \/ lock' = [by |-> {p}, written |-> TRUE]
  BY <1>1 DEF IInv, Shape, NoFile
<1>4. Shape'
  BY <1>1, <1>3 DEF IInv, Shape, Places, WriteId, Go, Starting
<1>5. ASSUME NEW r \in Procs \ met, r # p
      PROVE  ~Starting(r) /\ ~Writing(r) /\ pc'[r] = pc[r]
  BY <1>1, <1>5, NobodyElse DEF IInv
<1>6. Attempts'
  BY <1>1, <1>5 DEF Attempts, Starting
<1>7. ASSUME p \notin met
      PROVE  lock' = [by |-> {p}, written |-> TRUE] /\ \A q \in Procs \ {p} : Harmless(p, q)'
  <2>1. lock = [by |-> {p}, written |-> FALSE]
    BY <1>1, <1>7 DEF IInv, Owned
  <2>2. lock' = [lock EXCEPT !.written = TRUE]
    BY <1>1, <2>1
  <2>3. \A q \in Procs \ {p} : pc[q] \in {"off", "serving"}
    BY <1>1, <1>7 DEF IInv, Alone, Starting
  <2> QED BY <1>1, <2>1, <2>2, <2>3 DEF Harmless
<1>8. Owned'
  BY <1>1, <1>5, <1>7 DEF Owned, Writing, Starting
<1> QED BY <1>2, <1>4, <1>6, <1>8 DEF IInv

(* A process finds the lock held, or is killed. *)
LEMMA EndStep ==
    ASSUME IInv, NEW p \in Procs, Refuse(p) \/ Kill(p)
    PROVE  IInv'
<1>1. /\ pc' = [pc EXCEPT ![p] = "off"] /\ UNCHANGED <<lock, seen, attempt, met>>
      /\ pc'[p] = "off" /\ \A q \in Procs \ {p} : pc'[q] = pc[q]
  BY DEF IInv, Shape, Refuse, Kill, Go
<1>2. Alone'
  BY <1>1, AloneStays DEF IInv, Starting
<1>3. Shape'
  BY <1>1 DEF IInv, Shape, Places, Starting
<1>4. Attempts'
  BY <1>1 DEF IInv, Attempts
<1>5. Owned'
  <2>1. \A r \in Procs : Writing(r)' => Writing(r) /\ r # p
    BY <1>1 DEF Writing
  <2> QED BY <1>1, <2>1 DEF IInv, Owned, Harmless
<1> QED BY <1>2, <1>3, <1>4, <1>5 DEF IInv

(* A process takes the lock for stale: not that of a writer that met nobody *)
(* when it started, whose id it has read.                                   *)
LEMMA FindStaleStep ==
    ASSUME IInv, NEW p \in Procs, FindStale(p)
    PROVE  IInv'
<1>1. /\ pc[p] = "judge" /\ pc'[p] = "unlink" /\ \A q \in Procs \ {p} : pc'[q] = pc[q]
      /\ ~HeldByOther(p) /\ UNCHANGED <<lock, seen, attempt, met>>
  BY Goes DEF IInv, FindStale
<1>2. Alone'
  BY <1>1, AloneStays DEF IInv, Starting, Between
<1>3. Shape'
  BY <1>1 DEF IInv, Shape, Places, FindStale, Go, Starting
<1>4. Attempts'
  BY <1>1 DEF IInv, Attempts
<1>5. ASSUME NEW r \in Procs \ met, Writing(r) PROVE FALSE
  <2>1. r # p
    BY <1>1, <1>5 DEF Writing
  <2>2. seen[p] = {r}
    BY <1>1, <1>5, <2>1 DEF IInv, Owned, Harmless
  <2>3. Running(r)
    BY <1>5 DEF Writing, Running
  <2> QED BY <1>1, <2>1, <2>2, <2>3 DEF HeldByOther
<1>6. Owned'
  <2>1. \A r \in Procs : (Writing(r)' => Writing(r)) /\ (pc'[r] = "write" => pc[r] = "write")
    BY <1>1 DEF Writing
  <2> QED BY <1>1, <1>5, <2>1 DEF IInv, Owned
<1> QED BY <1>2, <1>3, <1>4, <1>6 DEF IInv

(* A process removes whatever lock is there, as stale or as its own. *)
LEMMA RemoveStep ==
    ASSUME IInv, NEW p \in Procs, Unlink(p) \/ Release(p)
    PROVE  IInv'
<1>1. /\ pc[p] \in {"unlink", "releasing"} /\ \A q \in Procs \ {p} : pc'[q] = pc[q]
      /\ lock' = NoFile /\ UNCHANGED <<seen, met>>
      /\ \/ pc[p] = "unlink" /\ pc'[p] = "open" /\ attempt' = [attempt EXCEPT ![p] = 2]
         \/ pc'[p] = "off" /\ (attempt' = attempt \/ attempt' = [attempt EXCEPT ![p] = 3])
  <2>1. CASE Release(p)
    BY <2>1, Goes DEF IInv, Release
  <2>2. CASE Unlink(p)
    <3>1. pc[p] = "unlink" /\ attempt[p] \in 1..2
      BY <2>2 DEF IInv, Shape, Unlink, Go, Starting
    <3>2. attempt' = [attempt EXCEPT ![p] = attempt[p] + 1]
      BY <2>2 DEF Unlink
    <3>3. pc'[p] = (IF attempt[p] < 2 THEN "open" ELSE "off") /\ \A q \in Procs \ {p} : pc'[q] = pc[q]
      BY <2>2 DEF IInv, Shape, Unlink, Go
    <3>4. lock' = NoFile /\ UNCHANGED <<seen, met>>
      BY <2>2 DEF Unlink
    <3>5. CASE attempt[p] = 1
      BY <3>1, <3>2, <3>3, <3>4, <3>5
    <3>6. CASE attempt[p] = 2
      BY <3>1, <3>2, <3>3, <3>4, <3>6
    <3> QED BY <3>1, <3>5, <3>6
  <2> QED BY <2>1, <2>2
<1>2. Alone'
  <2>1. Starting(p) \/ ~Starting(p)'
    BY <1>1 DEF Starting
  <2>2. Between(p)
    BY <1>1 DEF Between, Starting
  <2> QED BY <1>1, <2>1, <2>2, AloneStays DEF IInv
<1>3. Shape'
  <2>1. pc' \in [Procs -> Places]
    BY DEF IInv, Shape, Places, Unlink, Release, Go
  <2>2. attempt' \in [Procs -> 0..3]
    BY <1>1 DEF IInv, Shape
  <2>3. ASSUME NEW r \in Procs, Starting(r)' PROVE attempt'[r] \in 1..2
    <3>1. CASE r = p
      BY <1>1, <2>3, <3>1 DEF IInv, Shape, Starting
    <3>2. CASE r # p
      BY <1>1, <2>3, <3>2 DEF IInv, Shape, Starting
    <3> QED BY <3>1, <3>2
  <2> QED BY <1>1, <2>1, <2>2, <2>3 DEF IInv, Shape
<1>4. ASSUME NEW r \in Procs \ met, r # p
      PROVE  ~Starting(r) /\ ~Writing(r) /\ pc'[r] = pc[r]
  BY <1>1, <1>4, NobodyElse DEF IInv
<1>5. Attempts'
  <2>1. pc'[p] = "open" => attempt'[p] = 2 /\ lock' = NoFile
    BY <1>1 DEF IInv, Shape
  <2> QED BY <1>1, <1>4, <2>1 DEF Attempts, Starting
<1>6. Owned'
  BY <1>1, <1>4 DEF Owned, Starting, Writing
<1> QED BY <1>2, <1>3, <1>5, <1>6 DEF IInv

(* A process that stops looks whether the lock is its own. *)
LEMMA CheckStep ==
    ASSUME IInv, NEW p \in Procs, Check(p)
    PROVE  IInv'
<1>1. /\ pc[p] = "checking" /\ \A q \in Procs \ {p} : pc'[q] = pc[q]
      /\ pc'[p] = IF Content = {p} THEN "releasing" ELSE "off"
      /\ UNCHANGED <<lock, seen, attempt, met>>
  BY DEF IInv, Shape, Check, Go
<1>2. Alone'
  BY <1>1, AloneStays DEF IInv, Starting, Between
<1>3. Shape'
  BY <1>1 DEF IInv, Shape, Places, Check, Go, Starting
<1>4. Attempts'
  BY <1>1 DEF IInv, Attempts
<1>5. ASSUME NEW r \in Procs \ met, Writing(r)'
      PROVE  lock = [by |-> {r}, written |-> TRUE] /\ \A q \in Procs \ {r} : Harmless(r, q)'
  <2>1. Writing(r)
    BY <1>1, <1>5 DEF Writing
  <2>2. lock = [by |-> {r}, written |-> TRUE] /\ \A q \in Procs \ {r} : Harmless(r, q)
    BY <2>1 DEF IInv, Owned
  <2>3. r # p => pc'[p] = "off"
    BY <1>1, <2>2 DEF Content
  <2> QED BY <1>1, <2>2, <2>3 DEF Harmless
<1>6. Owned'
  <2>1. \A r \in Procs : pc'[r] = "write" => pc[r] = "write"
    BY <1>1
  <2> QED BY <1>1, <1>5, <2>1 DEF IInv, Owned
<1> QED BY <1>2, <1>3, <1>4, <1>6 DEF IInv

-----------------------------------------------------------------------------
(* The theorems.                                                            *)

(* The invariant of the lock. *)
LEMMA LockInvariant == Spec => []IInv
<1>1. Init => IInv
  BY DEF Init, IInv, Shape, Alone, Attempts, Owned, Starting, Writing, Places, NoId
<1>2. IInv /\ [Next]_vars => IInv'
  <2> SUFFICES ASSUME IInv, [Next]_vars PROVE IInv'
    OBVIOUS
  <2>1. CASE Next
    BY <2>1, MeetingStep, CreateStep, LookStep, WriteIdStep, EndStep, FindStaleStep,
       RemoveStep, CheckStep DEF Next
  <2>2. CASE UNCHANGED vars
    BY <2>2 DEF vars, IInv, Shape, Alone, Attempts, Owned, Harmless, Starting, Writing
  <2> QED BY <2>1, <2>2
<1> QED BY <1>1, <1>2, PTL DEF Spec

(* Every variable is in its range. *)
THEOREM LockTypeCorrect == Spec => []TypeOK
<1>1. IInv => TypeOK
  <2> SUFFICES ASSUME Shape PROVE TypeOK
    BY DEF IInv
  <2>1. lock.by = {} \/ \E p \in Procs : lock.by = {p}
    BY DEF Shape, NoFile
  <2>2. Cardinality(lock.by) <= 1
    <3>1. CASE lock.by = {}
      BY <3>1, FS_EmptySet
    <3>2. CASE \E p \in Procs : lock.by = {p}
      <4>1. PICK p \in Procs : lock.by = {p}
        BY <3>2
      <4>2. Cardinality({p}) = 1
        BY FS_Singleton, Zenon
      <4> QED BY <4>1, <4>2
    <3> QED BY <2>1, <3>1, <3>2
  <2>3. lock.by \subseteq Procs /\ (lock.written => lock.by # {})
    BY DEF Shape, NoFile
  <2> QED BY <2>2, <2>3 DEF Shape, TypeOK, Places
<1> QED BY <1>1, LockInvariant, PTL

(* A server that met nobody when it started is never joined by another      *)
(* writer, whatever races there are while it runs (acquireStateLock,        *)
(* lock.ts).                                                                *)
THEOREM NobodyJoinsCorrect == Spec => NobodyJoins
<1>1. ASSUME IInv, NEW p \in Procs, NEW q \in Procs, p # q, p \notin met, Writing(p), WriteId(q)
      PROVE  FALSE
  <2>1. pc[q] = "write"
    BY <1>1 DEF WriteId, Go
  <2> QED BY <1>1, <2>1, NobodyElse DEF IInv
<1>2. IInv /\ [Next]_vars =>
        [\A p, q \in Procs : p # q /\ p \notin met /\ Writing(p) => ~WriteId(q)]_vars
  BY <1>1
<1> QED BY <1>2, LockInvariant, PTL DEF Spec, NobodyJoins

(* A lock that a crash left behind keeps no server from starting that meets *)
(* nobody: only one that is being served from does (acquireStateLock,       *)
(* lock.ts).                                                                *)
THEOREM KeptOutCorrect == Spec => KeptOutOnlyByWriter
<1>1. ASSUME IInv, NEW p \in Procs \ met, Refuse(p) \/ (Unlink(p) /\ pc'[p] = "off")
      PROVE  \E q \in Procs \ {p} : Writing(q)
  <2>1. CASE Refuse(p)
    <3>1. pc[p] = "judge" /\ HeldByOther(p)
      BY <2>1 DEF Refuse, Go
    <3>2. PICK q \in seen[p] \ {p} : Running(q)
      BY <3>1 DEF HeldByOther
    <3>3. q \in Procs
      BY <1>1 DEF IInv, Shape
    <3>4. pc[q] = "serving"
      BY <1>1, <3>1, <3>2, <3>3 DEF IInv, Alone, Starting, Running
    <3> QED BY <3>2, <3>3, <3>4 DEF Writing
  <2>2. CASE Unlink(p) /\ pc'[p] = "off"
    <3>1. pc[p] = "unlink" /\ attempt[p] = 1
      BY <1>1, <2>2 DEF Unlink, Go, IInv, Attempts
    <3>2. pc'[p] = "open"
      BY <1>1, <2>2, <3>1 DEF Unlink, Go, IInv, Shape
    <3> QED BY <2>2, <3>2
  <2> QED BY <1>1, <2>1, <2>2
<1>2. IInv /\ [Next]_vars =>
        [\A p \in Procs \ met : Refuse(p) \/ (Unlink(p) /\ pc'[p] = "off") =>
            \E q \in Procs \ {p} : Writing(q)]_vars
  BY <1>1
<1> QED BY <1>2, LockInvariant, PTL DEF Spec, KeptOutOnlyByWriter
=============================================================================
