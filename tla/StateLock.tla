----------------------------- MODULE StateLock ------------------------------
(***************************************************************************)
(* The lock beside the state file (acquireStateLock in src/src/lock.ts):   *)
(* a file created exclusively that holds its writer's process id.  One     *)
(* step per file-system call.  Nothing keeps two processes from starting   *)
(* or stopping at the same time, and a process may be killed between any   *)
(* two calls; the lock file then stays behind.                             *)
(***************************************************************************)
EXTENDS Integers, FiniteSets

CONSTANTS
    Procs          \* processes that serve the same state file, by id

VARIABLES
    pc,            \* what a process does next; "off" when it does not run
    lock,          \* the lock file: who created it, and has it an id in it
    seen,          \* the id a process read in the lock file, or NoId
    attempt,       \* which attempt a starting process makes
    met            \* processes that met another one between its calls when
                   \* they last started (of the history, not of the program)

vars == <<pc, lock, seen, attempt, met>>

NoFile == [by |-> {}, written |-> FALSE]
NoId == {}

(* A process id as read from the file: a singleton, or NoId. *)
Content == IF lock.written THEN lock.by ELSE NoId

Init ==
    /\ pc = [p \in Procs |-> "off"]
    /\ lock = NoFile
    /\ seen = [p \in Procs |-> NoId]
    /\ attempt = [p \in Procs |-> 0]
    /\ met = {}

Running(p) == pc[p] # "off"
Writing(p) == pc[p] \in {"serving", "checking", "releasing"}

Starting(p) == pc[p] \in {"open", "write", "read", "judge", "unlink"}

(* Between two calls on the lock file. *)
Between(p) == Starting(p) \/ pc[p] \in {"checking", "releasing"}

(* Who meets p when it begins to start or to stop, and whether p, when it   *)
(* begins to start, meets somebody.                                         *)
Meets(p) == {q \in Procs \ {p} : Starting(q)}
IsMet(p) == IF \E q \in Procs \ {p} : Between(q) THEN {p} ELSE {}

Go(p, from, to) == pc[p] = from /\ pc' = [pc EXCEPT ![p] = to]

-----------------------------------------------------------------------------
Begin(p) ==
    /\ Go(p, "off", "open")
    /\ met' = (met \ {p}) \cup Meets(p) \cup IsMet(p)
    /\ attempt' = [attempt EXCEPT ![p] = 1]
    /\ UNCHANGED <<lock, seen>>

(* openSync(lock, "wx") creates the file, or finds that it exists. *)
Create(p) ==
    /\ lock = NoFile
    /\ Go(p, "open", "write")
    /\ lock' = [by |-> {p}, written |-> FALSE]
    /\ UNCHANGED <<seen, attempt, met>>

Exists(p) ==
    /\ lock # NoFile
    /\ Go(p, "open", "read")
    /\ UNCHANGED <<lock, seen, attempt, met>>

(* The id is written and the server serves.  If another process has removed *)
(* the file meanwhile, the id goes nowhere.                                 *)
WriteId(p) ==
    /\ Go(p, "write", "serving")
    /\ lock' = IF lock.by = {p} THEN [lock EXCEPT !.written = TRUE] ELSE lock
    /\ UNCHANGED <<seen, attempt, met>>

ReadHolder(p) ==
    /\ Go(p, "read", "judge")
    /\ seen' = [seen EXCEPT ![p] = Content]
    /\ UNCHANGED <<lock, attempt, met>>

(* Mutant of HeldByOther: a process that may not be signalled counts as     *)
(* gone.                                                                    *)
HeldBySignalled(p) == FALSE

(* Mutant of HeldByOther: a file without an id is someone's.                *)
HeldOrUnclear(p) == seen[p] = NoId \/ \E q \in seen[p] \ {p} : Running(q)

(* The id read is that of another process that exists. *)
HeldByOther(p) == \E q \in seen[p] \ {p} : Running(q)

Refuse(p) ==
    /\ HeldByOther(p)
    /\ Go(p, "judge", "off")
    /\ UNCHANGED <<lock, seen, attempt, met>>

(* Anything else is stale. *)
FindStale(p) ==
    /\ ~HeldByOther(p)
    /\ Go(p, "judge", "unlink")
    /\ UNCHANGED <<lock, seen, attempt, met>>

(* Mutant of Unlink: the file is emptied, not removed. *)
Truncate(p) ==
    /\ Go(p, "unlink", IF attempt[p] < 2 THEN "open" ELSE "off")
    /\ lock' = [lock EXCEPT !.by = {}]
    /\ attempt' = [attempt EXCEPT ![p] = @ + 1]
    /\ UNCHANGED <<seen, met>>

(* Whatever file is there by now goes, and there is one more attempt. *)
Unlink(p) ==
    /\ Go(p, "unlink", IF attempt[p] < 2 THEN "open" ELSE "off")
    /\ lock' = NoFile
    /\ attempt' = [attempt EXCEPT ![p] = @ + 1]
    /\ UNCHANGED <<seen, met>>

(* The exit handler: the lock is read, and removed if it holds one's id. *)
Stop(p) ==
    /\ Go(p, "serving", "checking")
    /\ met' = met \cup Meets(p)
    /\ UNCHANGED <<lock, seen, attempt>>

Check(p) ==
    /\ Go(p, "checking", IF Content = {p} THEN "releasing" ELSE "off")
    /\ UNCHANGED <<lock, seen, attempt, met>>

Release(p) ==
    /\ Go(p, "releasing", "off")
    /\ lock' = NoFile
    /\ UNCHANGED <<seen, attempt, met>>

Kill(p) ==
    /\ Running(p)
    /\ pc' = [pc EXCEPT ![p] = "off"]
    /\ UNCHANGED <<lock, seen, attempt, met>>

Next ==
    \E p \in Procs :
        \/ Begin(p) \/ Create(p) \/ Exists(p) \/ WriteId(p)
        \/ ReadHolder(p) \/ Refuse(p) \/ FindStale(p) \/ Unlink(p)
        \/ Stop(p) \/ Check(p) \/ Release(p) \/ Kill(p)

Spec == Init /\ [][Next]_vars
-----------------------------------------------------------------------------
(* Every variable is in its range. *)
TypeOK ==
    /\ pc \in [Procs -> {"off", "open", "write", "read", "judge", "unlink",
                         "serving", "checking", "releasing"}]
    /\ lock.by \subseteq Procs /\ Cardinality(lock.by) <= 1
    /\ lock.written => lock.by # {}
    /\ seen \in [Procs -> SUBSET Procs]
    /\ attempt \in [Procs -> 0..3]
    /\ met \subseteq Procs

(* "One writer per state file" (lock.ts:9), without conditions.  The code   *)
(* does not keep it: of two processes that start together, one may take the *)
(* lock that the other has just created, without an id in it, for stale, or *)
(* both may find a stale one, and the second removes that of the first.     *)
OneWriter == \A p, q \in Procs : Writing(p) /\ Writing(q) => p = q

(* What the code does keep: nobody comes to write beside a server that      *)
(* started while nobody else was starting or stopping, however many others  *)
(* start, stop and race each other while it runs, whoever was killed before *)
(* and whatever that left behind (acquireStateLock, lock.ts).               *)
NobodyJoins ==
    [][\A p, q \in Procs :
          p # q /\ p \notin met /\ Writing(p) => ~WriteId(q)]_vars

(* A server that meets nobody when it starts is kept from it, by a refusal  *)
(* or for want of attempts, only while another one is serving: a lock left  *)
(* behind by a crash never does (lock.ts).                                  *)
KeptOutOnlyByWriter ==
    [][\A p \in Procs \ met :
          Refuse(p) \/ (Unlink(p) /\ pc'[p] = "off") =>
              \E q \in Procs \ {p} : Writing(q)]_vars
=============================================================================
