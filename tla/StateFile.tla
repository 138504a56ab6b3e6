----------------------------- MODULE StateFile ------------------------------
(***************************************************************************)
(* How the snapshot reaches the disk, and what a restart finds there       *)
(* (persist and loadFirstGood in src/src/store.ts).  A snapshot is a       *)
(* version number; writing one takes several calls, and the process may    *)
(* be killed, or the power cut, between any two of them.                   *)
(*                                                                         *)
(* The file system is modelled from how the code uses it: a rename is      *)
(* atomic, directory changes reach the disk in the order they were made,   *)
(* any number of the last ones may be missing after a power cut until the  *)
(* directory is flushed, and a file that was not flushed may be torn.      *)
(***************************************************************************)
EXTENDS Integers, Sequences

CONSTANTS
    MaxVersion,    \* bound on the snapshots written
    PowerCuts,     \* the power may be cut
    CrashAgain     \* a crash may follow a restart before its first write ends

ASSUME StateFileAssumption ==
    MaxVersion \in Nat \ {0} /\ PowerCuts \in BOOLEAN /\ CrashAgain \in BOOLEAN

Names == {"path", "tmp", "prev"}

VARIABLES
    pc,            \* next call of persist(), "idle" between two, or "down"
    memory,        \* version in memory
    dirs,          \* directories since the last flush, the one on disk first
    content,       \* inode -> version written to it; Torn for none
    flushed,       \* inodes whose content is on disk
    served,        \* version whose replies have left the server
    restarted,     \* what the server runs on until its first write has ended:
                   \* "file" or "copy"; then "no"
    loaded         \* version the last restart found; 0 before any

vars == <<pc, memory, dirs, content, flushed, served, restarted, loaded>>

(* An inode is named by the version it was created for. *)
Inodes == 0..MaxVersion
None == 0
Torn == 0

Now == dirs[Len(dirs)]

Init ==
    /\ pc = "idle"
    /\ memory = 0
    /\ dirs = <<[n \in Names |-> None]>>
    /\ content = [i \in Inodes |-> Torn]
    /\ flushed = {}
    /\ served = 0
    /\ restarted = "no"
    /\ loaded = 0

Directory(d) == dirs' = IF d = Now THEN dirs ELSE Append(dirs, d)

Called(from, to) == pc = from /\ pc' = to

Unrelated == UNCHANGED <<served, restarted, loaded>>

-----------------------------------------------------------------------------
(* A handler has changed the state in memory; persist() opens the temporary *)
(* file, which truncates the one a recovery may have left there.            *)
OpenTmp ==
    /\ Called("idle", "write")
    /\ memory < MaxVersion
    /\ memory' = memory + 1
    /\ LET i == IF Now["tmp"] # None THEN Now["tmp"] ELSE memory + 1
       IN  /\ Directory([Now EXCEPT !["tmp"] = i])
           /\ content' = [content EXCEPT ![i] = Torn]
           /\ flushed' = flushed \ {i}
    /\ Unrelated

WriteTmp ==
    /\ Called("write", "fsync")
    /\ content' = [content EXCEPT ![Now["tmp"]] = memory]
    /\ UNCHANGED <<memory, dirs, flushed>>
    /\ Unrelated

(* Mutant of FlushTmp: no fsync. *)
NoFlush ==
    /\ Called("fsync", "keep")
    /\ UNCHANGED <<memory, dirs, content, flushed>>
    /\ Unrelated

FlushTmp ==
    /\ Called("fsync", "keep")
    /\ flushed' = flushed \cup {Now["tmp"]}
    /\ UNCHANGED <<memory, dirs, content>>
    /\ Unrelated

(* Mutant of KeepPrev: the wrong file is moved. *)
KeepTmp ==
    /\ Called("keep", "replace")
    /\ Directory(IF Now["path"] = None THEN Now
                 ELSE [Now EXCEPT !["prev"] = Now["tmp"], !["tmp"] = None])
    /\ UNCHANGED <<memory, content, flushed>>
    /\ Unrelated

(* The old snapshot, if there is one, becomes .prev ... *)
KeepPrev ==
    /\ Called("keep", "replace")
    /\ Directory(IF Now["path"] = None THEN Now
                 ELSE [Now EXCEPT !["prev"] = Now["path"], !["path"] = None])
    /\ UNCHANGED <<memory, content, flushed>>
    /\ Unrelated

(* ... and the new one takes its place. *)
Replace ==
    /\ Called("replace", "sync")
    /\ Directory([Now EXCEPT !["path"] = Now["tmp"], !["tmp"] = None])
    /\ UNCHANGED <<memory, content, flushed>>
    /\ Unrelated

(* Mutant of FlushDir: the reply leaves before the directory is flushed. *)
NoFlushDir ==
    /\ Called("sync", "idle")
    /\ served' = memory
    /\ restarted' = "no"
    /\ UNCHANGED <<memory, dirs, content, flushed, loaded>>

(* The directory is flushed; persist() returns and the reply leaves. *)
FlushDir ==
    /\ Called("sync", "idle")
    /\ dirs' = <<Now>>
    /\ served' = memory
    /\ restarted' = "no"
    /\ UNCHANGED <<memory, content, flushed, loaded>>

-----------------------------------------------------------------------------
(* The process is killed: the file system keeps everything. *)
Kill ==
    /\ pc # "down"
    /\ CrashAgain \/ restarted # "copy" \/ pc = "idle"
    /\ pc' = "down"
    /\ UNCHANGED <<memory, dirs, content, flushed>>
    /\ Unrelated

(* The power is cut: some directory the disk went through is what is left,  *)
(* and what was not flushed is there or is torn.                            *)
PowerCut ==
    /\ PowerCuts
    /\ pc # "down"
    /\ CrashAgain \/ restarted = "no"
    /\ pc' = "down"
    /\ \E k \in 1..Len(dirs) : dirs' = <<dirs[k]>>
    /\ \E lost \in SUBSET (Inodes \ flushed) :
          content' = [i \in Inodes |-> IF i \in lost THEN Torn ELSE content[i]]
    /\ flushed' = Inodes
    /\ UNCHANGED memory
    /\ Unrelated

Version(n) == IF Now[n] = None THEN Torn ELSE content[Now[n]]

Readable(n) == Version(n) # Torn

(* loadFirstGood(): the state file, else the finished write, else the copy  *)
(* the last write replaced; nothing is moved unless the state file is there *)
(* and cannot be read.  With no file at all the server starts empty.        *)
Found ==
    CASE Readable("path") -> Version("path")
      [] ~Readable("path") /\ Readable("tmp") -> Version("tmp")
      [] ~Readable("path") /\ ~Readable("tmp") -> Version("prev")

Start ==
    /\ pc = "down"
    /\ (\E n \in Names : Readable(n)) \/ (\A n \in Names : Now[n] = None)
    /\ pc' = "idle"
    /\ memory' = Found
    /\ loaded' = Found
    /\ served' = Found
    /\ restarted' = IF Readable("path") THEN "file" ELSE IF Found # None THEN "copy" ELSE "no"
    /\ UNCHANGED <<dirs, content, flushed>>

Next == OpenTmp \/ WriteTmp \/ FlushTmp \/ KeepPrev \/ Replace \/ FlushDir
        \/ Kill \/ PowerCut \/ Start

Spec == Init /\ [][Next]_vars
-----------------------------------------------------------------------------
(* Every variable is in its range, and a write under way has its file.      *)
TypeOK ==
    /\ pc \in {"write", "fsync", "keep", "replace"} => Now["tmp"] # None
    /\ pc \in {"idle", "write", "fsync", "keep", "replace", "sync", "down"}
    /\ memory \in 0..MaxVersion /\ served \in 0..MaxVersion /\ loaded \in 0..MaxVersion
    /\ dirs \in Seq([Names -> Inodes]) /\ dirs # <<>>
    /\ content \in [Inodes -> 0..MaxVersion]
    /\ flushed \subseteq Inodes
    /\ restarted \in {"no", "file", "copy"}

(* A crash leaves either the old state or the new one: a restart finds what *)
(* the server last answered from, or the write that was under way (persist  *)
(* in store.ts and its comment, lines 182-186).                             *)
OldOrNew == [][pc = "down" /\ pc' = "idle" => loaded' \in {served, memory}]_vars

(* A crash alone never leaves an unreadable state file: what loadFirstGood  *)
(* quarantines was damaged by something else (persist, store.ts).           *)
StateFileReadable == pc = "down" /\ Now["path"] # None => Readable("path")
=============================================================================
