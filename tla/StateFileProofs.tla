-------------------------- MODULE StateFileProofs ---------------------------
(***************************************************************************)
(* What a crash leaves of the state file, for any number of snapshots,     *)
(* kills and power cuts, when no crash hits the first write after a        *)
(* recovery (~CrashAgain).                                                 *)
(***************************************************************************)
EXTENDS StateFile, SequenceTheorems, TLAPS

Dir == [Names -> Inodes]

(* Calls that leave the names of the snapshots alone. *)
Preparing == {"write", "fsync", "keep"}

(* The temporary file is one of its own. *)
Apart(d) == d["tmp"] # None => d["tmp"] # d["path"]

(* The state file holds what the server last answered from; without one it  *)
(* has answered from nothing, and there is no older one either.             *)
Old(d) ==
    IF d["path"] = None
    THEN d["prev"] = None /\ served = 0
    ELSE /\ d["path"] \in flushed /\ d["path"] <= served
         /\ content[d["path"]] = served /\ served # Torn

(* An inode that holds the new snapshot, on disk. *)
Whole(i) == i # None /\ i \in flushed /\ content[i] = memory

(* What the power may leave of the directory leads to the old snapshot or   *)
(* to the new one, whatever becomes of the files that are not flushed.      *)
Survives(d) ==
    /\ Apart(d) /\ d["path"] <= memory /\ d["tmp"] <= memory
    /\ \/ Old(d) /\ (d["path"] = None /\ d["tmp"] # None => content[d["tmp"]] \in {Torn, memory})
       \/ d["path"] = None /\ Whole(d["tmp"])
       \/ Whole(d["path"])

-----------------------------------------------------------------------------
(* The inductive invariant, place by place.                                 *)

VersionInv ==
    /\ pc = "idle" => memory = served
    /\ pc \in Preparing \cup {"replace", "sync"} => memory = served + 1

(* Between two writes.  Inodes are named upwards, so that the next one is   *)
(* new unless there is a temporary file to write over.                      *)
IdleInv ==
    pc = "idle" =>
        /\ Apart(Now) /\ Now["path"] <= memory /\ Now["tmp"] <= memory + 1
        /\ restarted = "no" => dirs = <<Now>> /\ Now["tmp"] = None /\ Old(Now)
        /\ restarted = "file" => Now["path"] # None /\ Old(Now)
        /\ restarted = "copy" =>
              /\ Now["path"] = None /\ Now["tmp"] # None /\ Now["tmp"] <= memory
              /\ content[Now["tmp"]] = memory /\ memory # Torn

PreparingInv ==
    pc \in Preparing =>
        /\ Now["tmp"] # None /\ Apart(Now) /\ Now["tmp"] <= memory
        /\ content[Now["tmp"]] = IF pc = "write" THEN Torn ELSE memory
        /\ pc = "keep" => Now["tmp"] \in flushed
        /\ IF restarted = "copy" THEN Now["path"] = None ELSE Old(Now)
        /\ restarted = "no" => dirs = <<[Now EXCEPT !["tmp"] = None], Now>>

RenamingInv ==
    /\ pc = "replace" => Now["path"] = None /\ Whole(Now["tmp"]) /\ Now["tmp"] <= memory
    /\ pc = "sync" => Now["tmp"] = None /\ Whole(Now["path"]) /\ Now["path"] <= memory
    /\ pc \in {"replace", "sync"} /\ restarted = "no" => \A k \in DOMAIN dirs : Survives(dirs[k])

(* What a crash has left. *)
DownInv ==
    pc = "down" =>
        IF Now["path"] # None
        THEN LET v == content[Now["path"]]
             IN  /\ Apart(Now) /\ Now["path"] \in flushed
                 /\ v # Torn /\ v \in {served, memory}
                 /\ Now["path"] <= v /\ Now["tmp"] <= v + 1
        ELSE LET v == content[Now["tmp"]]
             IN  IF Now["tmp"] # None /\ v # Torn
                 THEN v \in {served, memory} /\ Now["tmp"] <= v
                 ELSE /\ Now["prev"] = None /\ served = 0
                      /\ Now["tmp"] = None => dirs = <<Now>>

IInv == TypeOK /\ VersionInv /\ IdleInv /\ PreparingInv /\ RenamingInv /\ DownInv

-----------------------------------------------------------------------------
(* The directory.                                                           *)

(* The directory that calls see is one of those that may survive. *)
LEMMA NowIsDir ==
    ASSUME TypeOK
    PROVE  /\ Now \in Dir /\ Len(dirs) \in DOMAIN dirs
           /\ \A k \in DOMAIN dirs : dirs[k] \in Dir
           /\ \A n \in Names : Now[n] \in Inodes
BY DEF TypeOK, Now, Dir

(* A call on the directory makes d the present one and keeps those before. *)
LEMMA DirectoryNow ==
    ASSUME TypeOK, NEW d \in Dir, Directory(d)
    PROVE  /\ dirs' \in Seq(Dir) /\ dirs' # <<>> /\ Now' = d
           /\ \A k \in DOMAIN dirs' : dirs'[k] = d \/ (k \in DOMAIN dirs /\ dirs'[k] = dirs[k])
<1>1. dirs \in Seq(Dir) /\ dirs # <<>> /\ Len(dirs) \in Nat /\ Len(dirs) >= 1
  BY DEF TypeOK, Dir
<1>2. CASE d = Now
  BY <1>1, <1>2 DEF Directory, Now
<1>3. CASE d # Now
  <2>1. dirs' = Append(dirs, d)
    BY <1>3 DEF Directory
  <2>2. /\ dirs' \in Seq(Dir) /\ Len(dirs') = Len(dirs) + 1
        /\ \A k \in 1..Len(dirs) : dirs'[k] = dirs[k]
        /\ dirs'[Len(dirs) + 1] = d
    BY <1>1, <2>1
  <2> QED BY <1>1, <2>2 DEF Now
<1> QED BY <1>2, <1>3

(* A directory of one. *)
LEMMA OnlyNow ==
    ASSUME NEW d, dirs' = <<d>>
    PROVE  Now' = d /\ DOMAIN dirs' = {1} /\ dirs'[1] = d
BY DEF Now

(* One entry of the directory is another one. *)
LEMMA Renamed ==
    ASSUME NEW d \in Dir, NEW n \in Names, NEW i \in Inodes
    PROVE  /\ [d EXCEPT ![n] = i] \in Dir
           /\ [d EXCEPT ![n] = i][n] = i
           /\ \A m \in Names \ {n} : [d EXCEPT ![n] = i][m] = d[m]
BY DEF Dir

(* One entry appended to a sequence of one. *)
LEMMA AppendToOne ==
    ASSUME NEW x, NEW y
    PROVE  Append(<<x>>, y) = <<x, y>>
<1>1. <<x>> \in Seq({x, y}) /\ <<x, y>> \in Seq({x, y})
  OBVIOUS
<1>2. PICK s : s = Append(<<x>>, y)
  OBVIOUS
<1>3. s \in Seq({x, y}) /\ Len(s) = 2 /\ s[1] = x /\ s[2] = y
  BY <1>1, <1>2
<1>4. \A k \in 1..Len(s) : s[k] = <<x, y>>[k]
  BY <1>3
<1> QED BY <1>1, <1>2, <1>3, <1>4, SeqEqual

(* The entries of a sequence of two. *)
LEMMA ElementsOfTwo ==
    ASSUME NEW s, NEW x, NEW y, s = <<x, y>>
    PROVE  \A k \in DOMAIN s : s[k] = x \/ s[k] = y
OBVIOUS

(* A directory is what its names lead to. *)
LEMMA SameDir ==
    ASSUME NEW d \in Dir, NEW e \in Dir, \A n \in Names : d[n] = e[n]
    PROVE  d = e
BY DEF Dir

(* Versions and inodes are numbers. *)
LEMMA Numbers ==
    ASSUME TypeOK
    PROVE  /\ memory \in Nat /\ served \in Nat /\ MaxVersion \in Nat
           /\ \A i \in Inodes : i \in Nat /\ content[i] \in Nat /\ content[i] \in 0..MaxVersion
           /\ Now["path"] \in Nat /\ Now["tmp"] \in Nat /\ Now["prev"] \in Nat
           /\ None \in Inodes
<1>1. \A n \in Names : Now[n] \in Inodes
  BY NowIsDir
<1>2. MaxVersion \in Nat
  BY StateFileAssumption
<1>3. content \in [Inodes -> 0..MaxVersion] /\ memory \in 0..MaxVersion /\ served \in 0..MaxVersion
  BY DEF TypeOK
<1>4. \A i \in Inodes : i \in Nat /\ content[i] \in Nat /\ content[i] \in 0..MaxVersion
  BY <1>2, <1>3 DEF Inodes
<1>5. Now["path"] \in Nat /\ Now["tmp"] \in Nat /\ Now["prev"] \in Nat
  BY <1>1, <1>4 DEF Names
<1> QED BY <1>2, <1>3, <1>4, <1>5 DEF Inodes, None

-----------------------------------------------------------------------------
(* The calls of a write.                                                    *)

(* A call leaves the type of the directory right. *)
LEMMA TypeOf ==
    ASSUME TypeOK, dirs' \in Seq(Dir), dirs' # <<>>,
           pc' \in {"idle", "write", "fsync", "keep", "replace", "sync", "down"},
           pc' \in {"write", "fsync", "keep", "replace"} => Now'["tmp"] # None,
           memory' \in 0..MaxVersion, content' \in [Inodes -> 0..MaxVersion],
           flushed' \subseteq Inodes, served' \in {served, memory}, loaded' = loaded,
           restarted' \in {restarted, "no"}
    PROVE  TypeOK'
BY DEF TypeOK, Dir

(* The new snapshot gets a file of its own, next to the one it replaces. *)
LEMMA OpenTmpStep ==
    ASSUME IInv, OpenTmp
    PROVE  IInv'
<1> DEFINE i == IF Now["tmp"] # None THEN Now["tmp"] ELSE memory + 1
<1> DEFINE d == [Now EXCEPT !["tmp"] = i]
<1>1. TypeOK /\ IdleInv /\ VersionInv /\ pc = "idle" /\ pc' = "write"
  BY DEF IInv, OpenTmp, Called
<1>2. memory < MaxVersion /\ memory' = memory + 1 /\ memory = served
  BY <1>1 DEF OpenTmp, VersionInv
<1>3. /\ Directory(d)
      /\ content' = [content EXCEPT ![i] = Torn] /\ flushed' = flushed \ {i}
      /\ served' = served /\ restarted' = restarted /\ loaded' = loaded
  BY DEF OpenTmp, Unrelated
<1>4. i \in Inodes /\ i # None /\ i \in Nat
  BY <1>1, <1>2, Numbers, NowIsDir DEF Inodes, None, Names
<1>5. d \in Dir /\ d["tmp"] = i /\ d["path"] = Now["path"] /\ d["prev"] = Now["prev"]
  BY <1>1, <1>4, NowIsDir, Renamed DEF Names
<1>6. /\ dirs' \in Seq(Dir) /\ dirs' # <<>> /\ Now' = d
  BY <1>1, <1>3, <1>5, DirectoryNow
<1>7. i # Now["path"] /\ i <= memory'
  BY <1>1, <1>2, <1>4, Numbers DEF IdleInv, Apart, None
<1>8. /\ content'[i] = Torn
      /\ \A j \in Inodes \ {i} : content'[j] = content[j] /\ (j \in flushed => j \in flushed')
      /\ content' \in [Inodes -> 0..MaxVersion] /\ flushed' \subseteq Inodes
  BY <1>1, <1>2, <1>3, <1>4, Numbers DEF TypeOK, Torn
<1> HIDE DEF i, d
<1>9. TypeOK'
  <2>1. memory' \in 0..MaxVersion
    BY <1>1, <1>2, Numbers
  <2> QED BY <1>1, <1>3, <1>4, <1>5, <1>6, <1>8, <2>1, TypeOf
<1>10. restarted # "copy" => Old(Now)
  BY <1>1 DEF IdleInv, TypeOK
<1>11. Old(Now) => Old(Now)'
  <2>1. Now["path"] \in Inodes /\ Now'["path"] = Now["path"] /\ Now'["prev"] = Now["prev"]
    BY <1>1, <1>5, <1>6, NowIsDir DEF Names
  <2> QED BY <2>1, <1>3, <1>7, <1>8 DEF Old
<1>12. restarted = "no" => dirs' = <<[d EXCEPT !["tmp"] = None], d>>
  <2> SUFFICES ASSUME restarted = "no" PROVE dirs' = <<[d EXCEPT !["tmp"] = None], d>>
    OBVIOUS
  <2>1. dirs = <<Now>> /\ Now["tmp"] = None
    BY <1>1 DEF IdleInv
  <2>2. d # Now
    BY <2>1, <1>4, <1>5
  <2>3. dirs' = Append(<<Now>>, d)
    BY <2>1, <2>2, <1>3 DEF Directory
  <2>5. dirs' = <<Now, d>>
    BY <2>3, AppendToOne
  <2>4. [d EXCEPT !["tmp"] = None] = Now
    <3>1. PICK e : e = [d EXCEPT !["tmp"] = None]
      OBVIOUS
    <3>2. e \in Dir /\ Now \in Dir
      BY <3>1, <1>1, <1>5, Renamed, Numbers, NowIsDir DEF Names
    <3>3. \A n \in Names : e[n] = Now[n]
      BY <3>1, <2>1, <1>1, <1>5, Renamed, Numbers DEF Names
    <3>4. e = Now
      BY <3>2, <3>3, SameDir
    <3> QED BY <3>1, <3>4
  <2> QED BY <2>4, <2>5
<1>13. PreparingInv'
  BY <1>1, <1>3, <1>4, <1>5, <1>6, <1>7, <1>8, <1>10, <1>11, <1>12
     DEF PreparingInv, IdleInv, Preparing, Apart, Old
<1>14. VersionInv' /\ IdleInv' /\ RenamingInv' /\ DownInv'
  BY <1>1, <1>2, <1>3 DEF VersionInv, IdleInv, RenamingInv, DownInv
<1> QED BY <1>9, <1>13, <1>14 DEF IInv

(* What the write and the flush of the temporary file have in common. *)
LEMMA PrepareStep ==
    ASSUME IInv, WriteTmp \/ FlushTmp
    PROVE  IInv'
<1>1. TypeOK /\ PreparingInv /\ VersionInv /\ pc \in Preparing
  BY DEF IInv, WriteTmp, FlushTmp, Called, Preparing
<1>2. /\ dirs' = dirs /\ memory' = memory /\ served' = served /\ Now' = Now
      /\ restarted' = restarted /\ loaded' = loaded
      /\ \/ pc = "write" /\ pc' = "fsync"
         \/ pc = "fsync" /\ pc' = "keep"
  BY DEF WriteTmp, FlushTmp, Called, Unrelated, Now
<1>3. Now["tmp"] \in Inodes /\ Now["path"] \in Inodes /\ Now["tmp"] # None /\ Apart(Now)
  BY <1>1, NowIsDir DEF PreparingInv, Names
<1>4. /\ content'[Now["tmp"]] = memory
      /\ \A j \in Inodes \ {Now["tmp"]} : content'[j] = content[j]
      /\ content' \in [Inodes -> 0..MaxVersion]
      /\ flushed \subseteq flushed' /\ flushed' \subseteq Inodes
      /\ pc' = "keep" => Now["tmp"] \in flushed'
  <2>1. CASE WriteTmp
    BY <2>1, <1>1, <1>3 DEF WriteTmp, TypeOK, Called
  <2>2. CASE FlushTmp
    BY <2>2, <1>1, <1>3 DEF FlushTmp, TypeOK, PreparingInv, Called
  <2> QED BY <2>1, <2>2
<1>5. TypeOK'
  BY <1>1, <1>2, <1>3, <1>4, TypeOf DEF TypeOK, Dir
<1>6. Old(Now) => Old(Now)'
  BY <1>2, <1>3, <1>4 DEF Old, Apart
<1>7. PreparingInv'
  BY <1>1, <1>2, <1>3, <1>4, <1>6 DEF PreparingInv, Preparing, Apart
<1>8. VersionInv' /\ IdleInv' /\ RenamingInv' /\ DownInv'
  BY <1>1, <1>2 DEF VersionInv, IdleInv, RenamingInv, DownInv, Preparing
<1> QED BY <1>5, <1>7, <1>8 DEF IInv

(* With one state file on disk and the new one beside it, either survives.  *)
LEMMA PreparedSurvives ==
    ASSUME IInv, pc \in Preparing, restarted = "no"
    PROVE  \A k \in DOMAIN dirs : Survives(dirs[k])
<1>1. TypeOK /\ PreparingInv /\ memory = served + 1
  BY DEF IInv, VersionInv, Preparing
<1>2. dirs = <<[Now EXCEPT !["tmp"] = None], Now>> /\ Apart(Now) /\ Old(Now)
      /\ Now["tmp"] <= memory /\ content[Now["tmp"]] \in {Torn, memory}
  BY <1>1 DEF PreparingInv
<1>3. PICK b : b = [Now EXCEPT !["tmp"] = None]
  OBVIOUS
<1>4. b["tmp"] = None /\ b["path"] = Now["path"] /\ b["prev"] = Now["prev"]
  BY <1>1, <1>3, NowIsDir, Numbers, Renamed DEF Names
<1>5. Now["path"] <= memory /\ memory \in Nat
  BY <1>1, <1>2, Numbers DEF Old, None
<1>6. Survives(b) /\ Survives(Now)
  BY <1>1, <1>2, <1>4, <1>5, Numbers DEF Survives, Apart, Old, None
<1>7. \A k \in DOMAIN dirs : dirs[k] = b \/ dirs[k] = Now
  <2>1. dirs = <<b, Now>>
    BY <1>2, <1>3
  <2> QED BY <2>1, ElementsOfTwo
<1> QED BY <1>6, <1>7

(* What survives depends on what a rename leaves alone. *)
LEMMA SurvivesStill ==
    ASSUME UNCHANGED <<memory, content, flushed, served>>, NEW e, Survives(e)
    PROVE  Survives(e)'
BY DEF Survives, Whole, Old, Apart

(* A rename beside which nothing changes. *)
LEMMA RenameStep ==
    ASSUME IInv, NEW d \in Dir, Directory(d),
           UNCHANGED <<memory, content, flushed, served, restarted, loaded>>,
           restarted = "no" => Survives(d) /\ \A k \in DOMAIN dirs : Survives(dirs[k])
    PROVE  /\ Now' = d /\ dirs' \in Seq(Dir) /\ dirs' # <<>>
           /\ (restarted = "no" => \A k \in DOMAIN dirs : Survives(dirs[k]))'
<1>1. /\ dirs' \in Seq(Dir) /\ dirs' # <<>> /\ Now' = d
      /\ \A k \in DOMAIN dirs' : dirs'[k] = d \/ (k \in DOMAIN dirs /\ dirs'[k] = dirs[k])
  BY DirectoryNow DEF IInv
<1>2. ASSUME NEW k \in DOMAIN dirs', restarted = "no"
      PROVE  Survives(dirs[k])'
  <2>1. PICK e : e = dirs'[k]
    OBVIOUS
  <2>2. Survives(e)
    BY <1>1, <1>2, <2>1
  <2>3. Survives(e)'
    BY <2>2, SurvivesStill
  <2> QED BY <2>1, <2>3
<1> QED BY <1>1, <1>2

(* state.json is kept as state.json.prev. *)
LEMMA KeepPrevStep ==
    ASSUME IInv, KeepPrev
    PROVE  IInv'
<1>1. TypeOK /\ PreparingInv /\ memory = served + 1 /\ pc = "keep" /\ pc' = "replace"
  BY DEF IInv, VersionInv, KeepPrev, Called, Preparing
<1>2. UNCHANGED <<memory, content, flushed, served, restarted, loaded>>
  BY DEF KeepPrev, Unrelated
<1>3. Now["tmp"] \in Inodes /\ Now["path"] \in Inodes /\ Now["tmp"] # None /\ Apart(Now)
      /\ Whole(Now["tmp"]) /\ Now["tmp"] <= memory
  BY <1>1, NowIsDir DEF PreparingInv, Names, Preparing, Whole
<1>4. PICK d : d = IF Now["path"] = None THEN Now
                   ELSE [Now EXCEPT !["prev"] = Now["path"], !["path"] = None]
  OBVIOUS
<1>5. d \in Dir /\ d["path"] = None /\ d["tmp"] = Now["tmp"]
  BY <1>1, <1>3, <1>4, NowIsDir, Numbers DEF Dir, Names
<1>6. Directory(d)
  BY <1>4 DEF KeepPrev
<1>7. Survives(d)
  BY <1>1, <1>3, <1>5, Numbers DEF Survives, Apart, None
<1>8. restarted = "no" => Survives(d) /\ \A k \in DOMAIN dirs : Survives(dirs[k])
  BY <1>1, <1>7, PreparedSurvives DEF Preparing
<1>9. /\ Now' = d /\ dirs' \in Seq(Dir) /\ dirs' # <<>>
      /\ (restarted = "no" => \A k \in DOMAIN dirs : Survives(dirs[k]))'
  BY <1>2, <1>5, <1>6, <1>8, RenameStep
<1>10. TypeOK'
  BY <1>1, <1>2, <1>3, <1>5, <1>9, TypeOf DEF TypeOK
<1>11. RenamingInv'
  BY <1>1, <1>2, <1>3, <1>5, <1>9 DEF RenamingInv, Whole
<1>12. VersionInv' /\ IdleInv' /\ PreparingInv' /\ DownInv'
  BY <1>1, <1>2 DEF VersionInv, IdleInv, PreparingInv, DownInv, Preparing
<1> QED BY <1>10, <1>11, <1>12 DEF IInv

(* The new snapshot takes its name. *)
LEMMA ReplaceStep ==
    ASSUME IInv, Replace
    PROVE  IInv'
<1>1. TypeOK /\ RenamingInv /\ memory = served + 1 /\ pc = "replace" /\ pc' = "sync"
  BY DEF IInv, VersionInv, Replace, Called, Preparing
<1>2. UNCHANGED <<memory, content, flushed, served, restarted, loaded>>
  BY DEF Replace, Unrelated
<1>3. Now["tmp"] \in Inodes /\ Whole(Now["tmp"]) /\ Now["tmp"] <= memory
  BY <1>1, NowIsDir DEF RenamingInv, Names
<1>4. PICK d : d = [Now EXCEPT !["path"] = Now["tmp"], !["tmp"] = None]
  OBVIOUS
<1>5. d \in Dir /\ d["path"] = Now["tmp"] /\ d["tmp"] = None
  BY <1>1, <1>3, <1>4, NowIsDir, Numbers DEF Dir, Names
<1>6. Directory(d)
  BY <1>4 DEF Replace
<1>7. Survives(d)
  BY <1>1, <1>3, <1>5, Numbers DEF Survives, Apart, None
<1>8. restarted = "no" => Survives(d) /\ \A k \in DOMAIN dirs : Survives(dirs[k])
  BY <1>1, <1>7 DEF RenamingInv
<1>9. /\ Now' = d /\ dirs' \in Seq(Dir) /\ dirs' # <<>>
      /\ (restarted = "no" => \A k \in DOMAIN dirs : Survives(dirs[k]))'
  BY <1>2, <1>5, <1>6, <1>8, RenameStep
<1>10. TypeOK'
  BY <1>1, <1>2, <1>3, <1>5, <1>9, TypeOf DEF TypeOK
<1>11. RenamingInv'
  BY <1>1, <1>2, <1>3, <1>5, <1>9 DEF RenamingInv, Whole
<1>12. VersionInv' /\ IdleInv' /\ PreparingInv' /\ DownInv'
  BY <1>1, <1>2 DEF VersionInv, IdleInv, PreparingInv, DownInv, Preparing
<1> QED BY <1>10, <1>11, <1>12 DEF IInv

(* The directory is flushed, or is not. *)
LEMMA FlushDirStep ==
    ASSUME IInv, FlushDir
    PROVE  IInv'
<1>1. TypeOK /\ RenamingInv /\ memory = served + 1 /\ pc = "sync" /\ pc' = "idle"
  BY DEF IInv, VersionInv, FlushDir, Called, Preparing
<1>2. /\ UNCHANGED <<memory, content, flushed, loaded>>
      /\ served' = memory /\ restarted' = "no" /\ dirs' = <<Now>>
  BY DEF FlushDir
<1>3. Now["path"] \in Inodes /\ Whole(Now["path"]) /\ Now["tmp"] = None /\ Now["path"] <= memory
  BY <1>1, NowIsDir DEF RenamingInv, Names
<1>4. Now' = Now /\ Now \in Dir /\ dirs' = <<Now'>>
  BY <1>1, <1>2, NowIsDir DEF Now
<1>5. TypeOK'
  <2>1. dirs' \in Seq(Dir) /\ dirs' # <<>>
    BY <1>2, <1>4
  <2> QED BY <1>1, <1>2, <2>1, TypeOf DEF TypeOK
<1>6. Old(Now)'
  BY <1>1, <1>2, <1>3, <1>4, Numbers DEF Old, Whole, Torn
<1>7. IdleInv'
  BY <1>1, <1>2, <1>3, <1>4, <1>6, Numbers DEF IdleInv, Apart, None
<1>8. VersionInv' /\ PreparingInv' /\ RenamingInv' /\ DownInv'
  BY <1>1, <1>2 DEF VersionInv, PreparingInv, RenamingInv, DownInv, Preparing
<1> QED BY <1>5, <1>7, <1>8 DEF IInv

-----------------------------------------------------------------------------
(* Crashes and restarts.                                                    *)

(* A kill leaves everything where it is. *)
LEMMA KillStep ==
    ASSUME ~CrashAgain, IInv, Kill
    PROVE  IInv'
<1>1. TypeOK /\ pc # "down" /\ pc' = "down" /\ (restarted # "copy" \/ pc = "idle")
  BY DEF IInv, Kill
<1>2. UNCHANGED <<memory, dirs, content, flushed, served, restarted, loaded>> /\ Now' = Now
  BY DEF Kill, Unrelated, Now
<1>3. TypeOK'
  BY <1>1, <1>2, TypeOf DEF TypeOK, Dir
<1>4. /\ Now["path"] \in Inodes /\ Now["tmp"] \in Inodes /\ content[Now["path"]] \in Nat
      /\ Now["path"] \in Nat /\ Now["tmp"] \in Nat /\ memory \in Nat /\ served \in Nat
  BY <1>1, NowIsDir, Numbers DEF Names
<1>5. DownInv'
  <2>1. CASE pc = "idle"
    <3>1. memory = served /\ IdleInv /\ restarted \in {"no", "file", "copy"}
      BY <1>1, <2>1 DEF IInv, VersionInv, TypeOK
    <3>2. CASE restarted = "copy"
      BY <1>1, <1>2, <1>4, <2>1, <3>1, <3>2 DEF DownInv, IdleInv
    <3>3. CASE restarted # "copy"
      <4>1. Old(Now) /\ Apart(Now) /\ Now["tmp"] <= memory + 1
            /\ (Now["path"] = None => Now["tmp"] = None /\ dirs = <<Now>>)
        BY <2>1, <3>1, <3>3 DEF IdleInv
      <4>2. dirs = <<Now>> => dirs' = <<Now'>>
        BY <1>2
      <4> QED BY <1>1, <1>2, <1>4, <3>1, <4>1, <4>2 DEF DownInv, Old, Apart
    <3> QED BY <3>2, <3>3
  <2>2. CASE pc \in Preparing
    <3>1. memory = served + 1 /\ Old(Now) /\ Apart(Now) /\ Now["tmp"] # None
          /\ Now["tmp"] <= memory /\ content[Now["tmp"]] \in {Torn, memory}
      BY <1>1, <2>2 DEF IInv, VersionInv, PreparingInv, Preparing
    <3> QED BY <1>1, <1>2, <1>4, <3>1 DEF DownInv, Old, Apart
  <2>3. CASE pc = "replace"
    <3>1. memory = served + 1 /\ Now["path"] = None /\ Whole(Now["tmp"]) /\ Now["tmp"] <= memory
      BY <2>3 DEF IInv, VersionInv, RenamingInv
    <3> QED BY <1>1, <1>2, <1>4, <3>1 DEF DownInv, Whole, Torn
  <2>4. CASE pc = "sync"
    <3>1. memory = served + 1 /\ Now["tmp"] = None /\ Whole(Now["path"]) /\ Now["path"] <= memory
      BY <2>4 DEF IInv, VersionInv, RenamingInv
    <3> QED BY <1>1, <1>2, <1>4, <3>1 DEF DownInv, Whole, Torn, Apart, None
  <2> QED BY <1>1, <2>1, <2>2, <2>3, <2>4 DEF TypeOK, Preparing
<1>6. VersionInv' /\ IdleInv' /\ PreparingInv' /\ RenamingInv'
  BY <1>1 DEF VersionInv, IdleInv, PreparingInv, RenamingInv, Preparing
<1> QED BY <1>3, <1>5, <1>6 DEF IInv

(* The power leaves one of the directories that survive. *)
LEMMA AllSurvive ==
    ASSUME IInv, restarted = "no", pc # "down"
    PROVE  /\ \A k \in DOMAIN dirs : Survives(dirs[k])
           /\ memory \in {served, served + 1}
<1>1. TypeOK
  BY DEF IInv
<1>2. CASE pc = "idle"
  <2>1. memory = served /\ dirs = <<Now>> /\ Apart(Now) /\ Now["tmp"] = None
        /\ Now["path"] <= memory /\ Old(Now)
    BY <1>2 DEF IInv, VersionInv, IdleInv
  <2>2. \A k \in DOMAIN dirs : dirs[k] = Now
    BY <2>1
  <2> QED BY <1>1, <2>1, <2>2, Numbers DEF Survives, Old, None
<1>3. CASE pc \in Preparing
  BY <1>3, PreparedSurvives DEF IInv, VersionInv
<1>4. CASE pc \in {"replace", "sync"}
  BY <1>4 DEF IInv, VersionInv, RenamingInv
<1> QED BY <1>1, <1>2, <1>3, <1>4 DEF TypeOK, Preparing

(* The power goes: what survives is one of the snapshots of the save under *)
(* way.                                                                    *)
LEMMA PowerCutStep ==
    ASSUME ~CrashAgain, IInv, PowerCut
    PROVE  IInv'
<1>1. TypeOK /\ pc # "down" /\ pc' = "down" /\ restarted = "no"
  BY DEF IInv, PowerCut
<1>2. UNCHANGED <<memory, served, restarted, loaded>> /\ flushed' = Inodes
  BY DEF PowerCut, Unrelated
<1>3. PICK k \in 1..Len(dirs) : dirs' = <<dirs[k]>>
  BY DEF PowerCut
<1>4. PICK lost \in SUBSET (Inodes \ flushed) :
          content' = [i \in Inodes |-> IF i \in lost THEN Torn ELSE content[i]]
  BY DEF PowerCut
<1>5. PICK d : d = dirs[k]
  OBVIOUS
<1>6. Survives(d) /\ d \in Dir /\ memory \in {served, served + 1}
  <2>1. k \in DOMAIN dirs
    BY <1>1, <1>3 DEF TypeOK
  <2> QED BY <1>1, <1>5, <2>1, AllSurvive, NowIsDir
<1>7. Now' = d /\ dirs' = <<d>>
  BY <1>3, <1>5, OnlyNow
<1>8. /\ content' \in [Inodes -> 0..MaxVersion]
      /\ \A i \in Inodes : content'[i] = content[i] \/ (i \notin flushed /\ content'[i] = Torn)
  BY <1>1, <1>4, Numbers DEF TypeOK, Torn
<1>9. TypeOK'
  BY <1>1, <1>2, <1>6, <1>7, <1>8, TypeOf DEF TypeOK
<1>10. /\ d["path"] \in Inodes /\ d["tmp"] \in Inodes /\ content[d["path"]] \in Nat
       /\ d["path"] \in Nat /\ d["tmp"] \in Nat /\ memory \in Nat /\ served \in Nat
  BY <1>1, <1>6, Numbers DEF Dir, Names
<1>11. DownInv'
  <2>1. CASE d["path"] = None /\ d["tmp"] # None /\ content'[d["tmp"]] # Torn
    <3>1. content'[d["tmp"]] = memory /\ d["tmp"] <= memory
      BY <1>6, <1>8, <1>10, <2>1 DEF Survives, Old, Whole
    <3> QED BY <1>2, <1>7, <2>1, <3>1 DEF DownInv
  <2>2. CASE d["path"] = None /\ (d["tmp"] = None \/ content'[d["tmp"]] = Torn)
    <3>1. d["prev"] = None /\ served = 0
      BY <1>6, <1>8, <1>10, <2>2 DEF Survives, Old, Whole, Torn
    <3> QED BY <1>2, <1>7, <2>2, <3>1 DEF DownInv
  <2>3. CASE d["path"] # None
    <3>1. PICK v : v = content[d["path"]]
      OBVIOUS
    <3>2. /\ d["path"] \in flushed /\ v # Torn /\ v \in {served, memory}
          /\ d["path"] <= v /\ d["tmp"] <= v + 1 /\ Apart(d)
      BY <1>6, <1>10, <2>3, <3>1 DEF Survives, Old, Whole, Torn, None
    <3>3. content'[d["path"]] = v
      BY <1>8, <1>10, <3>1, <3>2
    <3> QED BY <1>2, <1>7, <1>10, <2>3, <3>2, <3>3 DEF DownInv, Apart
  <2> QED BY <2>1, <2>2, <2>3
<1>12. VersionInv' /\ IdleInv' /\ PreparingInv' /\ RenamingInv'
  BY <1>1 DEF VersionInv, IdleInv, PreparingInv, RenamingInv, Preparing
<1> QED BY <1>9, <1>11, <1>12 DEF IInv

(* What a restart finds. *)
LEMMA FoundIs ==
    ASSUME IInv, Start
    PROVE  \/ /\ Now["path"] # None /\ Readable("path")
              /\ Found = content[Now["path"]] /\ Found \in {served, memory}
           \/ /\ Now["path"] = None /\ Now["tmp"] # None /\ ~Readable("path") /\ Readable("tmp")
              /\ Found = content[Now["tmp"]] /\ Found \in {served, memory}
           \/ /\ \A n \in Names : Now[n] = None
              /\ ~Readable("path") /\ Found = None /\ served = 0 /\ dirs = <<Now>>
<1>1. TypeOK /\ DownInv /\ pc = "down"
  BY DEF IInv, Start
<1>2. CASE Now["path"] # None
  BY <1>1, <1>2 DEF DownInv, Found, Readable, Version
<1>3. CASE Now["path"] = None /\ Now["tmp"] # None /\ content[Now["tmp"]] # Torn
  BY <1>1, <1>3 DEF DownInv, Found, Readable, Version, Torn
<1>4. CASE Now["path"] = None /\ (Now["tmp"] = None \/ content[Now["tmp"]] = Torn)
  <2>1. Now["prev"] = None /\ served = 0 /\ (Now["tmp"] = None => dirs = <<Now>>)
    BY <1>1, <1>4 DEF DownInv
  <2>2. ~Readable("path") /\ ~Readable("tmp") /\ ~Readable("prev")
    BY <1>4, <2>1 DEF Readable, Version, Torn
  <2>3. \A n \in Names : Now[n] = None
    BY <2>2 DEF Start, Names
  <2>4. Found = Torn
    BY <2>1, <2>2 DEF Found, Readable
  <2> QED BY <2>1, <2>2, <2>3, <2>4 DEF Names, Torn, None
<1> QED BY <1>2, <1>3, <1>4

(* The process starts again, from what it finds. *)
LEMMA StartStep ==
    ASSUME IInv, Start
    PROVE  IInv'
<1>1. TypeOK /\ DownInv /\ pc = "down" /\ pc' = "idle"
  BY DEF IInv, Start
<1>2. /\ memory' = Found /\ loaded' = Found /\ served' = Found
      /\ UNCHANGED <<dirs, content, flushed>> /\ Now' = Now
      /\ restarted' = IF Readable("path") THEN "file" ELSE IF Found # None THEN "copy" ELSE "no"
  BY DEF Start, Now
<1>3. PICK v : v = Found
  OBVIOUS
<1>4. v \in 0..MaxVersion /\ v \in Nat
  BY <1>1, <1>3, FoundIs, Numbers DEF TypeOK, None
<1>5. TypeOK'
  BY <1>1, <1>2, <1>3, <1>4 DEF TypeOK
<1>6. /\ Now["path"] \in Nat /\ Now["tmp"] \in Nat /\ dirs' = dirs
  BY <1>1, <1>2, Numbers
<1>7. IdleInv'
  <2>1. CASE Now["path"] # None
    <3>1. Readable("path") /\ v = content[Now["path"]]
      BY <1>3, <2>1, FoundIs DEF Names
    <3>2. /\ Apart(Now) /\ Now["path"] \in flushed /\ v # Torn
          /\ Now["path"] <= v /\ Now["tmp"] <= v + 1
      BY <1>1, <2>1, <3>1 DEF DownInv
    <3> QED BY <1>2, <1>3, <2>1, <3>1, <3>2 DEF IdleInv, Old, Apart
  <2>2. CASE Now["path"] = None /\ Now["tmp"] # None
    <3>1. ~Readable("path") /\ v = content[Now["tmp"]] /\ v # Torn
      BY <1>3, <2>2, FoundIs DEF Readable, Version, Names
    <3>2. Now["tmp"] <= v
      BY <1>1, <2>2, <3>1 DEF DownInv
    <3> QED BY <1>2, <1>3, <1>4, <1>6, <2>2, <3>1, <3>2 DEF IdleInv, Apart, Torn, None
  <2>3. CASE Now["path"] = None /\ Now["tmp"] = None
    <3>1. ~Readable("path") /\ v = None /\ dirs = <<Now>> /\ Now["prev"] = None
      BY <1>3, <2>3, FoundIs DEF Names
    <3>2. dirs' = <<Now'>> /\ restarted' = "no"
      BY <1>2, <1>3, <3>1
    <3> QED BY <1>2, <1>3, <1>6, <2>3, <3>1, <3>2 DEF IdleInv, Apart, Old, None
  <2> QED BY <2>1, <2>2, <2>3
<1>8. VersionInv' /\ PreparingInv' /\ RenamingInv' /\ DownInv'
  BY <1>1, <1>2 DEF VersionInv, PreparingInv, RenamingInv, DownInv, Preparing
<1> QED BY <1>5, <1>7, <1>8 DEF IInv

-----------------------------------------------------------------------------
(* The theorems.                                                            *)

(* The invariant holds at the start. *)
LEMMA InitIsGood == Init => IInv
<1> SUFFICES ASSUME Init PROVE IInv
  OBVIOUS
<1>1. PICK d : d = [n \in Names |-> None]
  OBVIOUS
<1>2. MaxVersion \in Nat /\ None \in Inodes /\ d \in Dir /\ \A n \in Names : d[n] = None
  BY <1>1, StateFileAssumption DEF Dir, Inodes, None
<1>3. dirs = <<d>> /\ Now = d
  BY <1>1 DEF Init, Now
<1>4. TypeOK
  <2>1. dirs \in Seq([Names -> Inodes]) /\ dirs # <<>>
    BY <1>2, <1>3 DEF Dir
  <2>2. content \in [Inodes -> 0..MaxVersion]
    BY <1>2 DEF Init, Torn
  <2> QED BY <1>2, <2>1, <2>2 DEF Init, TypeOK
<1>5. IdleInv
  BY <1>2, <1>3 DEF Init, IdleInv, Apart, Old, Names, None
<1> QED BY <1>4, <1>5 DEF Init, IInv, VersionInv, PreparingInv, RenamingInv, DownInv, Preparing

(* Every step keeps the invariant. *)
LEMMA StepKeeps ==
    ASSUME ~CrashAgain, IInv, [Next]_vars
    PROVE  IInv'
<1>1. CASE UNCHANGED vars
  <2>1. UNCHANGED <<pc, memory, dirs, content, flushed, served, restarted, loaded>> /\ Now' = Now
    BY <1>1 DEF vars, Now
  <2>2. TypeOK'
    BY <2>1 DEF IInv, TypeOK
  <2>3. RenamingInv'
    BY <2>1 DEF IInv, RenamingInv, Survives, Whole, Old, Apart
  <2> QED BY <2>1, <2>2, <2>3
          DEF IInv, VersionInv, IdleInv, PreparingInv, DownInv, Apart, Old
<1> QED BY <1>1, OpenTmpStep, PrepareStep, KeepPrevStep, ReplaceStep, FlushDirStep, KillStep,
           PowerCutStep, StartStep DEF Next

(* The inductive invariant of the state file.                               *)
LEMMA StateFileInvariant == ~CrashAgain => (Spec => []IInv)
<1> SUFFICES ASSUME ~CrashAgain PROVE Spec => []IInv
  OBVIOUS
<1>1. IInv /\ [Next]_vars => IInv'
  BY StepKeeps
<1> QED BY <1>1, InitIsGood, PTL DEF Spec

(* Types, and a write under way has its file.                               *)
THEOREM StateFileTypeCorrect == ~CrashAgain => (Spec => []TypeOK)
<1> SUFFICES ASSUME ~CrashAgain PROVE Spec => []TypeOK
  OBVIOUS
<1> QED BY StateFileInvariant, PTL DEF IInv

(* Kills and power cuts never leave a state file that cannot be read, at    *)
(* whatever call they fall (persist, store.ts).                             *)
THEOREM ReadableCorrect == ~CrashAgain => (Spec => []StateFileReadable)
<1> SUFFICES ASSUME ~CrashAgain PROVE Spec => []StateFileReadable
  OBVIOUS
<1>1. IInv => StateFileReadable
  BY DEF IInv, DownInv, StateFileReadable, Readable, Version
<1> QED BY <1>1, StateFileInvariant, PTL

(* Each restart finds the snapshot the server last answered from or the one *)
(* whose write the crash cut short (persist and loadFirstGood, store.ts).   *)
THEOREM OldOrNewCorrect == ~CrashAgain => (Spec => OldOrNew)
<1> SUFFICES ASSUME ~CrashAgain PROVE Spec => OldOrNew
  OBVIOUS
<1>1. IInv /\ [Next]_vars => [pc = "down" /\ pc' = "idle" => loaded' \in {served, memory}]_vars
  <2> SUFFICES ASSUME IInv, Next, pc = "down", pc' = "idle"
               PROVE  loaded' \in {served, memory}
    OBVIOUS
  <2>1. Start
    BY DEF Next, OpenTmp, WriteTmp, FlushTmp, KeepPrev, Replace, FlushDir, Kill, PowerCut, Called
  <2>2. loaded' = Found
    BY <2>1 DEF Start
  <2> QED BY <2>1, <2>2, FoundIs DEF None
<1> QED BY <1>1, StateFileInvariant, PTL DEF Spec, OldOrNew
=============================================================================
