-------------------------- MODULE ManifestSwapProofs --------------------------
(***************************************************************************)
(* Theorems about ManifestSwap, for any number of downloads, queries,      *)
(* manifests and crashes.                                                  *)
(***************************************************************************)
EXTENDS ManifestSwap, TLAPS

\* Downloads that never overlap: main.go's updater and EnsureReady's callers
\* may start them together, and nothing in Download keeps them apart.
Apart == \A d, e \in Downloads : ~At(d, "idle") /\ ~At(e, "idle") => d = e

HasExtracted == {"lockProvider", "drainQueries", "closeSearch", "drainBuild", "rename"}

\* The files a download goes by are of the version it asked for, which is no
\* older than the installed one.
FilesOfItsVersion(d) ==
    LET x == download[d]
    IN /\ x.pc \notin {"idle", "fetch"} => disk.db <= x.version /\ x.version <= latest
       /\ x.pc = "extract" => disk.zip = x.version
       /\ x.pc \in HasExtracted => disk.tmp = x.version
       /\ x.pc \in {"name", "save"} => disk.db = x.version

LabelsBehindFile == label <= disk.db /\ disk.version <= disk.db /\ disk.db <= latest

\* A build reads the label before it opens the file.
BuildBehindFile ==
    /\ build.pc = "open" => build.version <= disk.db
    /\ build.pc \in {"scan", "commit", "save"} => build.version <= build.file

IInv ==
    /\ \A d \in Downloads : FilesOfItsVersion(d)
    /\ LabelsBehindFile /\ BuildBehindFile /\ IndexNotOlderThanItsVersion

\* What each participant has given up, at each step of a download.
DrainedFor(d) ==
    /\ At(d, "drainQueries") => provider.locked
    /\ download[d].pc \in {"closeSearch", "drainBuild", "rename"} =>
          provider.swapping /\ provider.open = Missing /\ ~provider.locked
    /\ download[d].pc \in {"drainBuild", "rename"} => search.swapping
    /\ At(d, "rename") => ~Building

Drained == \A d \in Downloads : DrainedFor(d)

-----------------------------------------------------------------------------
(* Types. *)

Disk == [db: File, zip: File, tmp: File, version: File, snapshot: Index]
Download == [pc: {"idle", "fetch", "download", "extract", "lockProvider",
                  "drainQueries", "closeSearch", "drainBuild", "rename", "name", "save",
                  "reopenProvider", "reopenSearch", "notify"},
             version: File, installed: BOOLEAN]
Provider == [locked: BOOLEAN, swapping: BOOLEAN, open: File]
Search == [swapping: BOOLEAN, index: Index]
Built == [pc: {"none", "version", "open", "scan", "commit", "save"},
          version: File, file: File, spawned: 0 .. 2]

\* Replacing one field by a value of its type keeps the record's type.
LEMMA DiskReplaced ==
    ASSUME NEW x \in Disk
    PROVE  /\ x.db \in File /\ x.zip \in File /\ x.tmp \in File /\ x.version \in File
           /\ x.snapshot \in Index
           /\ \A v \in File : /\ [x EXCEPT !.db = v] \in Disk /\ [x EXCEPT !.zip = v] \in Disk
                              /\ [x EXCEPT !.tmp = v] \in Disk
                              /\ [x EXCEPT !.version = v] \in Disk
           /\ \A i \in Index : [x EXCEPT !.snapshot = i] \in Disk
BY DEF Disk

\* A download that goes on, fetches or installs is still a download.
LEMMA DownloadReplaced ==
    ASSUME NEW x \in Download
    PROVE  /\ x.version \in File
           /\ [x EXCEPT !.installed = TRUE] \in Download
           /\ \A v \in File : [x EXCEPT !.version = v] \in Download
           /\ \A pc \in {"idle", "fetch", "download", "extract", "lockProvider",
                         "drainQueries", "closeSearch", "drainBuild", "rename", "name", "save",
                         "reopenProvider", "reopenSearch", "notify"} :
                 [x EXCEPT !.pc = pc] \in Download
BY DEF Download

\* The participants' flags and handles likewise.
LEMMA ParticipantReplaced ==
    /\ \A x \in Provider, v \in File, b \in BOOLEAN :
          /\ x.open \in File
          /\ [x EXCEPT !.locked = b] \in Provider /\ [x EXCEPT !.swapping = b] \in Provider
          /\ [x EXCEPT !.open = v] \in Provider
    /\ \A x \in Search, i \in Index, b \in BOOLEAN :
          /\ x.index \in Index
          /\ [x EXCEPT !.swapping = b] \in Search /\ [x EXCEPT !.index = i] \in Search
BY DEF Provider, Search

\* And the build, whichever of its fields move.
LEMMA BuildReplaced ==
    ASSUME NEW x \in Built
    PROVE  /\ x.spawned \in 0 .. 2
           /\ Spawn(x) \in Built /\ Done(x) \in Built
           /\ Spawn(x).pc = x.pc /\ Spawn(x).version = x.version /\ Spawn(x).file = x.file
           /\ Done(x).pc = "none" /\ Done(x).file = Missing
           /\ \A v \in File : /\ [x EXCEPT !.version = v] \in Built
                              /\ [x EXCEPT !.file = v] \in Built
           /\ \A n \in 0 .. 2 : [x EXCEPT !.spawned = n] \in Built
           /\ \A pc \in {"none", "version", "open", "scan", "commit", "save"} :
                 [x EXCEPT !.pc = pc] \in Built
<1> DEFINE PCs == {"none", "version", "open", "scan", "commit", "save"}
<1>0. Missing \in File
  BY DEF File
<1>1. /\ x.spawned \in 0 .. 2
      /\ \A v \in File : [x EXCEPT !.version = v] \in Built /\ [x EXCEPT !.file = v] \in Built
      /\ \A n \in 0 .. 2 : [x EXCEPT !.spawned = n] \in Built
      /\ \A pc \in PCs : [x EXCEPT !.pc = pc] \in Built
  BY DEF Built
<1>2. /\ Spawn(x) \in Built
      /\ Spawn(x).pc = x.pc /\ Spawn(x).version = x.version /\ Spawn(x).file = x.file
  <2>1. PICK n \in 0 .. 2 : Spawn(x) = [x EXCEPT !.spawned = n]
    BY <1>1 DEF Spawn
  <2> QED
    BY <2>1, <1>1 DEF Built
<1>3. Done(x) \in Built /\ Done(x).pc = "none" /\ Done(x).file = Missing
  BY <1>0 DEF Done, Built
<1> QED
  BY <1>1, <1>2, <1>3

Handles == build.file # Missing <=> build.pc \in {"scan", "commit", "save"}

\* Every variable keeps its type.
THEOREM TypeCorrect == Spec => []TypeOK
<1> DEFINE Typed == /\ latest \in Versions /\ disk \in Disk /\ label \in File
                    /\ download \in [Downloads -> Download] /\ provider \in Provider
                    /\ query \in [Queries -> {"idle", "holding", "querying", "orphaned", "failed"}]
                    /\ search \in Search /\ build \in Built /\ Handles
<1>0. TypeOK <=> Typed
  BY DEF TypeOK, Disk, Download, Provider, Search, Built, Handles
<1>1. Init => Typed
  BY SwapAssumption DEF Init, Disk, Download, Provider, Search, Built, Handles, Versions,
                        File, Missing, Index, NoIndex, Idle
<1>2. Typed /\ [Next]_vars => Typed'
  <2> SUFFICES ASSUME Typed, [Next]_vars
               PROVE  Typed'
    OBVIOUS
  <2>0. /\ \A v \in Versions : v \in File /\ v + 1 \in Nat
        /\ Missing \in File /\ Missing \notin Versions
        /\ Idle \in Download /\ NoIndex \in Index
        /\ [locked |-> FALSE, swapping |-> FALSE, open |-> Missing] \in Provider
        /\ [locked |-> FALSE, swapping |-> TRUE, open |-> Missing] \in Provider
        /\ \A i \in Index : [swapping |-> FALSE, index |-> i] \in Search
        /\ \A v, e \in File : [version |-> v, entries |-> e] \in Index
    BY SwapAssumption DEF Versions, File, Missing, Idle, Download, NoIndex, Index, Provider, Search
  <2> USE DEF Handles
  <2>1. ASSUME NEW d \in Downloads, Start(d)
        PROVE  Typed'
    BY <2>0, <2>1, DownloadReplaced DEF Start, At, Goto, Idle
  <2>2. ASSUME NEW d \in Downloads, GetManifest(d)
        PROVE  Typed'
    BY <2>0, <2>2, DownloadReplaced DEF GetManifest, At
  <2>31. ASSUME NEW d \in Downloads, DownloadFileToPath(d)
        PROVE  Typed'
    BY <2>0, <2>31, DownloadReplaced, DiskReplaced DEF DownloadFileToPath, At, Goto
  <2>3. ASSUME NEW d \in Downloads, Extract(d)
        PROVE  Typed'
    BY <2>0, <2>3, DownloadReplaced, DiskReplaced DEF Extract, At, Goto
  <2>4. ASSUME NEW d \in Downloads, Abandon(d)
        PROVE  Typed'
    <3>1. disk' \in Disk
      <4>1. PICK z, t \in File : disk' = [disk EXCEPT !.zip = z, !.tmp = t]
        BY <2>0, <2>4, DiskReplaced DEF Abandon
      <4>2. [disk EXCEPT !.zip = z] \in Disk
        BY DiskReplaced
      <4> QED
        BY <4>1, <4>2, DiskReplaced
    <3> QED
      BY <2>0, <2>4, <3>1 DEF Abandon
  <2>5. ASSUME NEW d \in Downloads, LockProvider(d)
        PROVE  Typed'
    BY <2>0, <2>5, DownloadReplaced, ParticipantReplaced DEF LockProvider, At, Goto
  <2>6. ASSUME NEW d \in Downloads, CloseProvider(d)
        PROVE  Typed'
    BY <2>0, <2>6, DownloadReplaced, ParticipantReplaced DEF CloseProvider, At, Goto
  <2>7. ASSUME NEW d \in Downloads, CloseSearch(d)
        PROVE  Typed'
    BY <2>0, <2>7, DownloadReplaced, ParticipantReplaced DEF CloseSearch, At, Goto
  <2>8. ASSUME NEW d \in Downloads, SearchClosed(d)
        PROVE  Typed'
    BY <2>0, <2>8, DownloadReplaced DEF SearchClosed, At, Goto, Building
  <2>9. ASSUME NEW d \in Downloads, Rename(d)
        PROVE  Typed'
    BY <2>0, <2>9, DownloadReplaced, DiskReplaced DEF Rename, At
  <2>10. ASSUME NEW d \in Downloads, RenameFails(d)
        PROVE  Typed'
    BY <2>0, <2>10, DownloadReplaced DEF RenameFails, At, Goto
  <2>11. ASSUME NEW d \in Downloads, Name(d)
        PROVE  Typed'
    BY <2>0, <2>11, DownloadReplaced, DiskReplaced DEF Name, At, Goto
  <2>12. ASSUME NEW d \in Downloads, SaveVersion(d)
        PROVE  Typed'
    <3>1. disk' \in Disk
      <4>1. download[d].version \in File /\ disk.version \in File
        BY DownloadReplaced, DiskReplaced
      <4>2. PICK v \in File : disk' = [disk EXCEPT !.version = v]
        BY <2>0, <2>12, <4>1 DEF SaveVersion
      <4> QED
        BY <4>2, DiskReplaced
    <3>2. [download[d] EXCEPT !.pc = "reopenProvider"] \in Download
      BY DownloadReplaced
    <3> QED
      BY <2>12, <3>1, <3>2 DEF SaveVersion, Goto
  <2>13. ASSUME NEW d \in Downloads, ReopenProvider(d)
        PROVE  Typed'
    <3>1. provider' \in Provider
      <4>1. [provider EXCEPT !.swapping = FALSE] \in Provider
        BY ParticipantReplaced
      <4>2. disk.db \in File
        BY DiskReplaced
      <4>3. [provider EXCEPT !.swapping = FALSE, !.open = disk.db] \in Provider
        BY <4>1, <4>2, ParticipantReplaced
      <4> QED
        BY <2>13, <4>1, <4>3 DEF ReopenProvider
    <3> QED
      BY <2>13, <3>1, DownloadReplaced DEF ReopenProvider, Goto
  <2>14. ASSUME NEW d \in Downloads, ReopenSearch(d)
        PROVE  Typed'
    <3>1. search' \in Search
      BY <2>0, <2>14, ParticipantReplaced DEF ReopenSearch
    <3>2. [disk EXCEPT !.zip = Missing, !.tmp = Missing] \in Disk
      <4>1. [disk EXCEPT !.zip = Missing] \in Disk
        BY <2>0, DiskReplaced
      <4> QED
        BY <2>0, <4>1, DiskReplaced
    <3> QED
      <4>1. disk' \in Disk
        BY <2>14, <3>2 DEF ReopenSearch
      <4>2. download' \in [Downloads -> Download]
        <5>1. \/ download' = [download EXCEPT ![d].pc = "notify"]
              \/ download' = [download EXCEPT ![d] = Idle]
          BY <2>14 DEF ReopenSearch, Goto
        <5> QED
          <6>1. [download[d] EXCEPT !.pc = "notify"] \in Download
            BY <2>14, DownloadReplaced
          <6>2. \A x \in Download : [download EXCEPT ![d] = x] \in [Downloads -> Download]
            BY <2>14
          <6> QED
            BY <2>0, <5>1, <6>1, <6>2
      <4> QED
        BY <2>14, <3>1, <4>1, <4>2 DEF ReopenSearch
  <2>15. ASSUME NEW d \in Downloads, Notify(d)
        PROVE  Typed'
    BY <2>0, <2>15, DownloadReplaced, DiskReplaced, BuildReplaced DEF Notify, At, Idle
  <2>16. ASSUME NEW q \in Queries, Get(q)
        PROVE  Typed'
    BY <2>0, <2>16, DiskReplaced, ParticipantReplaced DEF Get
  <2>17. ASSUME NEW q \in Queries, StartQuery(q)
        PROVE  Typed'
    BY <2>0, <2>17 DEF StartQuery
  <2>18. ASSUME NEW q \in Queries, QueryClosed(q)
        PROVE  Typed'
    BY <2>0, <2>18 DEF QueryClosed
  <2>19. ASSUME NEW q \in Queries, EndQuery(q)
        PROVE  Typed'
    BY <2>0, <2>19 DEF EndQuery
  <2>20. CASE Publish
    BY <2>20, SwapAssumption DEF Publish, Versions
  <2>21. CASE BeginBuild
    <3>1. PICK n \in 0 .. 2, pc \in {"none", "version", "open", "scan", "commit", "save"} :
             /\ build' = [build EXCEPT !.spawned = n, !.pc = pc]
             /\ pc = build.pc \/ (pc = "version" /\ build.pc = "none")
      <4> DEFINE pc == IF Building \/ search.swapping THEN build.pc ELSE "version"
      <4>1. build.spawned > 0 /\ build' = [build EXCEPT !.spawned = build.spawned - 1, !.pc = pc]
        BY <2>21 DEF BeginBuild
      <4>2. build.spawned \in 0 .. 2
        BY BuildReplaced
      <4>3. build.spawned - 1 \in 0 .. 2
        BY <4>1, <4>2
      <4>4. pc \in {"none", "version", "open", "scan", "commit", "save"}
        BY DEF Built
      <4>5. pc = build.pc \/ (pc = "version" /\ build.pc = "none")
        BY DEF Building
      <4> HIDE DEF pc
      <4> QED
        BY <4>1, <4>3, <4>4, <4>5
    <3> DEFINE spawned == [build EXCEPT !.spawned = n]
    <3>2. spawned \in Built /\ spawned.file = build.file
      BY BuildReplaced DEF Built
    <3>3. build' = [spawned EXCEPT !.pc = pc]
      BY <3>1
    <3> HIDE DEF spawned
    <3>4. build' \in Built /\ build'.pc = pc /\ build'.file = build.file
      BY <3>2, <3>3, BuildReplaced DEF Built
    <3> QED
      BY <2>21, <3>1, <3>4 DEF BeginBuild, BuildUnchanged
  <2>22. CASE ReadVersion
    <3> DEFINE named == [build EXCEPT !.version = label]
               next == [build EXCEPT !.pc = "open", !.version = label]
    <3>1. next = [named EXCEPT !.pc = "open"] /\ named \in Built
      BY BuildReplaced
    <3>4. named.file = build.file
      BY DEF Built
    <3> HIDE DEF named
    <3>2. next \in Built /\ next.pc = "open" /\ next.file = build.file
      BY <3>1, <3>4, BuildReplaced DEF Built
    <3>3. build' \in {next, Done(build)} /\ build.pc = "version"
      BY <2>22 DEF ReadVersion
    <3> HIDE DEF next
    <3> QED
      <4>1. build' \in Built /\ Handles'
        BY <3>2, <3>3, BuildReplaced
      <4> QED
        BY <2>22, <4>1 DEF ReadVersion, BuildUnchanged
  <2>23. CASE OpenDatabase
    <3> DEFINE opened == [build EXCEPT !.file = disk.db]
               next == [build EXCEPT !.pc = "scan", !.file = disk.db]
    <3>1. next = [opened EXCEPT !.pc = "scan"] /\ opened \in Built
      BY BuildReplaced, DiskReplaced
    <3>4. opened.file = disk.db
      BY DEF Built
    <3> HIDE DEF opened
    <3>2. next \in Built /\ next.pc = "scan" /\ next.file = disk.db
      BY <3>1, <3>4, BuildReplaced DEF Built
    <3>3. build' = Done(build) \/ (build' = next /\ disk.db # Missing)
      BY <2>23 DEF OpenDatabase
    <3> HIDE DEF next
    <3> QED
      <4>1. build' \in Built /\ Handles'
        BY <3>2, <3>3, BuildReplaced
      <4> QED
        BY <2>23, <4>1 DEF OpenDatabase, BuildUnchanged
  <2>24. CASE AbortScan
    BY <2>0, <2>24, BuildReplaced DEF AbortScan, BuildUnchanged
  <2>25. CASE EndScan
    <3>1. build' \in Built /\ build'.pc = "commit" /\ build'.file = build.file
      <4>1. build' = [build EXCEPT !.pc = "commit"]
        BY <2>25 DEF EndScan, BuildGoto
      <4>2. build' \in Built
        BY <4>1, BuildReplaced
      <4> QED
        BY <4>1, <4>2 DEF Built
    <3> QED
      BY <2>25, <3>1 DEF EndScan, BuildUnchanged
  <2>26. CASE Commit
    <3>1. build' \in Built /\ build'.pc = "save" /\ build'.file = build.file
      <4>1. build' = [build EXCEPT !.pc = "save"]
        BY <2>26 DEF Commit, BuildGoto
      <4>2. build' \in Built
        BY <4>1, BuildReplaced
      <4> QED
        BY <4>1, <4>2 DEF Built
    <3>2. [version |-> build.version, entries |-> build.file] \in Index
      BY <2>0 DEF Built
    <3>3. search' \in Search
      BY <2>26, <3>2, ParticipantReplaced DEF Commit
    <3> QED
      BY <2>26, <3>1, <3>3 DEF Commit, BuildUnchanged
  <2>27. CASE SaveSnapshot
    <3>1. [disk EXCEPT !.snapshot = search.index] \in Disk
      BY ParticipantReplaced, DiskReplaced
    <3>2. disk' \in Disk
      BY <2>27, <3>1 DEF SaveSnapshot
    <3> QED
      BY <2>27, <3>2, BuildReplaced DEF SaveSnapshot, BuildUnchanged
  <2>28. CASE EnsureIndex
    BY <2>0, <2>28, BuildReplaced DEF EnsureIndex, Building, BuildUnchanged
  <2>29. CASE Crash
    <3>1. search' \in Search
      <4>1. disk.snapshot \in Index
        BY DiskReplaced
      <4> QED
        BY <2>0, <2>29, <4>1 DEF Crash
    <3>2. build' \in Built /\ Handles'
      <4>1. PICK b \in Built : b = Done(build) /\ b.pc = "none" /\ b.file = Missing
        BY BuildReplaced
      <4>2. [b EXCEPT !.spawned = 1] \in Built
        <5>1. 1 \in 0 .. 2
          OBVIOUS
        <5> QED
          BY <5>1, BuildReplaced
      <4>3. [b EXCEPT !.spawned = 1].pc = "none" /\ [b EXCEPT !.spawned = 1].file = Missing
        BY <4>1 DEF Built
      <4> QED
        BY <2>29, <4>1, <4>2, <4>3 DEF Crash
    <3> QED
      BY <2>0, <2>29, <3>1, <3>2, DiskReplaced DEF Crash
  <2>30. CASE UNCHANGED vars
    BY <2>0, <2>30 DEF vars
  <2> QED
    BY <2>1, <2>2, <2>3, <2>4, <2>5, <2>6, <2>7, <2>8, <2>9, <2>10, <2>11, <2>12, <2>13,
       <2>14, <2>15, <2>16, <2>17, <2>18, <2>19, <2>20, <2>21, <2>22, <2>23, <2>24, <2>25,
       <2>26, <2>27, <2>28, <2>29, <2>30, <2>31
       DEF Next, Swap, Query, Build
<1> QED
  BY <1>0, <1>1, <1>2, PTL DEF Spec

\* The records, field by field, and the numbers in them.
LEMMA Fields ==
    ASSUME TypeOK
    PROVE  /\ disk = [db |-> disk.db, zip |-> disk.zip, tmp |-> disk.tmp,
                      version |-> disk.version, snapshot |-> disk.snapshot]
           /\ build = [pc |-> build.pc, version |-> build.version, file |-> build.file,
                       spawned |-> build.spawned]
           /\ search = [swapping |-> search.swapping, index |-> search.index]
           /\ download = [d \in Downloads |-> download[d]]
           /\ \A d \in Downloads :
                 /\ download[d] = [pc |-> download[d].pc, version |-> download[d].version,
                                   installed |-> download[d].installed]
                 /\ download[d].version \in Nat
           /\ latest \in Nat /\ label \in Nat /\ build.version \in Nat /\ build.file \in Nat
           /\ disk.db \in Nat /\ disk.zip \in Nat /\ disk.tmp \in Nat /\ disk.version \in Nat
           /\ search.index.version \in Nat /\ search.index.entries \in Nat
           /\ disk.snapshot.version \in Nat /\ disk.snapshot.entries \in Nat
<1>1. \A v \in File : v \in Nat
  BY SwapAssumption DEF File, Versions, Missing
<1>2. latest \in Nat
  BY DEF TypeOK, Versions
<1> QED
  BY <1>1, <1>2 DEF TypeOK, Index

\* While one download runs, the files are of the version it asked for, and a
\* step of it asks nothing of the others.
LEMMA OneDownload ==
    ASSUME Apart, NEW d \in Downloads, ~At(d, "idle"),
           \A e \in Downloads \ {d} : download'[e] = download[e],
           FilesOfItsVersion(d)'
    PROVE  \A e \in Downloads : FilesOfItsVersion(e)'
<1>1. \A e \in Downloads \ {d} : download'[e].pc = "idle"
  BY DEF Apart, At
<1>2. \A e \in Downloads \ {d} : FilesOfItsVersion(e)'
  BY <1>1 DEF FilesOfItsVersion, HasExtracted
<1> QED
  BY <1>2

\* The strengthening is preserved by every step of downloads that do not
\* overlap: only those of one download and of the build move the numbers.
LEMMA OrderedSteps ==
    ASSUME TypeOK, Apart, IInv, [Next]_vars, Apart'
    PROVE  IInv'
<1> USE DEF IInv
<1> DEFINE Behind == LabelsBehindFile /\ BuildBehindFile /\ IndexNotOlderThanItsVersion
<1>1. ASSUME NEW d \in Downloads, Start(d)
      PROVE  IInv'
  <2>1. \A e \in Downloads : download'[e].pc \in {"idle", "fetch"}
    <3>1. ~At(d, "idle")' /\ At(d, "fetch")'
      BY Fields, <1>1 DEF Start, At, Goto
    <3> QED
      BY <3>1 DEF Apart, At
  <2>2. Behind'
    BY Fields, <1>1 DEF Start, LabelsBehindFile, BuildBehindFile, IndexNotOlderThanItsVersion
  <2> QED
    BY <2>1, <2>2 DEF FilesOfItsVersion, HasExtracted, Missing
<1>2. ASSUME NEW d \in Downloads, GetManifest(d)
      PROVE  IInv'
  <2>1. /\ ~At(d, "idle")
        /\ \A e \in Downloads \ {d} : download'[e] = download[e]
    BY Fields, <1>2 DEF GetManifest, At
  <2>2. FilesOfItsVersion(d)'
    BY Fields, <1>2 DEF GetManifest, At, FilesOfItsVersion, HasExtracted, LabelsBehindFile, Missing
  <2>3. Behind'
    BY Fields, <1>2 DEF GetManifest, At, FilesOfItsVersion, LabelsBehindFile, BuildBehindFile,
                    IndexNotOlderThanItsVersion, Missing
  <2> QED
    BY <2>1, <2>2, <2>3, OneDownload
<1>3. ASSUME NEW d \in Downloads, DownloadFileToPath(d)
      PROVE  IInv'
  <2>1. /\ ~At(d, "idle")
        /\ \A e \in Downloads \ {d} : download'[e] = download[e]
    BY Fields, <1>3 DEF DownloadFileToPath, At, Goto
  <2>2. FilesOfItsVersion(d)'
    BY Fields, <1>3 DEF DownloadFileToPath, At, Goto, FilesOfItsVersion, HasExtracted, LabelsBehindFile, Missing
  <2>3. Behind'
    BY Fields, <1>3 DEF DownloadFileToPath, At, Goto, FilesOfItsVersion, LabelsBehindFile, BuildBehindFile,
                    IndexNotOlderThanItsVersion, Missing
  <2> QED
    BY <2>1, <2>2, <2>3, OneDownload
<1>4. ASSUME NEW d \in Downloads, Extract(d)
      PROVE  IInv'
  <2>1. /\ ~At(d, "idle")
        /\ \A e \in Downloads \ {d} : download'[e] = download[e]
    BY Fields, <1>4 DEF Extract, At, Goto
  <2>2. FilesOfItsVersion(d)'
    BY Fields, <1>4 DEF Extract, At, Goto, FilesOfItsVersion, HasExtracted, LabelsBehindFile, Missing
  <2>3. Behind'
    BY Fields, <1>4 DEF Extract, At, Goto, FilesOfItsVersion, LabelsBehindFile, BuildBehindFile,
                    IndexNotOlderThanItsVersion, Missing
  <2> QED
    BY <2>1, <2>2, <2>3, OneDownload
<1>5. ASSUME NEW d \in Downloads, Abandon(d)
      PROVE  IInv'
  <2>1. /\ ~At(d, "idle")
        /\ \A e \in Downloads \ {d} : download'[e] = download[e]
    BY Fields, <1>5 DEF Abandon, At, Idle
  <2>2. FilesOfItsVersion(d)'
    BY Fields, <1>5 DEF Abandon, At, Idle, FilesOfItsVersion, HasExtracted, LabelsBehindFile, Missing
  <2>3. Behind'
    BY Fields, <1>5 DEF Abandon, At, Idle, FilesOfItsVersion, LabelsBehindFile, BuildBehindFile,
                    IndexNotOlderThanItsVersion, Missing
  <2> QED
    BY <2>1, <2>2, <2>3, OneDownload
<1>6. ASSUME NEW d \in Downloads, LockProvider(d)
      PROVE  IInv'
  <2>1. /\ ~At(d, "idle")
        /\ \A e \in Downloads \ {d} : download'[e] = download[e]
    BY Fields, <1>6 DEF LockProvider, At, Goto
  <2>2. FilesOfItsVersion(d)'
    BY Fields, <1>6 DEF LockProvider, At, Goto, FilesOfItsVersion, HasExtracted, LabelsBehindFile, Missing
  <2>3. Behind'
    BY Fields, <1>6 DEF LockProvider, At, Goto, FilesOfItsVersion, LabelsBehindFile, BuildBehindFile,
                    IndexNotOlderThanItsVersion, Missing
  <2> QED
    BY <2>1, <2>2, <2>3, OneDownload
<1>7. ASSUME NEW d \in Downloads, CloseProvider(d)
      PROVE  IInv'
  <2>1. /\ ~At(d, "idle")
        /\ \A e \in Downloads \ {d} : download'[e] = download[e]
    BY Fields, <1>7 DEF CloseProvider, At, Goto
  <2>2. FilesOfItsVersion(d)'
    BY Fields, <1>7 DEF CloseProvider, At, Goto, FilesOfItsVersion, HasExtracted, LabelsBehindFile, Missing
  <2>3. Behind'
    BY Fields, <1>7 DEF CloseProvider, At, Goto, FilesOfItsVersion, LabelsBehindFile, BuildBehindFile,
                    IndexNotOlderThanItsVersion, Missing
  <2> QED
    BY <2>1, <2>2, <2>3, OneDownload
<1>8. ASSUME NEW d \in Downloads, CloseSearch(d)
      PROVE  IInv'
  <2>1. /\ ~At(d, "idle")
        /\ \A e \in Downloads \ {d} : download'[e] = download[e]
    BY Fields, <1>8 DEF CloseSearch, At, Goto
  <2>2. FilesOfItsVersion(d)'
    BY Fields, <1>8 DEF CloseSearch, At, Goto, FilesOfItsVersion, HasExtracted, LabelsBehindFile, Missing
  <2>3. Behind'
    BY Fields, <1>8 DEF CloseSearch, At, Goto, FilesOfItsVersion, LabelsBehindFile, BuildBehindFile,
                    IndexNotOlderThanItsVersion, Missing
  <2> QED
    BY <2>1, <2>2, <2>3, OneDownload
<1>9. ASSUME NEW d \in Downloads, SearchClosed(d)
      PROVE  IInv'
  <2>1. /\ ~At(d, "idle")
        /\ \A e \in Downloads \ {d} : download'[e] = download[e]
    BY Fields, <1>9 DEF SearchClosed, At, Goto
  <2>2. FilesOfItsVersion(d)'
    BY Fields, <1>9 DEF SearchClosed, At, Goto, FilesOfItsVersion, HasExtracted, LabelsBehindFile, Missing
  <2>3. Behind'
    BY Fields, <1>9 DEF SearchClosed, At, Goto, FilesOfItsVersion, LabelsBehindFile, BuildBehindFile,
                    IndexNotOlderThanItsVersion, Missing
  <2> QED
    BY <2>1, <2>2, <2>3, OneDownload
<1>10. ASSUME NEW d \in Downloads, Rename(d)
      PROVE  IInv'
  <2>1. /\ ~At(d, "idle")
        /\ \A e \in Downloads \ {d} : download'[e] = download[e]
    BY Fields, <1>10 DEF Rename, At
  <2>2. FilesOfItsVersion(d)'
    BY Fields, <1>10 DEF Rename, At, FilesOfItsVersion, HasExtracted, LabelsBehindFile, Missing
  <2>3. Behind'
    <3>1. FilesOfItsVersion(d) /\ download[d].pc = "rename"
      BY <1>10 DEF Rename, At
    <3>2. disk.db <= disk'.db /\ disk'.db <= latest
      BY Fields, <1>10, <3>1 DEF Rename, FilesOfItsVersion, HasExtracted
    <3>3. /\ disk'.db \in Nat /\ disk'.version = disk.version /\ disk'.snapshot = disk.snapshot
          /\ UNCHANGED <<latest, label, build, search>>
      BY Fields, <1>10 DEF Rename
    <3> QED
      BY Fields, <3>2, <3>3 DEF LabelsBehindFile, BuildBehindFile, IndexNotOlderThanItsVersion
  <2> QED
    BY <2>1, <2>2, <2>3, OneDownload
<1>11. ASSUME NEW d \in Downloads, RenameFails(d)
      PROVE  IInv'
  <2>1. /\ ~At(d, "idle")
        /\ \A e \in Downloads \ {d} : download'[e] = download[e]
    BY Fields, <1>11 DEF RenameFails, At, Goto
  <2>2. FilesOfItsVersion(d)'
    BY Fields, <1>11 DEF RenameFails, At, Goto, FilesOfItsVersion, HasExtracted, LabelsBehindFile, Missing
  <2>3. Behind'
    BY Fields, <1>11 DEF RenameFails, At, Goto, FilesOfItsVersion, LabelsBehindFile, BuildBehindFile,
                    IndexNotOlderThanItsVersion, Missing
  <2> QED
    BY <2>1, <2>2, <2>3, OneDownload
<1>12. ASSUME NEW d \in Downloads, Name(d)
      PROVE  IInv'
  <2>1. /\ ~At(d, "idle")
        /\ \A e \in Downloads \ {d} : download'[e] = download[e]
    BY Fields, <1>12 DEF Name, At, Goto
  <2>2. FilesOfItsVersion(d)'
    BY Fields, <1>12 DEF Name, At, Goto, FilesOfItsVersion, HasExtracted, LabelsBehindFile, Missing
  <2>3. Behind'
    BY Fields, <1>12 DEF Name, At, Goto, FilesOfItsVersion, LabelsBehindFile, BuildBehindFile,
                    IndexNotOlderThanItsVersion, Missing
  <2> QED
    BY <2>1, <2>2, <2>3, OneDownload
<1>13. ASSUME NEW d \in Downloads, SaveVersion(d)
      PROVE  IInv'
  <2>1. /\ ~At(d, "idle")
        /\ \A e \in Downloads \ {d} : download'[e] = download[e]
    BY Fields, <1>13 DEF SaveVersion, At, Goto
  <2>2. FilesOfItsVersion(d)'
    BY Fields, <1>13 DEF SaveVersion, At, Goto, FilesOfItsVersion, HasExtracted, LabelsBehindFile, Missing
  <2>3. Behind'
    BY Fields, <1>13 DEF SaveVersion, At, Goto, FilesOfItsVersion, LabelsBehindFile, BuildBehindFile,
                    IndexNotOlderThanItsVersion, Missing
  <2> QED
    BY <2>1, <2>2, <2>3, OneDownload
<1>14. ASSUME NEW d \in Downloads, ReopenProvider(d)
      PROVE  IInv'
  <2>1. /\ ~At(d, "idle")
        /\ \A e \in Downloads \ {d} : download'[e] = download[e]
    BY Fields, <1>14 DEF ReopenProvider, At, Goto
  <2>2. FilesOfItsVersion(d)'
    BY Fields, <1>14 DEF ReopenProvider, At, Goto, FilesOfItsVersion, HasExtracted, LabelsBehindFile, Missing
  <2>3. Behind'
    BY Fields, <1>14 DEF ReopenProvider, At, Goto, FilesOfItsVersion, LabelsBehindFile, BuildBehindFile,
                    IndexNotOlderThanItsVersion, Missing
  <2> QED
    BY <2>1, <2>2, <2>3, OneDownload
<1>15. ASSUME NEW d \in Downloads, ReopenSearch(d)
      PROVE  IInv'
  <2>1. /\ ~At(d, "idle")
        /\ \A e \in Downloads \ {d} : download'[e] = download[e]
    BY Fields, <1>15 DEF ReopenSearch, At, Goto, Idle
  <2>2. FilesOfItsVersion(d)'
    BY Fields, <1>15 DEF ReopenSearch, At, Goto, Idle, FilesOfItsVersion, HasExtracted, LabelsBehindFile, Missing
  <2>3. Behind'
    BY Fields, <1>15 DEF ReopenSearch, At, Goto, Idle, FilesOfItsVersion, LabelsBehindFile, BuildBehindFile,
                    IndexNotOlderThanItsVersion, Missing
  <2> QED
    BY <2>1, <2>2, <2>3, OneDownload
<1>16. ASSUME NEW d \in Downloads, Notify(d)
      PROVE  IInv'
  <2>1. /\ ~At(d, "idle")
        /\ \A e \in Downloads \ {d} : download'[e] = download[e]
    BY Fields, <1>16 DEF Notify, At, Idle, Spawn
  <2>2. FilesOfItsVersion(d)'
    BY Fields, <1>16 DEF Notify, At, Idle, Spawn, FilesOfItsVersion, HasExtracted, LabelsBehindFile, Missing
  <2>3. Behind'
    BY Fields, <1>16 DEF Notify, At, Idle, Spawn, FilesOfItsVersion, LabelsBehindFile, BuildBehindFile,
                    IndexNotOlderThanItsVersion, Missing
  <2> QED
    BY <2>1, <2>2, <2>3, OneDownload
<1>17. ASSUME NEW q \in Queries, Get(q)
      PROVE  IInv'
  BY Fields, <1>17 DEF Get, FilesOfItsVersion, HasExtracted, LabelsBehindFile, BuildBehindFile,
                IndexNotOlderThanItsVersion
<1>18. ASSUME NEW q \in Queries, StartQuery(q)
      PROVE  IInv'
  BY Fields, <1>18 DEF StartQuery, FilesOfItsVersion, HasExtracted, LabelsBehindFile, BuildBehindFile,
                IndexNotOlderThanItsVersion
<1>19. ASSUME NEW q \in Queries, QueryClosed(q)
      PROVE  IInv'
  BY Fields, <1>19 DEF QueryClosed, FilesOfItsVersion, HasExtracted, LabelsBehindFile, BuildBehindFile,
                IndexNotOlderThanItsVersion
<1>20. ASSUME NEW q \in Queries, EndQuery(q)
      PROVE  IInv'
  BY Fields, <1>20 DEF EndQuery, FilesOfItsVersion, HasExtracted, LabelsBehindFile, BuildBehindFile,
                IndexNotOlderThanItsVersion
<1>21. CASE Publish
  BY Fields, <1>21 DEF Publish, FilesOfItsVersion, HasExtracted, LabelsBehindFile,
                BuildBehindFile, IndexNotOlderThanItsVersion, Missing
<1>22. CASE BeginBuild
  BY Fields, <1>22 DEF BeginBuild, BuildUnchanged, FilesOfItsVersion, HasExtracted, LabelsBehindFile,
                BuildBehindFile, IndexNotOlderThanItsVersion, Missing
<1>23. CASE ReadVersion
  BY Fields, <1>23 DEF ReadVersion, Done, BuildUnchanged, FilesOfItsVersion, HasExtracted, LabelsBehindFile,
                BuildBehindFile, IndexNotOlderThanItsVersion, Missing
<1>24. CASE OpenDatabase
  BY Fields, <1>24 DEF OpenDatabase, Done, BuildUnchanged, FilesOfItsVersion, HasExtracted, LabelsBehindFile,
                BuildBehindFile, IndexNotOlderThanItsVersion, Missing
<1>25. CASE AbortScan
  BY Fields, <1>25 DEF AbortScan, Done, BuildUnchanged, FilesOfItsVersion, HasExtracted, LabelsBehindFile,
                BuildBehindFile, IndexNotOlderThanItsVersion, Missing
<1>26. CASE EndScan
  BY Fields, <1>26 DEF EndScan, BuildGoto, BuildUnchanged, FilesOfItsVersion, HasExtracted, LabelsBehindFile,
                BuildBehindFile, IndexNotOlderThanItsVersion, Missing
<1>27. CASE Commit
  BY Fields, <1>27 DEF Commit, BuildGoto, BuildUnchanged, FilesOfItsVersion, HasExtracted, LabelsBehindFile,
                BuildBehindFile, IndexNotOlderThanItsVersion, Missing
<1>28. CASE SaveSnapshot
  BY Fields, <1>28 DEF SaveSnapshot, Done, BuildUnchanged, FilesOfItsVersion, HasExtracted, LabelsBehindFile,
                BuildBehindFile, IndexNotOlderThanItsVersion, Missing
<1>29. CASE EnsureIndex
  BY Fields, <1>29 DEF EnsureIndex, Spawn, BuildUnchanged, FilesOfItsVersion, HasExtracted, LabelsBehindFile,
                BuildBehindFile, IndexNotOlderThanItsVersion, Missing
<1>30. CASE Crash
  BY Fields, <1>30 DEF Crash, Idle, Done, NoIndex, FilesOfItsVersion, HasExtracted, LabelsBehindFile,
                BuildBehindFile, IndexNotOlderThanItsVersion, Missing
<1>31. CASE UNCHANGED vars
  BY Fields, <1>31 DEF vars, FilesOfItsVersion, HasExtracted, LabelsBehindFile,
                BuildBehindFile, IndexNotOlderThanItsVersion, Missing
<1> QED
  BY <1>1, <1>2, <1>3, <1>4, <1>5, <1>6, <1>7, <1>8, <1>9, <1>10, <1>11, <1>12, <1>13,
     <1>14, <1>15, <1>16, <1>17, <1>18, <1>19, <1>20, <1>21, <1>22, <1>23, <1>24, <1>25,
     <1>26, <1>27, <1>28, <1>29, <1>30, <1>31
     DEF Next, Swap, Query, Build

\* The strengthening is an invariant of downloads that do not overlap.
LEMMA Ordered == Spec /\ []Apart => []IInv
<1>1. Init => IInv
  BY DEF Init, IInv, FilesOfItsVersion, LabelsBehindFile, BuildBehindFile,
         IndexNotOlderThanItsVersion, Idle, NoIndex, Missing, HasExtracted
<1>2. TypeOK /\ Apart /\ IInv /\ [Next]_vars /\ Apart' => IInv'
  BY OrderedSteps
<1> QED
  BY <1>1, <1>2, TypeCorrect, PTL DEF Spec

\* While no two downloads overlap, an update is never forgotten, whatever fails
\* or crashes: the file is never older than its label, nor newer than what
\* Bungie has published.  Overlapping ones exchange their temporary files, and
\* one may name an old file by the latest version.
THEOREM UpdatesRemembered == Spec /\ []Apart => []UpdateNeverForgotten
<1>1. TypeOK /\ IInv => UpdateNeverForgotten
  BY Fields DEF IInv, LabelsBehindFile, UpdateNeverForgotten
<1> QED
  BY <1>1, TypeCorrect, Ordered, PTL

\* While no two downloads overlap, an index is never older than its version
\* says, in memory or on disk, although a build reads the label and opens the
\* file in two steps.
THEOREM IndexNotOlder == Spec /\ []Apart => []IndexNotOlderThanItsVersion
<1>1. IInv => IndexNotOlderThanItsVersion
  BY DEF IInv
<1> QED
  BY <1>1, Ordered, PTL

-----------------------------------------------------------------------------
(* Handles. *)

\* While one download runs, nothing is asked of the others.
LEMMA OthersIdle ==
    ASSUME Apart, NEW d \in Downloads, ~At(d, "idle"),
           \A e \in Downloads \ {d} : download'[e] = download[e]
    PROVE  \A e \in Downloads \ {d} : DrainedFor(e)'
BY DEF Apart, At, DrainedFor

\* Downloads that do not overlap drain the participants one by one, and keep
\* them drained until the rename.
LEMMA DrainedSteps ==
    ASSUME TypeOK, Apart, Drained, [Next]_vars, Apart'
    PROVE  Drained'
<1>0. ASSUME NEW d \in Downloads, Start(d)
      PROVE  Drained'
  <2>1. At(d, "fetch")' /\ ~At(d, "idle")'
    BY Fields, <1>0 DEF Start, At, Goto
  <2>2. \A e \in Downloads \ {d} : At(e, "idle")'
    BY <2>1 DEF Apart
  <2> QED
    BY <2>1, <2>2 DEF Drained, DrainedFor, At
<1>1. ASSUME NEW d \in Downloads, GetManifest(d)
      PROVE  Drained'
  <2>1. /\ ~At(d, "idle")
        /\ \A e \in Downloads \ {d} : download'[e] = download[e]
    BY Fields, <1>1 DEF GetManifest, At
  <2>2. DrainedFor(d)'
    BY Fields, <1>1 DEF GetManifest, At, Drained, DrainedFor
  <2> QED
    BY <2>1, <2>2, OthersIdle DEF Drained
<1>30. ASSUME NEW d \in Downloads, DownloadFileToPath(d)
      PROVE  Drained'
  <2>1. /\ ~At(d, "idle")
        /\ \A e \in Downloads \ {d} : download'[e] = download[e]
    BY Fields, <1>30 DEF DownloadFileToPath, At, Goto
  <2>2. DrainedFor(d)'
    BY Fields, <1>30 DEF DownloadFileToPath, At, Goto, Drained, DrainedFor
  <2> QED
    BY <2>1, <2>2, OthersIdle DEF Drained
<1>2. ASSUME NEW d \in Downloads, Extract(d)
      PROVE  Drained'
  <2>1. /\ ~At(d, "idle")
        /\ \A e \in Downloads \ {d} : download'[e] = download[e]
    BY Fields, <1>2 DEF Extract, At, Goto
  <2>2. DrainedFor(d)'
    BY Fields, <1>2 DEF Extract, At, Goto, Drained, DrainedFor
  <2> QED
    BY <2>1, <2>2, OthersIdle DEF Drained
<1>3. ASSUME NEW d \in Downloads, Abandon(d)
      PROVE  Drained'
  <2>1. /\ ~At(d, "idle")
        /\ \A e \in Downloads \ {d} : download'[e] = download[e]
    BY Fields, <1>3 DEF Abandon, At
  <2>2. DrainedFor(d)'
    BY Fields, <1>3 DEF Abandon, At, Idle, Drained, DrainedFor
  <2> QED
    BY <2>1, <2>2, OthersIdle DEF Drained
<1>4. ASSUME NEW d \in Downloads, LockProvider(d)
      PROVE  Drained'
  <2>1. /\ ~At(d, "idle")
        /\ \A e \in Downloads \ {d} : download'[e] = download[e]
    BY Fields, <1>4 DEF LockProvider, At, Goto
  <2>2. DrainedFor(d)'
    BY Fields, <1>4 DEF LockProvider, At, Goto, Drained, DrainedFor
  <2> QED
    BY <2>1, <2>2, OthersIdle DEF Drained
<1>5. ASSUME NEW d \in Downloads, CloseProvider(d)
      PROVE  Drained'
  <2>1. /\ ~At(d, "idle")
        /\ \A e \in Downloads \ {d} : download'[e] = download[e]
    BY Fields, <1>5 DEF CloseProvider, At, Goto
  <2>2. DrainedFor(d)'
    BY Fields, <1>5 DEF CloseProvider, At, Goto, Drained, DrainedFor
  <2> QED
    BY <2>1, <2>2, OthersIdle DEF Drained
<1>6. ASSUME NEW d \in Downloads, CloseSearch(d)
      PROVE  Drained'
  <2>1. /\ ~At(d, "idle")
        /\ \A e \in Downloads \ {d} : download'[e] = download[e]
    BY Fields, <1>6 DEF CloseSearch, At, Goto
  <2>2. DrainedFor(d)'
    BY Fields, <1>6 DEF CloseSearch, At, Goto, Drained, DrainedFor
  <2> QED
    BY <2>1, <2>2, OthersIdle DEF Drained
<1>7. ASSUME NEW d \in Downloads, SearchClosed(d)
      PROVE  Drained'
  <2>1. /\ ~At(d, "idle")
        /\ \A e \in Downloads \ {d} : download'[e] = download[e]
    BY Fields, <1>7 DEF SearchClosed, At, Goto
  <2>2. DrainedFor(d)'
    BY Fields, <1>7 DEF SearchClosed, At, Goto, Building, Drained, DrainedFor
  <2> QED
    BY <2>1, <2>2, OthersIdle DEF Drained
<1>8. ASSUME NEW d \in Downloads, Rename(d)
      PROVE  Drained'
  <2>1. /\ ~At(d, "idle")
        /\ \A e \in Downloads \ {d} : download'[e] = download[e]
    BY Fields, <1>8 DEF Rename, At
  <2>2. DrainedFor(d)'
    BY Fields, <1>8 DEF Rename, At, Drained, DrainedFor
  <2> QED
    BY <2>1, <2>2, OthersIdle DEF Drained
<1>9. ASSUME NEW d \in Downloads, RenameFails(d)
      PROVE  Drained'
  <2>1. /\ ~At(d, "idle")
        /\ \A e \in Downloads \ {d} : download'[e] = download[e]
    BY Fields, <1>9 DEF RenameFails, At, Goto
  <2>2. DrainedFor(d)'
    BY Fields, <1>9 DEF RenameFails, At, Goto, Drained, DrainedFor
  <2> QED
    BY <2>1, <2>2, OthersIdle DEF Drained
<1>10. ASSUME NEW d \in Downloads, Name(d)
      PROVE  Drained'
  <2>1. /\ ~At(d, "idle")
        /\ \A e \in Downloads \ {d} : download'[e] = download[e]
    BY Fields, <1>10 DEF Name, At, Goto
  <2>2. DrainedFor(d)'
    BY Fields, <1>10 DEF Name, At, Goto, Drained, DrainedFor
  <2> QED
    BY <2>1, <2>2, OthersIdle DEF Drained
<1>11. ASSUME NEW d \in Downloads, SaveVersion(d)
      PROVE  Drained'
  <2>1. /\ ~At(d, "idle")
        /\ \A e \in Downloads \ {d} : download'[e] = download[e]
    BY Fields, <1>11 DEF SaveVersion, At, Goto
  <2>2. DrainedFor(d)'
    BY Fields, <1>11 DEF SaveVersion, At, Goto, Drained, DrainedFor
  <2> QED
    BY <2>1, <2>2, OthersIdle DEF Drained
<1>12. ASSUME NEW d \in Downloads, ReopenProvider(d)
      PROVE  Drained'
  <2>1. /\ ~At(d, "idle")
        /\ \A e \in Downloads \ {d} : download'[e] = download[e]
    BY Fields, <1>12 DEF ReopenProvider, At, Goto
  <2>2. DrainedFor(d)'
    BY Fields, <1>12 DEF ReopenProvider, At, Goto, Drained, DrainedFor
  <2> QED
    BY <2>1, <2>2, OthersIdle DEF Drained
<1>13. ASSUME NEW d \in Downloads, ReopenSearch(d)
      PROVE  Drained'
  <2>1. /\ ~At(d, "idle")
        /\ \A e \in Downloads \ {d} : download'[e] = download[e]
    BY Fields, <1>13 DEF ReopenSearch, At, Goto
  <2>2. DrainedFor(d)'
    BY Fields, <1>13 DEF ReopenSearch, At, Goto, Idle, Drained, DrainedFor
  <2> QED
    BY <2>1, <2>2, OthersIdle DEF Drained
<1>14. ASSUME NEW d \in Downloads, Notify(d)
      PROVE  Drained'
  <2>1. /\ ~At(d, "idle")
        /\ \A e \in Downloads \ {d} : download'[e] = download[e]
    BY Fields, <1>14 DEF Notify, At
  <2>2. DrainedFor(d)'
    BY Fields, <1>14 DEF Notify, At, Idle, Spawn, Drained, DrainedFor
  <2> QED
    BY <2>1, <2>2, OthersIdle DEF Drained
<1>15. ASSUME NEW q \in Queries, Get(q)
      PROVE  Drained'
  BY Fields, <1>15 DEF Get, Drained, DrainedFor, At
<1>16. ASSUME NEW q \in Queries, StartQuery(q)
      PROVE  Drained'
  BY Fields, <1>16 DEF StartQuery, Drained, DrainedFor, At, Building
<1>17. ASSUME NEW q \in Queries, QueryClosed(q)
      PROVE  Drained'
  BY Fields, <1>17 DEF QueryClosed, Drained, DrainedFor, At, Building
<1>18. ASSUME NEW q \in Queries, EndQuery(q)
      PROVE  Drained'
  BY Fields, <1>18 DEF EndQuery, Drained, DrainedFor, At, Building
<1>19. CASE Publish
  BY Fields, <1>19 DEF Publish, Drained, DrainedFor, At, Building
<1>20. CASE BeginBuild
  BY Fields, <1>20 DEF BeginBuild, Building, BuildUnchanged, Drained, DrainedFor, At
<1>21. CASE ReadVersion
  BY Fields, <1>21 DEF ReadVersion, Done, BuildUnchanged, Drained, DrainedFor, At, Building
<1>22. CASE OpenDatabase
  BY Fields, <1>22 DEF OpenDatabase, Done, BuildUnchanged, Drained, DrainedFor, At, Building
<1>23. CASE AbortScan
  BY Fields, <1>23 DEF AbortScan, Done, BuildUnchanged, Drained, DrainedFor, At, Building
<1>24. CASE EndScan
  BY Fields, <1>24 DEF EndScan, BuildGoto, BuildUnchanged, Drained, DrainedFor, At, Building
<1>25. CASE Commit
  BY Fields, <1>25 DEF Commit, BuildGoto, BuildUnchanged, Drained, DrainedFor, At, Building
<1>26. CASE SaveSnapshot
  BY Fields, <1>26 DEF SaveSnapshot, Done, BuildUnchanged, Drained, DrainedFor, At, Building
<1>27. CASE EnsureIndex
  BY Fields, <1>27 DEF EnsureIndex, Spawn, BuildUnchanged, Drained, DrainedFor, At, Building
<1>28. CASE Crash
  BY Fields, <1>28 DEF Crash, Idle, Done, NoIndex, Drained, DrainedFor, At, Building
<1>29. CASE UNCHANGED vars
  BY <1>29 DEF vars, Drained, DrainedFor, At, Building
<1> QED
  BY <1>0, <1>1, <1>2, <1>3, <1>4, <1>5, <1>6, <1>7, <1>8, <1>9, <1>10, <1>11, <1>12,
     <1>13, <1>14, <1>15, <1>16, <1>17, <1>18, <1>19, <1>20, <1>21, <1>22, <1>23, <1>24,
     <1>25, <1>26, <1>27, <1>28, <1>29, <1>30
     DEF Next, Swap, Query, Build

\* While no two downloads overlap, the file is never replaced under a handle.
THEOREM RenamesUnderNoHandle == Spec /\ []Apart => NoRenameUnderHandle
<1>1. Init => Drained
  BY DEF Init, Drained, DrainedFor, At, Idle
<1>2. TypeOK /\ Apart /\ Drained /\ [Next]_vars /\ Apart' => Drained'
  BY DrainedSteps
<1>3. TypeOK /\ Drained /\ [Next]_vars =>
         [disk'.db # disk.db => provider.open = Missing /\ build.file = Missing]_vars
  <2> SUFFICES ASSUME TypeOK, Drained, Next, disk'.db # disk.db
               PROVE  provider.open = Missing /\ build.file = Missing
    OBVIOUS
  <2>1. PICK d \in Downloads : Rename(d)
    BY Fields DEF Next, Publish, Start, GetManifest, DownloadFileToPath, Extract, Abandon,
                  Swap, LockProvider, CloseProvider, CloseSearch, SearchClosed, RenameFails, Name, SaveVersion,
                  ReopenProvider, ReopenSearch, Notify, Get, Query, StartQuery, QueryClosed,
                  EndQuery, BeginBuild, Build, ReadVersion, OpenDatabase, AbortScan, EndScan,
                  Commit, SaveSnapshot, EnsureIndex, Crash
  <2>2. provider.open = Missing /\ build.pc = "none"
    BY <2>1 DEF Rename, At, Drained, DrainedFor, Building
  <2> QED
    BY <2>2 DEF TypeOK
<1> QED
  BY <1>1, <1>2, <1>3, TypeCorrect, PTL DEF Spec, NoRenameUnderHandle

=============================================================================
