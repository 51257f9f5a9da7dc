---------------------------- MODULE ManifestSwap ----------------------------
(***************************************************************************)
(* Installing a manifest: Download fetches and extracts the file, has the  *)
(* two swap participants (the shared Provider and the search indexer) give *)
(* up their handles, renames, records the version, reopens them and tells  *)
(* the observers.  Queries and index builds run all the while; the process *)
(* may crash at any point and restart from what is on disk.                *)
(*                                                                         *)
(* A manifest is the number of its publication by Bungie; 0 is a missing   *)
(* file, or no version.  A download and an extraction each write the whole *)
(* of their file in one step: overlapping Downloads, which share both      *)
(* temporary paths, exchange their files but never tear one.               *)
(***************************************************************************)
EXTENDS Naturals, FiniteSets

CONSTANTS Downloads,      \* goroutines that may be inside Download at once
          Queries,        \* goroutines calling the Provider
          MaxVersions,    \* bound: manifests Bungie publishes
          MaxCrashes      \* bound: crashes of the process

ASSUME SwapAssumption == MaxVersions \in Nat \ {0} /\ MaxCrashes \in Nat

Missing == 0
Versions == 1 .. MaxVersions
File == Versions \cup {Missing}

VARIABLES
    latest,     \* what Bungie publishes
    disk,       \* files: the database, the two temporary ones, the version
                \* file, and the search snapshot
    label,      \* ManifestService.currentVersion
    download,   \* per goroutine, where it is and the version it fetched
    provider,   \* Provider: its lock, its flag, the file its repository has open
    query,      \* per caller, where it is
    search,     \* search.Service: its flag, its index and the index's version
    build,      \* the one running BuildIndex, and the calls not yet begun
    crashes

vars == <<latest, disk, label, download, provider, query, search, build, crashes>>

Index == [version: File, entries: File]
NoIndex == [version |-> Missing, entries |-> Missing]

TypeOK ==
    /\ latest \in Versions
    /\ disk \in [db: File, zip: File, tmp: File, version: File, snapshot: Index]
    /\ label \in File
    /\ download \in [Downloads ->
          [pc: {"idle", "fetch", "download", "extract", "lockProvider",
                "drainQueries", "closeSearch", "drainBuild", "rename", "name", "save",
                "reopenProvider", "reopenSearch", "notify"},
           version: File, installed: BOOLEAN]]
    /\ provider \in [locked: BOOLEAN, swapping: BOOLEAN, open: File]
    /\ query \in [Queries -> {"idle", "holding", "querying", "orphaned", "failed"}]
    /\ search \in [swapping: BOOLEAN, index: Index]
    /\ build \in [pc: {"none", "version", "open", "scan", "commit", "save"},
                  version: File, file: File, spawned: 0 .. 2]
    /\ build.file # Missing <=> build.pc \in {"scan", "commit", "save"}

Idle == [pc |-> "idle", version |-> Missing, installed |-> FALSE]
Building == build.pc # "none"

Init ==
    /\ latest = 1
    /\ \E v \in {Missing, 1} :
          /\ disk = [db |-> v, zip |-> Missing, tmp |-> Missing, version |-> v,
                     snapshot |-> NoIndex]
          /\ label = v
    /\ download = [d \in Downloads |-> Idle]
    /\ provider = [locked |-> FALSE, swapping |-> FALSE, open |-> Missing]
    /\ query = [q \in Queries |-> "idle"]
    /\ search = [swapping |-> FALSE, index |-> NoIndex]
    /\ build = [pc |-> "none", version |-> Missing, file |-> Missing, spawned |-> 1]
    /\ crashes = 0

\* Bound: two calls not begun stand for any greater number.  Each finds the
\* builder busy and does nothing, or runs after the one before it.
Spawn(b) == [b EXCEPT !.spawned = IF @ < 2 THEN @ + 1 ELSE @]

-----------------------------------------------------------------------------
(* Bungie publishes; the updater or a request decides to download. *)

Publish ==
    /\ latest < MaxVersions
    /\ latest' = latest + 1
    /\ UNCHANGED <<disk, label, download, provider, query, search, build, crashes>>

At(d, pc) == download[d].pc = pc
Goto(d, pc) == download' = [download EXCEPT ![d].pc = pc]

\* EnsureReady and the background updater: no file, or CheckForUpdate's answer.
NeedsUpdate == label = Missing \/ label # latest

Start(d) ==
    /\ At(d, "idle")
    /\ disk.db = Missing \/ NeedsUpdate
    /\ Goto(d, "fetch")
    /\ UNCHANGED <<latest, disk, label, provider, query, search, build, crashes>>

\* The version, and where to download it from.
GetManifest(d) ==
    /\ At(d, "fetch")
    /\ download' = [download EXCEPT ![d].pc = "download", ![d].version = latest]
    /\ UNCHANGED <<latest, disk, label, provider, query, search, build, crashes>>

\* That version's zip, into the shared temporary path.
DownloadFileToPath(d) ==
    /\ At(d, "download")
    /\ disk' = [disk EXCEPT !.zip = download[d].version]
    /\ Goto(d, "extract")
    /\ UNCHANGED <<latest, label, provider, query, search, build, crashes>>

\* Whatever is in the zip, if it is still there.
Extract(d) ==
    /\ At(d, "extract")
    /\ disk.zip # Missing
    /\ disk' = [disk EXCEPT !.tmp = disk.zip]
    /\ Goto(d, "lockProvider")
    /\ UNCHANGED <<latest, label, provider, query, search, build, crashes>>

\* Any of the three fails; the deferred calls registered by then remove the
\* temporary files, whoever wrote them.
Abandon(d) ==
    /\ download[d].pc \in {"fetch", "download", "extract"}
    /\ download' = [download EXCEPT ![d] = Idle]
    /\ disk' = [disk EXCEPT !.zip = IF At(d, "fetch") THEN @ ELSE Missing,
                            !.tmp = IF At(d, "extract") THEN Missing ELSE @]
    /\ UNCHANGED <<latest, label, provider, query, search, build, crashes>>

-----------------------------------------------------------------------------
(* closeParticipants: each gives up its handle, in registration order. *)

\* Provider.CloseForSwap takes its lock, and with it Repository.Close's ...
LockProvider(d) ==
    /\ At(d, "lockProvider")
    /\ ~provider.locked
    /\ provider' = [provider EXCEPT !.locked = TRUE]
    /\ Goto(d, "drainQueries")
    /\ UNCHANGED <<latest, disk, label, query, search, build, crashes>>

\* ... which waits for the queries running on the repository.  A caller that
\* has been given the repository and not queried it yet keeps a closed one.
CloseProvider(d) ==
    /\ At(d, "drainQueries")
    /\ \A q \in Queries : query[q] # "querying"
    /\ provider' = [locked |-> FALSE, swapping |-> TRUE, open |-> Missing]
    /\ query' = [q \in Queries |-> IF query[q] = "holding" THEN "orphaned" ELSE query[q]]
    /\ Goto(d, "closeSearch")
    /\ UNCHANGED <<latest, disk, label, search, build, crashes>>

\* search.CloseForSwap refuses new builds, then waits for the running one.
CloseSearch(d) ==
    /\ At(d, "closeSearch")
    /\ search' = [search EXCEPT !.swapping = TRUE]
    /\ Goto(d, "drainBuild")
    /\ UNCHANGED <<latest, disk, label, provider, query, build, crashes>>

\* Bug: it does not wait.
SearchClosedAtOnce(d) ==
    /\ At(d, "drainBuild")
    /\ Goto(d, "rename")
    /\ UNCHANGED <<latest, disk, label, provider, query, search, build, crashes>>
SearchClosed(d) ==
    /\ At(d, "drainBuild")
    /\ ~Building
    /\ Goto(d, "rename")
    /\ UNCHANGED <<latest, disk, label, provider, query, search, build, crashes>>

-----------------------------------------------------------------------------
(* The rename, or the rollback; the version; reopenParticipants. *)

Rename(d) ==
    /\ At(d, "rename")
    /\ disk.tmp # Missing
    /\ disk' = [disk EXCEPT !.db = disk.tmp, !.tmp = Missing]
    /\ download' = [download EXCEPT ![d].pc = "name", ![d].installed = TRUE]
    /\ UNCHANGED <<latest, label, provider, query, search, build, crashes>>

\* Bugs: the error is swallowed; the participants stay closed.
RenameErrorSwallowed(d) ==
    /\ At(d, "rename")
    /\ download' = [download EXCEPT ![d].pc = "name", ![d].installed = TRUE]
    /\ UNCHANGED <<latest, disk, label, provider, query, search, build, crashes>>
RenameFailsClosed(d) ==
    /\ At(d, "rename")
    /\ disk' = [disk EXCEPT !.tmp = Missing, !.zip = Missing]
    /\ download' = [download EXCEPT ![d] = Idle]
    /\ UNCHANGED <<latest, label, provider, query, search, build, crashes>>
RenameFails(d) ==
    /\ At(d, "rename")
    /\ Goto(d, "reopenProvider")
    /\ UNCHANGED <<latest, disk, label, provider, query, search, build, crashes>>

\* Bug: the label is what Bungie publishes by now.
NameAsLatest(d) ==
    /\ At(d, "name")
    /\ label' = latest
    /\ disk' = [disk EXCEPT !.tmp = Missing]
    /\ Goto(d, "save")
    /\ UNCHANGED <<latest, provider, query, search, build, crashes>>
\* extractManifest's deferred call removes its temporary file, or by now the
\* one of another download; then Download records the version it asked for.
Name(d) ==
    /\ At(d, "name")
    /\ label' = download[d].version
    /\ disk' = [disk EXCEPT !.tmp = Missing]
    /\ Goto(d, "save")
    /\ UNCHANGED <<latest, provider, query, search, build, crashes>>

\* The version file is truncated and written; a failure is only logged.
SaveVersion(d) ==
    /\ At(d, "save")
    /\ \E v \in {disk.version, Missing, download[d].version} :
          disk' = [disk EXCEPT !.version = v]
    /\ Goto(d, "reopenProvider")
    /\ UNCHANGED <<latest, label, provider, query, search, build, crashes>>

\* Provider.Reopen clears the flag even when the file cannot be opened, which
\* is logged.  A repository that is open, because another swap's Reopen came
\* between, is reconnected when no query is running on it.
ReopenProvider(d) ==
    /\ At(d, "reopenProvider")
    /\ ~provider.locked
    /\ provider.open # Missing => \A q \in Queries : query[q] # "querying"
    /\ \/ provider' = [provider EXCEPT !.swapping = FALSE, !.open = disk.db]
       \/ provider.open = Missing /\ provider' = [provider EXCEPT !.swapping = FALSE]
    /\ Goto(d, "reopenSearch")
    /\ UNCHANGED <<latest, disk, label, query, search, build, crashes>>

\* The rollback path ends here, with an error; nobody is told.
ReopenSearch(d) ==
    /\ At(d, "reopenSearch")
    /\ search' = [search EXCEPT !.swapping = FALSE]
    /\ IF download[d].installed
       THEN Goto(d, "notify") /\ UNCHANGED disk
       ELSE /\ download' = [download EXCEPT ![d] = Idle]
            /\ disk' = [disk EXCEPT !.zip = Missing, !.tmp = Missing]
    /\ UNCHANGED <<latest, label, provider, query, build, crashes>>

\* notifyObservers: search starts a build and does not wait for it.
Notify(d) ==
    /\ At(d, "notify")
    /\ build' = Spawn(build)
    /\ download' = [download EXCEPT ![d] = Idle]
    /\ disk' = [disk EXCEPT !.zip = Missing]
    /\ UNCHANGED <<latest, label, provider, query, search, crashes>>

-----------------------------------------------------------------------------
(* A repository query through the Provider. *)

\* get hands out the open repository, or opens the file unless a swap is in
\* progress; otherwise the answer is ErrNotReady and nothing changes.
Get(q) ==
    /\ query[q] = "idle"
    /\ ~provider.locked
    /\ \/ provider.open # Missing /\ UNCHANGED provider
       \/ /\ provider.open = Missing /\ ~provider.swapping /\ disk.db # Missing
          /\ provider' = [provider EXCEPT !.open = disk.db]
    /\ query' = [query EXCEPT ![q] = "holding"]
    /\ UNCHANGED <<latest, disk, label, download, search, build, crashes>>

\* The query takes the repository's read lock, which a closing swap holds off.
StartQuery(q) ==
    /\ query[q] = "holding"
    /\ ~provider.locked
    /\ query' = [query EXCEPT ![q] = "querying"]
    /\ UNCHANGED <<latest, disk, label, download, provider, search, build, crashes>>

\* On a closed repository the answer is database/sql's error.
QueryClosed(q) ==
    /\ query[q] = "orphaned"
    /\ query' = [query EXCEPT ![q] = "failed"]
    /\ UNCHANGED <<latest, disk, label, download, provider, search, build, crashes>>

EndQuery(q) ==
    /\ query[q] \in {"querying", "failed"}
    /\ query' = [query EXCEPT ![q] = "idle"]
    /\ UNCHANGED <<latest, disk, label, download, provider, search, build, crashes>>

-----------------------------------------------------------------------------
(* search.BuildIndex. *)

BuildUnchanged == UNCHANGED <<latest, label, download, provider, query, crashes>>

BuildGoto(pc) == build' = [build EXCEPT !.pc = pc]

\* The deferred calls: the handle is closed, then building is cleared.
Done(b) == [b EXCEPT !.pc = "none", !.version = Missing, !.file = Missing]

\* A call while another builds, or while a swap is in progress, is a no-op.
BeginBuild ==
    /\ build.spawned > 0
    /\ build' = [build EXCEPT !.spawned = @ - 1,
                              !.pc = IF Building \/ search.swapping THEN @ ELSE "version"]
    /\ UNCHANGED <<disk, search>> /\ BuildUnchanged

ReadVersion ==
    /\ build.pc = "version"
    /\ build' = IF label = Missing THEN Done(build)
                ELSE [build EXCEPT !.pc = "open", !.version = label]
    /\ UNCHANGED <<disk, search>> /\ BuildUnchanged

OpenDatabase ==
    /\ build.pc = "open"
    /\ build' = IF disk.db = Missing THEN Done(build)
                ELSE [build EXCEPT !.pc = "scan", !.file = disk.db]
    /\ UNCHANGED <<disk, search>> /\ BuildUnchanged

\* A scan that sees a swap coming, or fails, ends without an index.
AbortScan ==
    /\ build.pc \in {"open", "scan"}
    /\ build' = Done(build)
    /\ UNCHANGED <<disk, search>> /\ BuildUnchanged

EndScan ==
    /\ build.pc = "scan"
    /\ ~search.swapping
    /\ BuildGoto("commit")
    /\ UNCHANGED <<disk, search>> /\ BuildUnchanged

\* A swap requested since the last check does not stop the commit.
Commit ==
    /\ build.pc = "commit"
    /\ search' = [search EXCEPT !.index = [version |-> build.version, entries |-> build.file]]
    /\ BuildGoto("save")
    /\ UNCHANGED disk /\ BuildUnchanged

\* The snapshot replaces the older ones, or is not saved.
SaveSnapshot ==
    /\ build.pc = "save"
    /\ disk' \in {disk, [disk EXCEPT !.snapshot = search.index]}
    /\ build' = Done(build)
    /\ UNCHANGED search /\ BuildUnchanged

\* EnsureIndex, from a search request, at most every buildRetryInterval.
EnsureIndex ==
    /\ label # Missing
    /\ search.index.version # label
    /\ ~Building /\ ~search.swapping /\ build.spawned = 0
    /\ build' = Spawn(build)
    /\ UNCHANGED <<disk, search>> /\ BuildUnchanged

-----------------------------------------------------------------------------
\* The process dies and restarts: NewManifestService reads the version file,
\* NewService restores a snapshot of that very version, and main.go starts a
\* build.  The temporary files stay until the next download.
Crash ==
    /\ crashes < MaxCrashes
    /\ crashes' = crashes + 1
    /\ label' = disk.version
    /\ download' = [d \in Downloads |-> Idle]
    /\ provider' = [locked |-> FALSE, swapping |-> FALSE, open |-> Missing]
    /\ query' = [q \in Queries |-> "idle"]
    /\ search' = [swapping |-> FALSE,
                  index |-> IF disk.version # Missing /\ disk.snapshot.version = disk.version
                            THEN disk.snapshot ELSE NoIndex]
    /\ build' = [Done(build) EXCEPT !.spawned = 1]
    /\ UNCHANGED <<latest, disk>>

\* From extraction to the last observer, nothing waits for the network.
Swap(d) ==
    \/ LockProvider(d) \/ CloseProvider(d) \/ CloseSearch(d) \/ SearchClosed(d)
    \/ Rename(d) \/ RenameFails(d)
    \/ Name(d) \/ SaveVersion(d)
    \/ ReopenProvider(d) \/ ReopenSearch(d) \/ Notify(d)

Query(q) == StartQuery(q) \/ QueryClosed(q) \/ EndQuery(q)

Build == ReadVersion \/ OpenDatabase \/ AbortScan \/ EndScan \/ Commit \/ SaveSnapshot

Next ==
    \/ Publish
    \/ \E d \in Downloads :
          \/ Start(d) \/ GetManifest(d) \/ DownloadFileToPath(d) \/ Extract(d)
          \/ Abandon(d) \/ Swap(d)
    \/ \E q \in Queries : Get(q) \/ Query(q)
    \/ BeginBuild \/ Build \/ EnsureIndex
    \/ Crash

Spec == Init /\ [][Next]_vars

\* The Go scheduler runs every goroutine that can run, and local file
\* operations end.  Nothing is assumed of requests, of Bungie or of the ticker.
Fairness ==
    /\ \A d \in Downloads : WF_vars(Swap(d))
    /\ \A q \in Queries : WF_vars(Query(q))
    /\ WF_vars(Build)

FairSpec == Spec /\ Fairness

-----------------------------------------------------------------------------
(* Properties. *)

\* The database is never replaced under an open handle: the Provider's
\* repository is closed and no index build is reading when the rename happens.
NoRenameUnderHandle ==
    [][disk'.db # disk.db => provider.open = Missing /\ build.file = Missing]_vars

\* An update is never forgotten: when CheckForUpdate will say that nothing is
\* new, the file really is the latest, whatever failed or crashed on the way,
\* and so it is after a restart.
UpdateNeverForgotten ==
    /\ label = latest => disk.db = latest
    /\ disk.version = latest => disk.db = latest

\* An index is never older than its version says, in memory or in the snapshot
\* the next process starts from: EnsureIndex would take it for current.
IndexNotOlderThanItsVersion ==
    /\ search.index.version <= search.index.entries
    /\ disk.snapshot.version <= disk.snapshot.entries

\* A swap ends, installed or rolled back, and leaves no participant closed.
SwapsEnd ==
    provider.swapping \/ search.swapping ~> ~provider.swapping /\ ~search.swapping

=============================================================================
