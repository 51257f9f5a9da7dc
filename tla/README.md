# GuardianTracker in TLA+

GuardianTracker is a companion for Destiny 2: a Go API service over Bungie's
API and Bungie's *manifest* (a SQLite file of game definitions, replaced
whenever Bungie publishes a new one), a PostgreSQL database, and a React
client. Its core difficulty is state derived from things that change
underneath: the manifest file is swapped while requests read it, a player's
data is refreshed while loads of it are running, callers that share a load come
and go. Around it stand the account's own stores: Bungie tokens shared by
several replicas, browser sessions, roll targets, the wish list, preferences,
roles; and in the browser, tabs that share one session. This directory models
the API service and the browser's session client for TLC, and proves most of what
it checks of them with TLAPS, for any number of requests, replicas, manifests,
refreshes, tabs and calls.

Paths below are relative to `backend/api-service/` unless they start with
`frontend/`. `PROJECT.json` maps every definition to the lines it models.

## Inventory

| Component | State | Operations | Interacts with | What makes it correct |
|---|---|---|---|---|
| ManifestService (`services/bungie/manifest.go`) | current version, last check, the files (database, version file, two temporary ones), participants, observers | EnsureReady, background ticker, CheckForUpdate, Download | Bungie client; closes and reopens participants, then notifies observers | never renames under an open handle; never forgets an update; always reopens |
| Provider and Repository (`services/manifest`) | one shared handle, `swapping` | get, CloseForSwap, Reopen, queries | participant of the swap; read by every manifest consumer | queries see one whole file, or ErrNotReady |
| Search index (`services/search`) | entries and their version, `building`, `swapping`, a snapshot on disk | BuildIndex, EnsureIndex, CloseForSwap, Reopen, OnVersionChanged | opens the database itself; participant and observer | the label never promises a newer file than the entries came from |
| manifeststate | a generation, a version | Begin, Publish, Current, Advance, LoadIf | used by Items, Records, Efficiency, Collections | nothing loaded under an older generation is left behind |
| membershipstate | a generation per membership | Begin, Publish, Advance, LoadIf | used by Collections, Records, Characters | nothing fetched before a refresh is left behind after it |
| Items (`services/items`) | catalog, perk names, bounded caches of facts, perks and catalysts | Lookup, Catalog, WeaponPerkNames, GetWeaponPerks, GetCatalysts, OnVersionChanged | Provider; read by Collections and others | fresh after a swap; bounded; one manifest per answer |
| Collections analysis (`services/collections`) | cached analyses, shared tree, flights, both fences | getAnalysis, InvalidateCache, OnVersionChanged | Bungie profile, Items catalog, Provider | a refresh sticks; a swap is followed; shared loads are private to nobody |
| Records (`services/records`) | cached profiles, flights, definitions | profile flights, manifest-derived half | Bungie, Provider | as Collections |
| Efficiency (`services/efficiency`) | index, its generation and version | BuildIndex, ensureIndex, OnVersionChanged | Provider, ManifestService | the index catches up with the manifest |
| Characters, Weekly, Digest | caches behind LoadIf; digest baselines in SQL | loads, invalidation | Bungie, Provider, database | as the fences |
| Roll targets, owned rolls, sources, recommendations | SQL rows; otherwise none | matching, import/export, planning | Items, Bungie | pure algorithms |
| Wishlist, preferences (services and stores) | SQL rows, a revision | CRUD, merge | database; optimistic clients | no lost update |
| Sessions, revocation, roles (`auth`, `db/users.go`) | session rows, token versions, cached authority | login, refresh with rotation, EndSession, EndAllSessions, SetRole | database, memory cache | a signed-out session stays out; replay revokes; one admin stays |
| Bungie token store (`auth/tokenstore.go`) | tokens in memory and encrypted rows | GetValidToken, Delete, cleanup | Bungie OAuth, database, other replicas | a refresh token is consumed once; the winner's tokens are kept |
| Memory cache (`cache/cache.go`) | entries with expiry | Get, Set, Delete, sweep | everything above | no live entry is removed as expired |
| Bungie client | none (a rate limiter) | requests with retries | Bungie | bounded retries |
| HTTP handlers, configuration, observability, fake Bungie | none of their own | decoding, wiring, logging | all services | - |
| Browser session (`frontend/src/lib/browserSessionClient.ts`) | persisted envelope, generation, lock across tabs | request, refresh, end, completeAuthorization | API, other tabs | one membership's request is never answered with another's session |
| Other browser data (`frontend/src/data`) | query caches, pending writes | optimistic changes, coalesced preference writes | API | no write undone by an older answer |

Hard behaviours: loads that straddle a swap or a refresh; two fences at once;
flights joined, abandoned and timed out; observers told one after the other;
handles drained before a rename; rollback; a crash between the rename and the
version file; overlapping downloads; token rotation across replicas; tabs.
Each is listed under `hazards` in `PROJECT.json` with the line where it bites
and the properties that cover it, or a note saying why none does.

## Modules

| Module | What it models |
|---|---|
| `ManifestState`, `MembershipState` | The two fences as operators on their value. Each of the code's methods holds the fence's mutex throughout, so one use of an operator is one atomic step. |
| `PublicationCache` | One owner of manifest-derived state: its fence, its cache, any number of goroutines in `LoadIf`, any number of downloads. `items.Catalog`, `items.WeaponPerkNames` and the projections of the manifest that Records keeps (weapon types, exotic weapons, catalyst links) are the same sequence with one key; `WeaponPerkNames` is why a load makes several repository calls. |
| `FencedStore` | What such an owner promises, with no generations or attempts. `PublicationCache` implements it (`eligible <- seen`, `store <- cache`). |
| `CollectionsAnalysis` | `analysis.go` and `flights.go` between the locks: callers, flights, both fences, the cache, the shared tree, and the download that tells Items and then Collections. Composes `ManifestState` and `MembershipState`; the Items catalog appears as a `FencedStore` does, filled and emptied in one step. |
| `ItemsCache` | `Lookup`, `GetWeaponPerks`/`GetCatalysts` and the bounded caches behind them, item by item, through swaps. |
| `ManifestSwap` | `Download` step by step, `Provider`, repository queries, the search index's builds and snapshot, crash and restart. |
| `ManifestFile` | The manifest as a reader sees it: closed, replaced, named, reopened, announced, or rolled back, and queries refused meanwhile. The base of the modules of the services below. |
| `EfficiencyEngine` | `BuildIndex` (generation, version, rows and publication in four steps), `ensureIndex`, `OnVersionChanged`, several builds at once. Uses `ManifestState`. |
| `RecordsFlights` | The shared loads of a profile's records, over the memory cache with its two-step removal of an expired entry. Uses `MembershipState`. |
| `Records` | The pages of a player's records: the walk of the presentation nodes, the catalysts and patterns, the seals under two roots, query by query. |
| `Characters` | The roster behind `membershipstate.Load`, equipment, activity history and current activity. |
| `Calendar` | The week's times (resets, Xur's arrival) in ticks, and what a cache holds at a time. |
| `Weekly` | The public half of This Week: one payload for everybody, with its TTL. Uses `Calendar`. |
| `VendorStock` | The player's half: the vendors' answer cached for five minutes, and drawn from it the daily vendors' rows under their version and the items sold now, kept until the daily reset. The two halves of the service share the clock and no entry of the cache. |
| `OwnedRolls` | One reading of the player's weapons, and its matches and near misses against the saved targets. |
| `TokenStore` | Bungie's tokens in each replica's memory and in the row they share, and Bungie's endpoint, which consumes a refresh token as it renews it. |
| `SessionLifecycle` | Sign-in, the session cap, refresh with rotation and reuse detection, both cached checks, sign-out of one device and of all, failing open. |
| `BrowserSession` | The browser's side: tabs with their copies of one persisted envelope, storage events, the origin-wide lock, requests that refresh and retry, sign-ins and sign-outs, reloads; with as much of the server as its answers and the cookie need. |
| `Authority` | Roles, feature flags and the audit log: the row locks of `SetRoleByID`, the cached authority of each replica. |
| `RollTargets` | Saved rolls from the handler to the unique index, with the line-by-line import. |
| `Digest` | The visits of "new since your last visit", the baseline, the frozen answer. |
| `Wishlist`, `Preferences` | The wish list's requests with their manifest lookups; preference patches merged in one statement. |
| `AccountStores` | The account's stores side by side (below): `TokenStore`, `RollTargets`, `Digest`, `Authority`, `Wishlist`, `Preferences`. |
| `Views` | The services that show data side by side (below): `ItemsCache`, `RecordsFlights`, `Characters`, `EfficiencyEngine`, `Weekly`, `VendorStock`, `Records`, `OwnedRolls`. |
| `MC*` | Instances for TLC: the small manifests, inputs and sets of symmetry; constants are given in the `.cfg` files. |
| `*Proofs` | The theorems on the module of that name, and their proofs (below); `BrowserSettledProofs` is a second one on `BrowserSession`. |

### How the state corresponds to the code

*Manifest data* is the version it was read from (a set of versions where a load
makes several reads); *profile data* is the number of refreshes that preceded
the fetch. That is all that tells fresh from stale or mixed. Contents, hashes
and formats are left out.

*Steps* are the code's critical sections: a mutex held for a whole method is one
step, and two calls with no lock in between are two. A database query, an HTTP
call and a file operation are one step each. Callbacks run under a lock
(`Advance`'s invalidation, `Publish`'s commit, `ifActive`) are part of the step
that holds the lock.

Deliberate simplifications, each of which a reader of the models should know:

- `CollectionsAnalysis!Ask` captures both generations in one step; the code
  takes them in two consecutive lines. What comes between would be a fence
  moving, and the caller then holds an older refresh generation with a newer
  manifest generation, each still older than the cache read that follows.
- `CollectionsAnalysis` has one download at a time (the overlap is
  `ManifestSwap`'s subject), and its download is only as detailed as a reader of
  the manifest can see: closed, renamed and reopened, each observer told.
  Records, Weekly, Search and Efficiency are observers too; they share nothing
  with the analysis, so telling them is not a step.
- A flight's record is reused once the flight has exited and no caller refers to
  it (`Collected`), as the garbage collector would.
- `LoadFails` stands for every error of `EnsureReady`, `GetProfile` and the
  queries, a cancelled context included.
- `ManifestSwap!DownloadFileToPath` and `Extract` are one step each, so two
  overlapping downloads replace each other's temporary files whole, and the file
  may be of another manifest than the version its download has named
  (`GetManifest`). The real ones could also tear it.
- `ManifestSwap!SaveVersion` may leave the version file as it was, truncated or
  written; a crash is before or after it. The database is renamed or not.
- A missing database file makes opening fail, which is how `Provider` uses
  SQLite's read-only mode; SQLite itself is not modelled.
- Index builds not yet begun are capped at two: each either finds a build
  running and does nothing or runs after it. `EnsureIndex`'s clock is left out;
  it may kick a build whenever none is running or waiting.
- One snapshot is kept: `pruneSnapshots` always succeeds.
- `TokenStore` numbers Bungie's grants and knows only which are valid, renewable
  and spent. Each grant is written to the row once at most, so the row's
  `updated_at` is told by the grant in it. Encryption is left out; an unreadable
  row counts as absent, as in the code.
- `SessionLifecycle` has one user. A refresh token is its session, its number
  (the jti) and its version. `RotateSession` is two steps, since its transaction
  waits for the row's lock; sessions from before session ids existed are left out.
- `BrowserSession` keeps, in place of a tab's generation counter, whether each
  call's captured generation still is the tab's (`current`). Of the storage
  events under way to a tab only the last is kept, since a tab adopts only what
  is newer than its copy. What is between two awaits is one step. An access
  token lives longer than a call lasts (hours against seconds), so that none
  expires under a call that has just been given it. A sign-out lowers
  `pendingEnds` in the step that releases the lock. A caller may leave at any
  await. Its server is `SessionLifecycle` as a browser sees it: sessions end
  elsewhere at any time, a spent refresh token ends its session.
- PostgreSQL's row locks, its deadlock detection and its unique indexes are
  modelled where a transaction waits or fails by them (`Authority`,
  `SessionLifecycle`, `RollTargets`); a single statement is one step.
- `Weekly` and `VendorStock` count time in ticks. The five minutes that no entry is
  cached for less than are several (`Floor`, two in the runs), so that a build may
  begin within them of an event; a day is three in the runs, which keeps every
  event of the week (reset, Xur's arrival, the daily reset) and their order.
  `MaxBuild` bounds the ticks between a request's reading the time and its last
  use of it. A fetch of the vendors itself takes less than a tick.
- `OwnedRolls`, `RollTargets`, `Wishlist` and `Records` take the contents of
  manifests from small given ones, chosen so that a swap matters: a renamed
  perk, a weapon that loses its columns, an item that disappears, a moved node.

## Runs

| Run | Bounds | What it shows |
|---|---|---|
| `publication_serial` | 2 keys, 2 versions, 2 loaders of 2 reads, 1 download, 3 installs | The cache implements `FencedStore` and is fresh once settled. A version may be installed again after another (3 installs of 2 versions), which is the case a fence on versions instead of generations would miss. |
| `collections_safety` | 1 membership, 1 credential, 2 callers, 2 flights, 1 swap, 1 refresh | What is cached and answered is never older than the last refresh or the last announced swap; flights are shared, cancelled and unregistered exactly when they should be; late loads leave nothing behind. Two flights suffice for one to straddle what another follows, two callers for one to leave while the other waits. |
| `collections_swaps` | 2 callers, 1 flight, 2 swaps, 1 refresh | Two swaps let a rebuild meet the next swap and fall back on the analysis it started from: answers and settled state stay right (`AnswersSinceSwap` excuses exactly the fallback). Every caller waiting on a shared load is released, hung loads included. |
| `manifest_swap` | 1 download at a time, 3 versions, 2 queries, 1 crash | No rename under a handle, no update forgotten across failures and a crash, no index older than its label, every swap reopens. Three versions let Bungie publish during a swap and again after it. |
| `sessions` | 2 requests, a cap of 1, 3 refresh tokens; either 1 session on 2 replicas with 2 token versions and 1 fault, or 2 sessions on 1 replica (`MCSessionLifecycle!Small`) | Signing out everywhere leaves no refresh token of use, whatever replica cached what; only a replay (or a lost record) ends a session; a cached refusal is of a session that is gone; a rotation replaces the token it was given, and a session that the cap evicts under a rotation does not come back. Two versions make one sign-out everywhere, three tokens a rotation of a rotated token, two sessions a sign-in past the cap. |
| `tabs` | 2 tabs, 2 calls at a time, 2 members, 2 sessions of 2 rotations, 3 revisions, 1 fault | A caller is answered only in the session it asked in, which still is the browser's; no session that was signed out is persisted again, even if the server never heard; once all is quiet, tabs, storage and cookie agree, and no spent cookie was presented. Two calls are a refresh against a sign-out, a sign-in or another refresh, from the same tab or the other; two sessions let the member change; three revisions let one write overtake another. |
| `account_stores` | 2 requests of one account; tokens: 2 replicas, 3 grants; rolls: 2 weapons, 2 perks, 2 manifests, 2 rows; digest: 1 item, 4 ticks; roles: 2 users, 3 audit rows; wish list: 2 items, 2 manifests; preferences: 2 ticks; 1 fault each | What two requests that meet leave in each store, and what they are told: the player stays connected, a refresh does not step back, what is saved can match and is reported truly, an acquisition is told once, an administrator remains and the audit log explains roles and flags, a refused request wrote nothing, patches merge. |
| `views` | 2 readers; items: 2 hashes, capacity 1, 2 installs; profile records: 2 flights, 1 refresh, 2 fetches; characters: 1 character, 1 refresh, 1 swap; Efficiency: 2 builds, 2 installs; This Week, public and the player's: 4 ticks from two before a daily reset, Xur's arrival or the weekly reset, where five minutes are 2 ticks, a day 3 and a build 1 past its start, 1 swap; pages: 4 nodes with a cycle, 1 swap; rolls: 3 copies, 2 targets, 1 swap; 1 fault each | Nothing kept past a swap, a refresh or an expiry, nor This Week past its event but for the five minutes that its answers are cached for at least; labels true of what they label; a failed read costs only itself; a walk ends; copies alike are judged alike. |

`account_stores` and `views` each run several components, those of
`AccountStores` and `Views`: a behaviour picks one (`part`) in its first state and stays with it, the variables of the others being
`None`. The components of one such run share no state in the code either (each
store has its own table, each view its own cache), so nothing is lost by not
interleaving them, and their state spaces add instead of multiplying. Variables
that several modules name alike (`call`, `faults`, `now`, the file's) are shared
between the parts. A property of the run is the properties of its parts.

Four runs end in a violation. Each checks a sentence of the code's own comments
which the code does not keep; `findings` quotes it.

| Run | Sentence | What happens |
|---|---|---|
| `tokens_replay` | The per-user mutex prevents "double-refresh races where the second call would use an already-consumed token" | A request that loaded the row before another refreshed stores it over the refreshed tokens, and then presents the spent refresh token. That replica refuses the user until a new sign-in or a restart. |
| `weekly_pinned` | A transient empty response "would serve every user an empty week" (the reason for `cache.LoadIf`) | `getPublicWeekly` uses `Set`: a failed fetch of Xur's stock or of the milestones is cached for everyone until the next daily reset. |
| `items_perks` | "Every cached projection is guarded by one publication" | Perks and catalysts are not. A stale entry stays until the next swap. |
| `manifest_overlap` | "proceeding to the rename with a handle still open is the bug this interface exists to prevent" | Two downloads overlap. |

Deadlock is checked in the runs of the fences, of Collections, of Items and of
the manifest. `sessions`, `tabs`, `tokens_replay`, `account_stores`, `views` and
`weekly_pinned` say `CHECK_DEADLOCK FALSE`: their bounds (tokens, revisions, ticks,
rows, faults) end every behaviour, which the code's requests do not. Symmetry is used
in the runs of safety properties only. Every property of a passing run has a
mutant in `PROJECT.json`: a plausible bug of the code, defined next to the
definition it replaces with a `Bug:` comment, which makes TLC find the property
violated.

### Divergences that no run checks

Met while modelling; each is a behaviour of the models named.

- Collections: the catalog is looked up before a swap and the nodes are read
  after it, and the callers of a cold load are answered with the two halves of
  two manifests (`CollectionsAnalysis!LookUpCatalog`, `ReadNodes`), while the
  comment at `collections/analysis.go:300-302` says that they "can never be
  paired across a manifest swap". `SettledIsCurrent` says that the pair is not
  kept as current.
- Items: two hits of one batch, with a swap and a refill in between, answer with
  facts of two manifests (`ItemsCache!Scan`; `items/reader.go:113`, against the
  comment at 28-31).
- Provider: a repository handed out before `CloseForSwap` and used after it
  fails with database/sql's "database is closed" (`ManifestSwap!QueryClosed`;
  `manifest/provider.go:114`, against 68-69).
- Sessions: the entry that `EndAllSessions` evicts "so the bump takes effect at
  once" (`auth/session.go:376-378`) may be put back by a check in flight, and an
  access token lives on in that replica until it ages out
  (`SessionLifecycle!CacheVersion`). Signing out everywhere answers 200 even if
  both of its writes failed.
- Token store: a refresh in flight when the user signs out stores its tokens
  afterwards (`TokenStore!Persist` after `SignOut`).
- This Week: `getPublicWeekly` has no fence. A payload begun under the old
  manifest may be stored after `OnVersionChanged`'s delete, and keeps its labels
  until the next daily reset (`Weekly!Store`; the comment at
  `weekly/service.go:663-665` says eviction prevents that; ADR 0014 lists Weekly
  as yet to be fenced). `PayloadEndsAtEvent` bounds the damage. A payload begun less
  than five minutes before an event is cached past it (`Weekly!TTL`;
  `weekly/service.go:702-704`, after "TTL = soonest of: weekly reset, Xûr event,
  daily reset" at 694).
- This Week: the vendors' answer of just before a daily reset is found in the cache
  just after it, and the rows and the live items drawn from it are kept until the
  next reset (`VendorStock!KeepVendors`, `GetLiveVendorItems`; the TTL at
  `weekly/service.go:939` is of the request's time, not of the answer's). If the
  answer was asked for only for one of the two, or for Xur's location (the
  Collections opened just before the reset, This Week just after), the other is the
  day before's stock for a day, told as "currently sold"
  (`weekly/availability.go:58`). `StockEndsAtEvent` says that this is the only way.
- Manifest: two overlapping downloads share the paths of the temporary files. One
  names a version (`ManifestSwap!GetManifest`); Bungie publishes another; the
  second names that one and downloads its file; the first downloads the older over
  it, and the second installs it under the newer name, while the first finds the
  extracted file gone and gives up. `Version` then names a manifest that is not
  installed, against `bungie/manifest.go:180`, and no check finds the file stale
  before the next publication: `UpdateNeverForgotten` and
  `IndexNotOlderThanItsVersion`, which the run `manifest_swap` checks of one download
  at a time, do not hold of two (2 downloads, 2 versions, no crash).
- Records: a failed lookup of the nodes below a seal leaves their triumphs out
  unsaid, so that a seal can be told complete which is not (`Records!TellSeal`),
  while the comment at `records/service.go:118-120` has each endpoint degrade to
  an empty result; a failed walk of the catalysts is an error, not empty.
- Efficiency: the index that a failed build leaves behind heals only when the
  next ranking is asked for.
- Roll targets: an import that aborts keeps the rows it has inserted, under an
  import id it never reports. A duplicate on `Update` reaches the player as a
  500, while `adapters/rolltargets.go:15-21` says it becomes "this roll is
  already saved". A target that names two perks of one column may match all of
  its columns, and yet be neither a match nor a near miss.
- Digest: the first requests of a visit may overlap and overwrite its frozen
  answer; `AcquiredToldOnce` says what holds nevertheless.
- Authority: a sign-in of one of `ADMIN_MEMBERSHIP_IDS` promotes without an audit
  row (`Authority!SignIn`; `AuditTells` excuses it), and a changed role takes
  effect at once only in the replica that made the change.
- Browser session: a sign-in begun while its tab is signing out takes the tab's
  generation anew once it has the lock (`browserSessionClient.ts:450-456`). Let
  the lock's queue be this tab's sign-out, another tab's and this sign-in, and let
  the tab be asked to sign out again before the other's is persisted. The tab then
  ignores that envelope (`pendingEnds > 0`, 899), finds itself signed out, and
  publishes its session on top of the revision it knows (913), over the other tab's
  envelope of the same revision: an accepted transition that does not advance the
  envelope's revision, as ADR 0017 says each does, and that the other tab ignores.
  Three calls at once suffice (2 sessions, 3 revisions, no fault). With a fourth,
  all can then be quiet while that tab still shows signed out and the browser is
  signed in, so that `AgreeWhenSettled` does not hold of four. Every violation of
  these properties has such a sign-in: without one they are theorems (`Apart`,
  below), however many the calls. The run `tabs` has two calls, too few.
- Bungie client (not modelled): a 429 with `Retry-After: 0` is retried without a
  pause, while `bungie/client.go:85-86` says that a throttle that names zero
  seconds still takes the linear floor.

### Fairness

`CollectionsAnalysis!FairSpec` assumes that a caller whose `select` can proceed
is scheduled and that a flight's deadline fires (`context.WithTimeout`). It
assumes nothing of loads: manifest reads take no context and may hang.
`ManifestSwap!FairSpec` assumes that a goroutine that can run does, from
extraction to the last observer, in running queries and in running builds:
none of these waits for the network. It assumes nothing of Bungie, of requests,
of the ticker or of crashes.

## Proofs

TLAPS checks the theorems below for every value of the constants: any number of
callers, loads, replicas, sessions, versions and faults. The bounds that the runs
need (how many installs, refreshes, ticks) remain in the guards as arbitrary
numbers. Each module of proofs has one inductive invariant per component,
which says what the property leaves out (what the loads, calls and queries under
way hold, not only what is stored), and one lemma per action or kind of step. Every
invariant that the passing runs check is stated by a theorem.
The assumptions on constants say that `None` and the like are told apart from
data and that bounds are numbers; those that say more are given below.

### `PublicationCacheProofs`

Assumptions: `NoVersionAssumption`, `ConstantsAssumption`.

- `TypeCorrect`: `Spec => []TypeOK`.
- `ReadsSeen`: `Spec => []CurrentReadsSeen`. `FencedSpec` and
  `FreshWhenSettled` speak of the cache and are not inductive: whether a
  `Publish` keeps them depends on what the load has read so far.
  `CurrentReadsSeen` adds the loads: no attempt is from a future generation, and
  a load *of the current generation* has read only versions installed since that
  generation began (`seen`). A load of an older generation may hold anything,
  which is harmless because generations never come back (lemma
  `AdvancedIsNew`).
- `ImplementsFencedStore`: `Spec => FencedSpec`. Each step maps to a step of the
  abstract store or to a stutter.
- `NothingStaleOnceSettled`: with a single download `d`,
  `Spec => []FreshWhenSettled`, from `SerialSettles(d)`: between installing and
  announcing, what is unannounced is what is installed; afterwards, `seen` holds
  the installed version alone. The single download is necessary: of two that
  overlap, the one announced last need not be the one installed last.

### `CollectionsAnalysisProofs`

Assumptions: `CollectionsAssumption` and the fence's `NoVersionAssumption`. Four
invariants, each resting on those before it:

- `IInv` (`Shape`, `LoadsSinceRefresh`) for `RefreshSticks` (`RefreshNotUndone`).
  The property speaks of the cache only; whether a publication keeps it depends
  on when the load fetched and under which refresh generation it was asked for.
  A load has fetched no earlier than the refresh its key was captured under, and
  no key is of a refresh yet to come. So a load whose key is still the current
  generation has fetched since the last refresh, and the fence lets no other
  publish. A rebuild after a swap takes its profile from the cache, which is
  where the two halves of the invariant need each other.
- `Sharing` (`WaitingOnTheirs`, `WaitersCounted`, `RegistryInStep`) for
  `CancelsPrivately` (`CancelIsPrivate`), `RegistryIsRight`
  (`RegistryHoldsRunningLoads`) and the action property `NothingPublishedLate`
  (`NoLatePublication`). A flight's `waiters` is the number of callers that wait
  on it, and they wait on a flight of their own key. The count is what the
  last one to leave looks at, so nothing about cancellation is inductive
  without it.
- `ResultsSinceRefresh` for `FreshAfterRefresh` (`AnswersSinceRefresh`): what a
  load has in hand, fallback included, is as fresh as its key.
- `Labels` (`InstallInStep`, `SharedLabels`, `FlightLabels`) for `FreshAfterSwap`
  (`AnswersSinceSwap`) and `SettledOnTheManifest` (`SettledIsCurrent`): where the
  download is, and so which manifest the fence's generation stands for; and what
  the cache, the shared tree or a load keeps under a generation was read no
  earlier than the manifest that began it. Between downloads that leaves the
  current generation only the installed manifest.

### `SessionLifecycleProofs`

Assumption: `SessionAssumption`. One invariant, `IInv`, for all four theorems:

- `RefusalsAreFinal` (`RefusalIsFinal`): `AbsenceLasts`. Sessions are numbered as
  they begin, and nothing inserts a row for one that has begun (`Beginnings`).
- `SignOutReachesEveryToken` (`NoTokenSurvivesSignOut`): `VersionsPast`. A token is
  of a version no later than the row it was issued from, through sign-ins and
  rotations that are half done when the version is bumped.
- `OnlyReplaysEndSessions` (`EndedOnlyForReplay`) and `RotatesOnce`
  (`TokenRotatesOnce`): `TokenChain`. Of a session that gave no cause for
  suspicion, the one token presented and not yet replaced is the one that its row
  expects, and so is any other, in the browser or on its way there, that has not
  been presented. `RowsHeld` says that the row lock between the two steps of
  `RotateSession` keeps what the first has read true in the second.

`Shape` and `KindsOfSteps` are the types and the four ways in which a step may
touch the rows.

### `ManifestSwapProofs`

Assumption: `SwapAssumption`.

- `TypeCorrect` (`TypeOK`).

The other theorems have the form `Spec /\ []Apart => ...`, where `Apart` says that no
two downloads run at once. Nothing in the code ensures it, and without it none of
them holds: the run `manifest_overlap`, and the divergence told above, are of two.

- `UpdatesRemembered` (`UpdateNeverForgotten`) and `IndexNotOlder`
  (`IndexNotOlderThanItsVersion`): each stage of an installation holds a manifest
  no newer than the stage before it (`FilesInOrder`), and each copy of a version's
  name, in memory, in the version file, in a download or in a build, is of a
  version no newer than the file it goes by (`DownloadsBehindFiles`,
  `LabelsBehindFile`, `BuildBehindFile`). The two theorems follow because the code
  writes files first and names after, and because the file in the shared temporary
  path is that of the one download under way.
- `RenamesUnderNoHandle` (`NoRenameUnderHandle`): `Drained` says that once participants are closed no handle is
  open and none can be opened, whatever queries and builds wait.

### `AccountStoresProofs`

One invariant for each store; assumptions `NoneAssumption`, `ClockAssumption`,
`InputAssumption` (offered rolls and edits are rolls), `UserAssumption` (a user is
not the name of a flag), `RowAssumption`.

- `AdministratorsRemain` (`AdminRemains`), from `RolesInv`: who holds which row
  lock, that what a transaction has read of a locked row is still there, and
  that a demotion which has counted two administrators holds the rows of two.
- `AuditLogTells` (`AuditTells`), from `AuditInv`: the entries about one user or
  one flag are a chain (`Chained`) that ends in what is stored. The property reads
  the log by the first and last entry (`From`, `Leaves`); the chain is what says
  that an entry added at the end extends it.
- `PlayersStayConnected` (`ConnectionKept`) and `RefreshesStepForward`
  (`RefreshNeverStepsBack`), from `TokensInv`: where nothing was lost, the row's
  refresh token is unspent, or who spent it is about to write the row
  (`RowCarried`), and there is a row, or a sign-in that brings it (`RowComes`).
- `SavedTargetsCanMatch` (`TargetsCanMatch`) and `ImportsReportTruly`
  (`ReportsHold`), from `RollsInv`: what each call has verified so far, and what
  has left the table since (`gone`).
- `RefusalsWriteNothing` (`RefusalWritesNothing`), from `WishesInv`.
- `VisitsTellOfAll` (`AcquiredToldOnce`), from `VisitsInv`: every baseline that
  is stored, or that a visit has read and is to replace, was told of (`Told`); and
  while visits do not overlap and nothing leaves the collection, the baseline that
  a visit read is the stored one (`Alone`).
- `DevicesDoNotUndo` (`PatchesMerge`), from `DevicesInv`.

### `ViewsProofs`

Two invariants for each service, one for what it promises and one for its types.
Assumptions, besides `NoneAssumption`, `PayloadAssumption` and `BoundAssumption`:
there is a player; items are finitely many (`ItemsAssumption`); times are numbers,
and a day has some ticks (`WeekAssumption`); the copies are a sequence of
weapons (`CopiesAssumption`); the root is a node, and children and roots of nodes
are sequences of nodes (`NodesAssumption`).

- `FactsFresh` (`FactsFreshWhenSettled`), from `ItemsInv`: a lookup that may still
  store what it has read (its attempt is the current generation, and nothing is
  to be announced) has read the installed manifest.
- `RefreshIsSeen` (`RefreshStays`), from `ProfilesInv` and `RostersInv`: every load
  and every request has what was fetched no earlier than its own key, and no key
  is of a refresh to come; callers wait on a flight of their own key.
- `GoodEntriesStay` (`FreshEntryKept`), an action property, from `ProfilesInv`.
- `IndexBearsItsVersion` (`IndexNotMislabelled`), from `EngineInv`: a build reads
  the version before the rows, files are replaced before they are named, and
  neither goes back, so `version <= rows <= file` and equality when the label is the
  file's. The fence plays no part in it.
- `WeekEndsAtEvent` (`PayloadEndsAtEvent`), from `WeekInv`: a payload under way is
  no older than a build may take, and from where it is stored it lives no longer
  than from its beginning to the first event after it, or than five minutes, whichever
  is longer (lemmas `Follows`, `Least`, `Lives` on the week's arithmetic). So it
  outlives the event by its build's time at most, except where it was begun within
  five minutes of the event. The same of what the vendors sell, from `StockInv` and
  `StockTimes`: a call that has the vendors' answer asked no later than it could be
  found in the cache, and what is asked for earlier ends no later (`ResetsInOrder`,
  `ToldInTime`).
- `RowsBearTheirVersion` (`RowsNamedByTheirVersion`), from `StockInv`: a row's key was
  read no later than the file that names it was opened.
- `RootsFailAlone` (`OneRootFailsAlone`), from `PagesInv`: while the file is the one
  the request began with, every root has failed, has been told in full or is to
  come, and of the root at hand every seal has been told or is left.
- `CopiesMatchAlike` (`CopiesToldAlike`), from `ArmsInv`: a copy that has been read
  has the roll that its weapon's pool gives, and that pool is the one remembered.
- `WalkCollectsNoneTwice` (`WalkCollectsOnce`), from `PagesTyped`: what is collected
  is a sequence of visited nodes (`Once`), which `Collect` keeps, and which a chunk
  keeps by induction on its length (`WalksOnce`). No assumption is made of the graph:
  nodes may be shared, and children may lead back.
- `ViewsTyped` (`TypeOK`), from the first invariants together (`Kept`) and `Typed`,
  a conjunct per service. Where it says more than a type: a cache of facts is within
  its capacity, whatever batch was stored (`StoredBounded`); what the engine is
  building is the attempts of the builds that have entered, each another
  (`Entered`), and no attempt is past the fence's generation; a load has fetched
  after no more refreshes than there were; a report's nearest roll is of one of the
  player's copies, since some roll has the best score and some place is the first
  with it (`BestOf`, `LeastOf`, `NearestIsACopy`).

The walk is a fold over the chunk, and the folds of the library are choices of a
recursive function: before anything follows from the choice, the function has to
exist. The library's induction takes an operator, which the provers cannot
instantiate; the lemma `Induction` states it of a set of numbers instead, and
follows from the order of the numbers being well-founded (`WFMin`,
`NatLessThanWellFounded`). `CollectionDefined` and `LineDefined` build the functions
of the two folds, over a chunk and over a node's children, from it.

### `BrowserSessionProofs`

Assumption: `BrowserAssumption` (finitely many calls at a time; bounds of at least
one; `None` is told apart from tokens and envelopes). The theorems have the form
`Spec /\ []Apart => ...`, where `Apart` says that no sign-in is begun in a tab that is
signing out: what such a sign-in can do is told under the divergences. The callback
page (`features/auth/OAuthCallback.tsx:88`), which begins one when Bungie redirects
to it, is loaded anew, so that nothing in its tab is yet signing out. `IInv`, which
TLC checked under `Apart` with the run's constants, holds

- `Locked`: of the calls in the line for the lock, one of any two is before the
  other, and who waits for an answer under the lock has none before it;
- `Counted`: `pendingEnds` is the number of the tab's sign-outs;
- `Newest`: no tab's envelope is newer than the persisted one, and an equal
  revision is the same envelope;
- `Attended`: a call whose generation is its tab's is in a tab that is not signing
  out, and its captured lineage is the tab's;
- `Kin`: envelopes of one lineage, persisted, in the tabs or captured, are of one
  member or all tombstones;
- `Signed`: unless the browser is signed out, its cookie names no session signed
  out; what a refresh brings is of the cookie's session, and what a sign-in brings
  is of a session never signed out.

- `SignedOutForGood` (`EndedStaysEnded`), from `Signed`: only the holder of the lock
  writes the cookie or the envelope, and it publishes only where its tab has read
  what is persisted (`CurrentIsPersisted`).
- `AskersAnswered` (`AnswerIsTheAskers`), an action property, from `Newest` and
  `Kin`.

### `BrowserSettledProofs`

Assumption: `BrowserAssumption`; the theorem has the form `Spec /\ []Apart => ...`.
It rests on the theorems' `IInv` above and on a second invariant, `AInv`, which TLC
checked under `Apart` with the run's constants:

- `Order`: a tab that has nothing to hear of shows what is persisted, or is signing
  out (`Heard`); what a tab or a call holds is no newer than what is persisted
  (`Last`, `Since`, `Older`); a sign-in in flight is counted, and if it has been
  retired then by a sign-out with `cleanup` that captured what is persisted
  (`InFlight`, `Exchanging`);
- `Numbers`: no token is of a rotation that has not been (`Serial`, `Numbered`),
  what the server refused it would refuse again (`Answered`), and a refresh that is
  answered brings a newer token than any in use (`Fresh`);
- `Ripeness`: what has been persisted since a call began has not expired, so that a
  call whose token was refused never takes a later one for the one refused
  (`Overtaken`, `Ripe`, `RipeTabs`);
- `Faultless`: while nothing has been lost, no spent cookie was presented; the
  cookie is the last of its session, or the answer with the last is on its way
  (`Unspent`); and its session is the one persisted, or has ended, or will be ended
  by a sign-out that is in the line for the lock or holds it (`Paired`).

`TabsAgreeWhenSettled` (`AgreeWhenSettled`) follows: when every call is idle and
every tab has heard, only the first case of `Heard`, `Unspent` and `Paired` is left.
What makes the invariant hard is `Paired`: between the answer that sets the cookie
and the envelope that names its session, a sign-out may overtake a sign-in or a
refresh, and each way it can is one that `cleanup`, the captured envelope or the
second `logout` closes.

### Only model-checked

- Liveness under fairness (`CallersReleased`, `SwapsEnd`): out of the prover's
  reach, as is all that needs `ENABLED`.
- `EndedStaysEnded`, `AnswerIsTheAskers` and `AgreeWhenSettled` of `BrowserSession`
  without the condition `Apart`: TLC finds no violation with two calls at a time, and
  with four `AgreeWhenSettled` does not hold (above).
- The four runs that end in a violation.

A type invariant is stated in every module. `views` lists it, where it holds the
bound of the caches; it and those of `PublicationCache` and `ManifestSwap` are
proved; elsewhere the inductive invariants contain what types the proofs need.

## What is left

Not proved: `AgreeWhenSettled` and its companions under a condition weaker than
`Apart`, which would say exactly which sign-ins are harmless.

Not modelled:

- Of the browser's session client: `beginAuthorization` and the reconnect, which
  take the lock and write no envelope; the repair of an unreadable envelope and
  the migration of the old one, which happen once, before anything else; a
  browser without locks, where sign-out alone still works.
- The rest of the browser's data (coalesced preference writes, the optimistic
  wish list), which is concurrent and worth a model of its own.
- Bungie's client: a retry loop whose run is one step of the models. The rate
  limiter only delays it.
- Pure functions of data read once: search ranking, efficiency scoring, sources,
  recommendations, items' classification, the collections tree, how records and
  milestones are worded. There is no second definition to check them against.
- Input and output: HTTP decoding and routing, DIM's file format, logging,
  configuration, migrations, pruning, encryption and signatures, the UI.
- The contents of manifest queries; each is one read of one version.

## Running

    tlc -workers 2 -config MCCollectionsAnalysis_safety.cfg MCCollectionsAnalysis
    tlc -workers 2 -config MCViews_readers.cfg MCViews
    tlapm PublicationCacheProofs.tla

and so on for each `.cfg` and each `*Proofs` module. The largest proofs
(`AccountStoresProofs`, `BrowserSettledProofs`, `CollectionsAnalysisProofs`,
`ViewsProofs`) take several minutes.
