-------------------------- MODULE SessionLifecycle --------------------------
(***************************************************************************)
(* One user's browser sessions: sign-in, refresh with rotation and reuse   *)
(* detection, the revocation check with its cached answers, sign-out of    *)
(* one device and of all.  Session rows and the user's token version are   *)
(* in the database; each replica caches what it read of them for a while.  *)
(*                                                                         *)
(* A session's refresh tokens are numbered in the order they are handed    *)
(* out (the jti); a row holds the number it expects next, or 0 if there is *)
(* no row or it has expired.  Transactions are split where they take a     *)
(* row's lock.  A browser's tabs share its cookie and may present it       *)
(* twice.  Every token carries its session's id: those from before         *)
(* sessions were introduced, which a refresh adopts into a new session,    *)
(* are left out.                                                           *)
(***************************************************************************)
EXTENDS Integers, FiniteSets, Sequences, SequencesExt

CONSTANTS Replicas, Callers, Sessions,
          None,
          MaxSessionsPerUser,
          MaxTokens,     \* bound: refresh tokens minted
          MaxVersion,    \* bound: token versions
          MaxFaults      \* bound: failed writes and lost answers

ASSUME SessionAssumption ==
    /\ MaxSessionsPerUser \in Nat \ {0}
    /\ MaxTokens \in Nat /\ MaxVersion \in Nat /\ MaxFaults \in Nat
    /\ None \notin Replicas \cup Callers \cup Sessions \cup Int \cup BOOLEAN

VARIABLES
    version,     \* users.token_version
    row,         \* per session, refresh_sessions.current_jti, or 0
    recency,     \* the sessions with a row, by last_used_at
    rowLock,     \* per session, the caller whose transaction has its row locked
    authCache,   \* per replica, the cached token version, or None
    sessCache,   \* per replica and session, the cached SessionExists, or None
    minted,      \* per session, how many refresh tokens were minted
    cookie,      \* per session, the browser's refresh token, or None
    access,      \* per session, the version its access token carries, or None
    call,        \* per caller, where it is
    faults,      \* how many faults there have been
    presented,   \* history: the refresh tokens presented
    suspect,     \* history: sessions with one presented twice, or handed out unrecorded
    revoked      \* history: sessions begun before a sign-out of all devices

database == <<version, row, recency, rowLock>>
caches   == <<authCache, sessCache>>
browser  == <<cookie, access>>
history  == <<presented, suspect, revoked>>
vars == <<database, caches, minted, browser, call, faults, history>>

Versions == 1 .. MaxVersion
Jtis == 1 .. MaxTokens
RefreshToken == [jti: Jtis, version: Versions]

Idle == [pc |-> "idle", kind |-> None, on |-> None, session |-> None, jti |-> 0,
         version |-> 0, read |-> 0, victims |-> {}]

TypeOK ==
    /\ version \in Versions
    /\ row \in [Sessions -> 0 .. MaxTokens]
    /\ ToSet(recency) = {s \in Sessions : row[s] # 0} /\ IsInjective(recency)
    /\ rowLock \in [Sessions -> Callers \cup {None}]
    /\ authCache \in [Replicas -> Versions \cup {None}]
    /\ sessCache \in [Replicas -> [Sessions -> BOOLEAN \cup {None}]]
    /\ minted \in [Sessions -> 0 .. MaxTokens]
    /\ cookie \in [Sessions -> RefreshToken \cup {None}]
    /\ access \in [Sessions -> Versions \cup {None}]
    /\ DOMAIN call = Callers
    /\ faults \in 0 .. MaxFaults

Init ==
    /\ version = 1
    /\ row = [s \in Sessions |-> 0] /\ recency = << >>
    /\ rowLock = [s \in Sessions |-> None]
    /\ authCache = [r \in Replicas |-> None]
    /\ sessCache = [r \in Replicas |-> [s \in Sessions |-> None]]
    /\ minted = [s \in Sessions |-> 0]
    /\ cookie = [s \in Sessions |-> None]
    /\ access = [s \in Sessions |-> None]
    /\ call = [c \in Callers |-> Idle]
    /\ faults = 0
    /\ presented = {} /\ suspect = {} /\ revoked = {}

-----------------------------------------------------------------------------

Goes(c, next) == call' = [call EXCEPT ![c] = next]
GoesTo(c, pc) == Goes(c, [call[c] EXCEPT !.pc = pc])
Ends(c) == Goes(c, Idle)

Total == FoldFunction(+, 0, minted)

Fault == faults < MaxFaults /\ faults' = faults + 1

Unlocked(s) == rowLock[s] = None

\* Rows go, with their place among the recently used.
Removed(gone) ==
    /\ row' = [s \in Sessions |-> IF s \in gone THEN 0 ELSE row[s]]
    /\ recency' = SelectSeq(recency, LAMBDA s : s \notin gone)

\* A refresh that is refused also expires the cookie.
Refused(c) ==
    /\ Ends(c)
    /\ cookie' = IF call[c].kind = "refresh" THEN [cookie EXCEPT ![call[c].session] = None]
                 ELSE cookie
    /\ UNCHANGED access

-----------------------------------------------------------------------------
(* Sign-in. *)

\* Bug: the answer does not wait for the row.
LoginAnswered(c, s) ==
    /\ call[c] = Idle
    /\ minted[s] = 0 /\ Total < MaxTokens
    /\ Goes(c, [Idle EXCEPT !.pc = "insert", !.kind = "login",
                            !.session = s, !.jti = 1, !.version = version])
    /\ minted' = [minted EXCEPT ![s] = 1]
    /\ access' = [access EXCEPT ![s] = version]
    /\ UNCHANGED <<database, caches, cookie, faults, history>>

\* Login: the user row is upserted and its version read; if that fails the
\* tokens will carry version 1.
Login(c, s) ==
    /\ call[c] = Idle
    /\ minted[s] = 0 /\ Total < MaxTokens
    /\ \/ faults' = faults /\ Goes(c, [Idle EXCEPT !.pc = "insert", !.kind = "login",
                                                   !.session = s, !.jti = 1, !.version = version])
       \/ Fault /\ Goes(c, [Idle EXCEPT !.pc = "insert", !.kind = "login",
                                        !.session = s, !.jti = 1, !.version = 1])
    /\ minted' = [minted EXCEPT ![s] = 1]
    /\ UNCHANGED <<database, caches, browser, history>>

\* CreateSession inserts the row and looks for those past the cap, which sees
\* no other transaction's insert.
PastCap(s) == LET kept == Append(recency, s)
              IN {kept[i] : i \in 1 .. Len(kept) - MaxSessionsPerUser}

Insert(c) ==
    /\ call[c].pc = "insert"
    /\ Goes(c, [call[c] EXCEPT !.pc = "create", !.victims = PastCap(call[c].session)])
    /\ UNCHANGED <<database, caches, minted, browser, faults, history>>

\* It deletes those, waiting for their locks, and commits; or it fails, and
\* with it the sign-in.
Create(c) ==
    LET s == call[c].session
    IN /\ call[c].pc = "create"
       /\ \A victim \in call[c].victims : Unlocked(victim)
       /\ row' = [t \in Sessions |-> IF t = s THEN 1
                                     ELSE IF t \in call[c].victims THEN 0 ELSE row[t]]
       /\ recency' = Append(SelectSeq(recency, LAMBDA t : t \notin call[c].victims), s)
       /\ GoesTo(c, "respond")
       /\ UNCHANGED <<version, rowLock, caches, minted, browser, faults, history>>

CreateFails(c) ==
    /\ call[c].pc \in {"insert", "create"}
    /\ Fault
    /\ Ends(c)
    /\ UNCHANGED <<database, caches, minted, browser, history>>

\* The answer sets the cookie and the access token, unless it is lost.
Respond(c) ==
    LET s == call[c].session
    IN /\ call[c].pc = "respond"
       /\ cookie' = [cookie EXCEPT ![s] = [jti |-> call[c].jti, version |-> call[c].version]]
       /\ access' = [access EXCEPT ![s] = call[c].version]
       /\ Ends(c)
       /\ UNCHANGED <<database, caches, minted, faults, history>>

LoseAnswer(c) ==
    /\ call[c].pc = "respond"
    /\ Fault
    /\ Ends(c)
    /\ UNCHANGED <<database, caches, minted, browser, history>>

-----------------------------------------------------------------------------
(* The revocation check, of a request's access token or of a refresh. *)

\* The middleware: a sign-out of this device or of all is a request too.
Request(c, r, s, kind) ==
    /\ call[c] = Idle
    /\ access[s] # None
    /\ Goes(c, [Idle EXCEPT !.pc = "resolve", !.kind = kind, !.on = r, !.session = s,
                            !.version = access[s]])
    /\ UNCHANGED <<database, caches, minted, browser, faults, history>>

Refresh(c, r, s) ==
    LET token == <<s, cookie[s].jti>>
    IN /\ call[c] = Idle
       /\ cookie[s] # None
       /\ Goes(c, [Idle EXCEPT !.pc = "resolve", !.kind = "refresh", !.on = r, !.session = s,
                               !.jti = cookie[s].jti, !.version = cookie[s].version])
       /\ presented' = presented \cup {token}
       /\ suspect' = IF token \in presented THEN suspect \cup {s} ELSE suspect
       /\ UNCHANGED <<database, caches, minted, browser, faults, revoked>>

Admitted(c) ==
    LET to(pc) == [call[c] EXCEPT !.pc = pc, !.read = 0]
        ends(pc) == [to(pc) EXCEPT !.version = 0]
    IN CASE call[c].kind = "refresh" -> Goes(c, [to("rotate") EXCEPT !.on = None])
         [] call[c].kind = "end"     -> Goes(c, ends("delete"))
         [] call[c].kind = "endAll"  -> Goes(c, ends("bump"))
         [] OTHER                    -> Ends(c)

\* The claimed version is compared with the user's; a request then has its
\* session checked.
Judged(c, current) ==
    IF current # call[c].version THEN Refused(c)
    ELSE /\ IF call[c].kind = "refresh" THEN Admitted(c) ELSE GoesTo(c, "checkSession")
         /\ UNCHANGED browser

\* Resolve: from the cache, or from the row, which is then cached.  If the
\* read fails the caller is let through.
Resolve(c) ==
    /\ call[c].pc = "resolve"
    /\ IF authCache[call[c].on] # None
       THEN Judged(c, authCache[call[c].on]) /\ UNCHANGED faults
       ELSE /\ UNCHANGED browser
            /\ \/ Goes(c, [call[c] EXCEPT !.pc = "cacheVersion", !.read = version])
                  /\ UNCHANGED faults
               \/ Fault /\ Admitted(c)
    /\ UNCHANGED <<database, caches, minted, history>>

CacheVersion(c) ==
    /\ call[c].pc = "cacheVersion"
    /\ authCache' = [authCache EXCEPT ![call[c].on] = call[c].read]
    /\ Judged(c, call[c].read)
    /\ UNCHANGED <<database, sessCache, minted, faults, history>>

\* checkSession, likewise.
CheckSession(c) ==
    LET cached == sessCache[call[c].on][call[c].session]
    IN /\ call[c].pc = "checkSession"
       /\ IF cached # None
          THEN /\ IF cached THEN Admitted(c) ELSE Ends(c)
               /\ UNCHANGED faults
          ELSE \/ Goes(c, [call[c] EXCEPT !.pc = "cacheSession", !.read = row[call[c].session]])
                  /\ UNCHANGED faults
               \/ Fault /\ Admitted(c)
       /\ UNCHANGED <<database, caches, minted, browser, history>>

CacheSession(c) ==
    /\ call[c].pc = "cacheSession"
    /\ sessCache' = [sessCache EXCEPT ![call[c].on][call[c].session] = call[c].read # 0]
    /\ IF call[c].read # 0 THEN Admitted(c) ELSE Ends(c)
    /\ UNCHANGED <<database, authCache, minted, browser, faults, history>>

\* An entry's TTL runs out.
Expire(r) ==
    /\ \/ authCache[r] # None /\ authCache' = [authCache EXCEPT ![r] = None]
          /\ UNCHANGED sessCache
       \/ \E s \in Sessions : /\ sessCache[r][s] # None
                              /\ sessCache' = [sessCache EXCEPT ![r][s] = None]
                              /\ UNCHANGED authCache
    /\ UNCHANGED <<database, minted, browser, call, faults, history>>

-----------------------------------------------------------------------------
(* RotateSession. *)

\* The next token of a session is minted; the version is the presented one's.
\* Bug: it is the user's current one.
MintedNow(c) == version
MintedVersion(c) == call[c].version

Mint(c, pc) ==
    LET s == call[c].session
    IN /\ Total < MaxTokens
       /\ minted' = [minted EXCEPT ![s] = @ + 1]
       /\ Goes(c, [call[c] EXCEPT !.pc = pc, !.jti = minted[s] + 1, !.read = 0,
                                  !.version = MintedVersion(c)])

\* SELECT ... FOR UPDATE.  No row: the session has expired or was ended.
\* Bug: the row is read and not locked.
Unheld(c) == UNCHANGED rowLock
Held(c) == rowLock' = [rowLock EXCEPT ![call[c].session] = c]
Released(c) == rowLock' = [s \in Sessions |-> IF rowLock[s] = c THEN None ELSE rowLock[s]]

LockRow(c) ==
    LET s == call[c].session
    IN /\ call[c].pc = "rotate"
       /\ Unlocked(s)
       /\ IF row[s] = 0 THEN Refused(c) /\ UNCHANGED rowLock
          ELSE /\ Held(c)
               /\ Goes(c, [call[c] EXCEPT !.pc = "swap", !.read = row[s]])
               /\ UNCHANGED browser
       /\ UNCHANGED <<version, row, recency, caches, minted, faults, history>>

\* The row expects the presented token, and now expects the next.
\* Bug: it goes on expecting the presented one.
RotateUnrecorded(c) ==
    LET s == call[c].session
    IN /\ call[c].pc = "swap"
       /\ call[c].read = call[c].jti
       /\ Mint(c, "respond")
       /\ Released(c)
       /\ UNCHANGED <<version, row, recency, caches, browser, faults, history>>

Rotate(c) ==
    LET s == call[c].session
    IN /\ call[c].pc = "swap"
       /\ call[c].read = call[c].jti
       /\ Mint(c, "respond")
       /\ row' = [row EXCEPT ![s] = minted[s] + 1]
       /\ recency' = Append(SelectSeq(recency, LAMBDA t : t # s), s)
       /\ Released(c)
       /\ UNCHANGED <<version, caches, browser, faults, history>>

\* It expects another: the presented one is a replay, and the session ends.
Reuse(c) ==
    /\ call[c].pc = "swap"
    /\ call[c].read # call[c].jti
    /\ \/ Removed({call[c].session}) /\ UNCHANGED faults
       \/ Fault /\ UNCHANGED <<row, recency>>
    /\ Released(c)
    /\ Refused(c)
    /\ UNCHANGED <<version, caches, minted, history>>

\* The store fails otherwise: the new token is handed out, recorded or not.
FailOpen(c) ==
    LET s == call[c].session
    IN /\ call[c].pc = "rotate" \/ (call[c].pc = "swap" /\ call[c].read = call[c].jti)
       /\ Fault
       /\ Mint(c, "respond")
       /\ suspect' = suspect \cup {s}
       /\ Released(c)
       /\ UNCHANGED <<version, row, recency, caches, browser, presented, revoked>>

-----------------------------------------------------------------------------
(* Ending sessions. *)

\* A row expires.
Lapse(s) ==
    /\ row[s] # 0 /\ Unlocked(s)
    /\ Removed({s})
    /\ UNCHANGED <<version, rowLock, caches, minted, browser, call, faults, history>>

\* EndSession: the row goes, then the cached answer.
DeleteSession(c) ==
    /\ call[c].pc = "delete"
    /\ Unlocked(call[c].session)
    /\ Removed({call[c].session})
    /\ GoesTo(c, "evict")
    /\ UNCHANGED <<version, rowLock, caches, minted, browser, faults, history>>

\* EndAllSessions: the version moves, the rows go, then the cached version.
BumpTokenVersion(c) ==
    /\ call[c].pc = "bump"
    /\ version < MaxVersion
    /\ version' = version + 1
    /\ revoked' = {s \in Sessions : minted[s] # 0}
    /\ GoesTo(c, "deleteAll")
    /\ UNCHANGED <<row, recency, rowLock, caches, minted, browser, faults, presented, suspect>>

DeleteUserSessions(c) ==
    /\ call[c].pc = "deleteAll"
    /\ \A s \in Sessions : Unlocked(s)
    /\ Removed(Sessions)
    /\ GoesTo(c, "evict")
    /\ UNCHANGED <<version, rowLock, caches, minted, browser, faults, history>>

\* One of these fails; the handler goes on, and will answer 200.
EndFails(c) ==
    /\ call[c].pc \in {"delete", "bump", "deleteAll"}
    /\ Fault
    /\ GoesTo(c, IF call[c].pc = "bump" THEN "deleteAll" ELSE "evict")
    /\ UNCHANGED <<database, caches, minted, browser, history>>

\* The local cache's answer goes, and the browser is told to drop its cookie.
Evict(c) ==
    LET r == call[c].on
    IN /\ call[c].pc = "evict"
       /\ IF call[c].kind = "end"
          THEN /\ sessCache' = [sessCache EXCEPT ![r][call[c].session] = None]
               /\ UNCHANGED authCache
          ELSE /\ authCache' = [authCache EXCEPT ![r] = None]
               /\ UNCHANGED sessCache
       /\ cookie' = [cookie EXCEPT ![call[c].session] = None]
       /\ Ends(c)
       /\ UNCHANGED <<database, minted, access, faults, history>>

Next ==
    \/ \E c \in Callers, s \in Sessions : Login(c, s)
    \/ \E c \in Callers, r \in Replicas, s \in Sessions :
          \/ Refresh(c, r, s)
          \/ \E kind \in {"request", "end", "endAll"} : Request(c, r, s, kind)
    \/ \E c \in Callers :
          \/ Insert(c) \/ Create(c) \/ CreateFails(c) \/ Respond(c) \/ LoseAnswer(c)
          \/ Resolve(c) \/ CacheVersion(c) \/ CheckSession(c) \/ CacheSession(c)
          \/ LockRow(c) \/ Rotate(c) \/ Reuse(c) \/ FailOpen(c)
          \/ DeleteSession(c) \/ BumpTokenVersion(c) \/ DeleteUserSessions(c) \/ EndFails(c)
          \/ Evict(c)
    \/ \E r \in Replicas : Expire(r)
    \/ \E s \in Sessions : Lapse(s)

Spec == Init /\ [][Next]_vars

-----------------------------------------------------------------------------
(* Properties. *)

\* No refresh carries a session over a sign-out of all devices: whatever a
\* session begun before it holds afterwards, from sign-ins and refreshes in
\* flight or from a replica that still caches the old version, is of an old
\* version.
NoTokenSurvivesSignOut ==
    \A s \in revoked :
        /\ cookie[s] # None => cookie[s].version < version
        /\ access[s] # None => access[s] < version

\* Whatever tabs, replicas and sign-outs meet: a rotation replaces the token it
\* was presented.  No token is rotated twice, and no session that has ended
\* meanwhile comes back.
TokenRotatesOnce ==
    [][ \A s \in Sessions, c \in Callers :
          row'[s] \notin {0, row[s]} /\ call[c].pc = "swap" /\ call[c].session = s
          /\ call'[c] # call[c] => row[s] = call[c].jti ]_vars

\* Reuse detection ends no session whose browser presented each token once
\* and got every one from a rotation that was recorded.
EndedOnlyForReplay ==
    \A c \in Callers : call[c].pc = "swap" /\ call[c].read # call[c].jti
                           => call[c].session \in suspect

\* A cached "no such session" is final: it is never about a session that has
\* yet to get its row, whose browser would be refused until the entry ages out.
RefusalIsFinal ==
    \A r \in Replicas, s \in Sessions : sessCache[r][s] = FALSE => row[s] = 0

=============================================================================
