------------------------ MODULE SessionLifecycleProofs ------------------------
(***************************************************************************)
(* Theorems about SessionLifecycle, for any number of replicas, callers    *)
(* and sessions, any cap on sessions, and any number of faults.            *)
(***************************************************************************)
EXTENDS SessionLifecycle, TLAPS

\* The fields of a call, whatever their values.
CallFields == {"pc", "kind", "on", "session", "jti", "version", "read", "victims"}

IsCall(x) == x = [field \in CallFields |-> x[field]]

\* One answer for each replica and session.
IsTable(t) == t = [r \in Replicas |-> [s \in Sessions |-> t[r][s]]]

\* A refresh that has presented its token and has not yet had it replaced.
Presenting(c) ==
    /\ call[c].pc \in {"resolve", "cacheVersion", "rotate", "swap"}
    /\ call[c].kind = "refresh"

\* A sign-in whose browser has not been answered.
Starting(c) ==
    \/ call[c].pc \in {"insert", "create"}
    \/ call[c].pc = "respond" /\ call[c].kind = "login"

Shape ==
    /\ version \in Nat \ {0}
    /\ minted \in [Sessions -> Nat]
    /\ row = [s \in Sessions |-> row[s]]
    /\ rowLock \in [Sessions -> Callers \cup {None}]
    /\ IsTable(sessCache)
    /\ cookie = [s \in Sessions |-> cookie[s]]
    /\ access = [s \in Sessions |-> access[s]]
    /\ call = [c \in Callers |-> call[c]]
    /\ \A c \in Callers :
          /\ IsCall(call[c])
          /\ IF call[c].pc = "idle" THEN call[c].session = None
                                    ELSE call[c].session \in Sessions

\* Which calls reach which step.
KindsOfSteps ==
    \A c \in Callers :
        /\ call[c].pc \in {"insert", "create"} => call[c].kind = "login"
        /\ call[c].pc \in {"rotate", "swap"} => call[c].kind = "refresh"
        /\ call[c].pc = "respond" => call[c].kind \in {"login", "refresh"}
        /\ call[c].pc \in {"resolve", "cacheVersion"} =>
              call[c].kind \in {"refresh", "request", "end", "endAll"}
        /\ call[c].pc \in {"checkSession", "cacheSession"} =>
              call[c].kind \in {"request", "end", "endAll"}

\* The row's lock is held by the rotation that has read the row, and by no
\* other, so that what it read is still there.
RowsHeld ==
    /\ \A s \in Sessions, c \in Callers :
          rowLock[s] = c <=> call[c].pc = "swap" /\ call[c].session = s
    /\ \A c \in Callers : call[c].pc = "swap" =>
          call[c].read = row[call[c].session] /\ call[c].read # 0

\* Until its sign-in is answered, a session is unknown but to that sign-in.
KnownToNobody(s) ==
    /\ cookie[s] = None /\ access[s] = None
    /\ \A r \in Replicas : sessCache[r][s] # FALSE

Beginnings ==
    /\ \A s \in Sessions : minted[s] = 0 =>
          KnownToNobody(s) /\ \A c \in Callers : call[c].session # s
    /\ \A c \in Callers : Starting(c) =>
          /\ KnownToNobody(call[c].session)
          /\ \A d \in Callers \ {c} : call[d].session # call[c].session
          /\ call[c].jti = 1

\* A session found without a row stays without one.
AbsenceLasts ==
    \A c \in Callers :
        call[c].pc = "cacheSession" /\ call[c].read = 0 => row[call[c].session] = 0

\* Nothing carries a version to come, nor, for a session begun before the last
\* sign-out of all devices, the current one.
OldFor(s, v) == v \in Nat /\ v <= version /\ (s \in revoked => v < version)

VersionsPast ==
    /\ \A s \in revoked : s \in Sessions /\ minted[s] # 0
    /\ \A c \in Callers : OldFor(call[c].session, call[c].version)
    /\ \A s \in Sessions :
          /\ cookie[s] # None => OldFor(s, cookie[s].version)
          /\ access[s] # None => OldFor(s, access[s])

\* A token that may yet be presented for the first time is the one its row
\* expects.
Fresh(s, jti) == jti = row[s] \/ <<s, jti>> \in presented

\* Of a session that gave no cause for suspicion, the one token presented and
\* not yet replaced is the one its row expects, and so is any other in the
\* browser's hands or on its way there that was not yet presented.
TokenChain ==
    \A s \in Sessions \ suspect :
        /\ \A c \in Callers : Presenting(c) /\ call[c].session = s =>
              /\ <<s, call[c].jti>> \in presented
              /\ row[s] # 0 => call[c].jti = row[s]
              /\ \A d \in Callers \ {c} : Presenting(d) /\ call[d].session = s =>
                    call[d].jti # call[c].jti
        /\ row[s] # 0 =>
              /\ cookie[s] # None => Fresh(s, cookie[s].jti)
              /\ \A c \in Callers : call[c].pc = "respond" /\ call[c].session = s =>
                    Fresh(s, call[c].jti)

IInv == /\ Shape /\ KindsOfSteps /\ RowsHeld /\ Beginnings /\ AbsenceLasts
        /\ RefusalIsFinal /\ VersionsPast /\ TokenChain

-----------------------------------------------------------------------------
(* Steps that hand nothing out: a call moves on, is refused or ends, rows    *)
(* go, and so do the browser's cookie and cached answers.                    *)

\* What becomes of caller c's call.
QuietCall(c, new) ==
    /\ call' = [call EXCEPT ![c] = new] /\ IsCall(new)
    /\ IF new.pc = "idle" THEN new.session = None /\ new.version = 0
       ELSE /\ call[c].pc # "idle"
            /\ new.kind = call[c].kind /\ new.session = call[c].session
            /\ new.jti = call[c].jti /\ new.version \in {call[c].version, 0}
    /\ new.pc \notin {"swap", "respond"}
    /\ new.pc \in {"insert", "create"} => Starting(c)
    /\ new.pc \in {"resolve", "cacheVersion"} => call[c].pc = "resolve"
    /\ new.pc = "rotate" => Presenting(c)
    /\ new.pc \in {"checkSession", "cacheSession"} =>
          call[c].kind \in {"request", "end", "endAll"}
    /\ new.pc = "cacheSession" /\ new.read = 0 => row[call[c].session] = 0

\* Its transaction, if it has one, deletes the rows gone and ends.
QuietRows(c, gone) ==
    /\ Released(c)
    /\ row' = [s \in Sessions |-> IF s \in gone THEN 0 ELSE row[s]]
    /\ \A s \in Sessions \cap gone : rowLock[s] \in {None, c}
    /\ UNCHANGED <<version, minted>>

\* What the browser and the replicas hold.
QuietCopies(c) ==
    /\ cookie' = [s \in Sessions |-> cookie'[s]]
    /\ \A s \in Sessions : cookie'[s] \in {cookie[s], None}
    /\ IsTable(sessCache')
    /\ \A r \in Replicas, s \in Sessions :
          sessCache'[r][s] = FALSE =>
              \/ sessCache[r][s] = FALSE
              \/ call[c].pc = "cacheSession" /\ call[c].read = 0 /\ call[c].session = s
    /\ UNCHANGED <<access, presented, suspect, revoked>>

Quiet(c, new, gone) == QuietCall(c, new) /\ QuietRows(c, gone) /\ QuietCopies(c)

\* Such a step preserves the invariant.
LEMMA QuietStep ==
    ASSUME IInv, NEW c \in Callers, NEW new, NEW gone, Quiet(c, new, gone)
    PROVE  IInv'
<1>0. None \notin Callers \cup Sessions
  BY SessionAssumption
<1>1. /\ Shape /\ KindsOfSteps /\ RowsHeld /\ Beginnings /\ AbsenceLasts
      /\ RefusalIsFinal /\ VersionsPast /\ TokenChain
  BY DEF IInv
<1>2. \A d \in Callers : call'[d] = IF d = c THEN new ELSE call[d]
  BY <1>1 DEF Quiet, QuietCall, QuietRows, QuietCopies, Shape
<1>3. Shape'
  BY <1>0, <1>1, <1>2 DEF Quiet, QuietCall, QuietRows, QuietCopies, Shape, Released
<1>4. KindsOfSteps'
  BY <1>1, <1>2 DEF Quiet, QuietCall, KindsOfSteps, Presenting, Starting
<1>5. RowsHeld'
  BY <1>0, <1>1, <1>2 DEF Quiet, QuietCall, QuietRows, QuietCopies, RowsHeld, Shape, Released
<1>a. \A d \in Callers, s \in Sessions :
         call'[d].session = s => call[d].session = s
  BY <1>0, <1>1, <1>2 DEF Quiet, QuietCall, QuietRows, QuietCopies, Shape
<1>6. Beginnings'
  <2>1. ASSUME NEW s \in Sessions, KnownToNobody(s),
               call[c].pc = "cacheSession" => call[c].session # s
        PROVE  KnownToNobody(s)'
    BY <2>1 DEF Quiet, QuietCall, QuietRows, QuietCopies, KnownToNobody
  <2>2. ASSUME NEW s \in Sessions, minted'[s] = 0
        PROVE  KnownToNobody(s)' /\ \A d \in Callers : call'[d].session # s
    BY <1>1, <1>a, <2>1, <2>2 DEF Quiet, QuietCall, QuietRows, QuietCopies, Beginnings
  <2>3. ASSUME NEW d \in Callers, Starting(d)'
        PROVE  /\ Starting(d)
               /\ call'[d].session = call[d].session /\ call'[d].jti = call[d].jti
               /\ call[d].session \in Sessions
    BY <1>1, <1>2, <2>3 DEF Quiet, QuietCall, QuietRows, QuietCopies, Starting, Shape
  <2>4. ASSUME NEW d \in Callers, Starting(d)'
        PROVE  /\ KnownToNobody(call[d].session)'
               /\ \A e \in Callers \ {d} : call'[e].session # call'[d].session
               /\ call'[d].jti = 1
    <3>1. /\ KnownToNobody(call[d].session)
          /\ \A e \in Callers \ {d} : call[e].session # call[d].session
          /\ call[d].jti = 1
      BY <1>1, <2>3, <2>4 DEF Beginnings
    <3>2. call[c].pc = "cacheSession" => c # d
      BY <2>3, <2>4 DEF Starting
    <3>3. call[c].pc = "cacheSession" => call[c].session # call[d].session
      BY <3>1, <3>2
    <3>4. KnownToNobody(call[d].session)'
      BY <2>1, <2>3, <2>4, <3>1, <3>3 DEF KnownToNobody
    <3> QED
      BY <1>a, <2>3, <2>4, <3>1, <3>4
  <2> QED
    BY <2>2, <2>4 DEF Beginnings
<1>7. AbsenceLasts' /\ RefusalIsFinal'
  BY <1>0, <1>1, <1>2 DEF Quiet, QuietCall, QuietRows, QuietCopies, AbsenceLasts, RefusalIsFinal, Shape
<1>8. VersionsPast'
  BY <1>0, <1>1, <1>2 DEF Quiet, QuietCall, QuietRows, QuietCopies, VersionsPast, Shape, OldFor
<1>9. TokenChain'
  <2>1. \A d \in Callers : Presenting(d)' =>
           Presenting(d) /\ call'[d].session = call[d].session /\ call'[d].jti = call[d].jti
    BY <1>2 DEF Quiet, QuietCall, QuietRows, QuietCopies, Presenting
  <2>2. \A d \in Callers : call'[d].pc = "respond" => call'[d] = call[d]
    BY <1>2 DEF Quiet, QuietCall, QuietRows, QuietCopies
  <2>3. \A s \in Sessions : row'[s] # 0 => row'[s] = row[s]
    BY DEF Quiet, QuietCall, QuietRows, QuietCopies
  <2>4. /\ \A s \in Sessions : cookie'[s] # None => cookie'[s] = cookie[s]
        /\ UNCHANGED <<presented, suspect>>
    BY DEF Quiet, QuietCall, QuietRows, QuietCopies
  <2> SUFFICES ASSUME NEW s \in Sessions \ suspect, NEW d \in Callers
               PROVE  /\ Presenting(d)' /\ call'[d].session = s =>
                           /\ <<s, call'[d].jti>> \in presented
                           /\ row'[s] # 0 => call'[d].jti = row'[s]
                           /\ \A e \in Callers \ {d} :
                                 Presenting(e)' /\ call'[e].session = s =>
                                     call'[e].jti # call'[d].jti
                      /\ row'[s] # 0 => /\ cookie'[s] # None => Fresh(s, cookie[s].jti)'
                                        /\ call'[d].pc = "respond" /\ call'[d].session = s
                                               => Fresh(s, call[d].jti)'
    BY <2>4 DEF TokenChain
  <2>5. Presenting(d)' /\ call'[d].session = s =>
           /\ <<s, call'[d].jti>> \in presented
           /\ row'[s] # 0 => call'[d].jti = row'[s]
           /\ \A e \in Callers \ {d} : Presenting(e)' /\ call'[e].session = s =>
                 call'[e].jti # call'[d].jti
    BY <1>1, <2>1, <2>3 DEF TokenChain
  <2>6. row'[s] # 0 /\ cookie'[s] # None => Fresh(s, cookie[s].jti)'
    BY <1>1, <2>3, <2>4 DEF TokenChain, Fresh
  <2>7. row'[s] # 0 /\ call'[d].pc = "respond" /\ call'[d].session = s
           => Fresh(s, call[d].jti)'
    BY <1>1, <2>2, <2>3, <2>4 DEF TokenChain, Fresh
  <2> QED
    BY <2>5, <2>6, <2>7
<1> QED
  BY <1>3, <1>4, <1>5, <1>6, <1>7, <1>8, <1>9 DEF IInv

\* A step that touches neither rows nor locks is quiet about them unless the
\* caller holds a lock.
LEMMA RowsUntouched ==
    ASSUME IInv, NEW c \in Callers, call[c].pc # "swap",
           UNCHANGED <<version, row, rowLock, minted>>
    PROVE  QuietRows(c, {})
<1>1. \A s \in Sessions : rowLock[s] # c
  BY DEF IInv, RowsHeld
<1> QED
  BY <1>1 DEF IInv, Shape, QuietRows, Released

\* So is one that touches neither the browser nor the cached answers.
LEMMA CopiesUntouched ==
    ASSUME Shape, NEW c \in Callers,
           UNCHANGED <<sessCache, cookie, access, presented, suspect, revoked>>
    PROVE  QuietCopies(c)
BY DEF Shape, QuietCopies

\* A call may always end.
LEMMA EndedCall ==
    ASSUME NEW c \in Callers, Ends(c)
    PROVE  QuietCall(c, Idle)
<1>1. IsCall(Idle) /\ Idle.pc = "idle" /\ Idle.session = None /\ Idle.version = 0
  BY DEF Idle, IsCall, CallFields
<1> QED
  BY <1>1 DEF Ends, Goes, QuietCall

\* A refusal is quiet about everything it touches.
LEMMA RefusedCopies ==
    ASSUME Shape, NEW c \in Callers, Refused(c),
           UNCHANGED <<sessCache, presented, suspect, revoked>>
    PROVE  QuietCall(c, Idle) /\ QuietCopies(c)
<1>1. QuietCall(c, Idle)
  BY EndedCall DEF Refused
<1>2. UNCHANGED <<access, sessCache, presented, suspect, revoked>>
  BY DEF Refused
<1>3. /\ cookie' = [s \in Sessions |-> cookie'[s]]
      /\ \A s \in Sessions : cookie'[s] \in {cookie[s], None}
  BY DEF Refused, Shape
<1> QED
  BY <1>1, <1>2, <1>3 DEF Shape, QuietCopies

\* Being let through is quiet.
LEMMA AdmittedCall ==
    ASSUME IInv, NEW c \in Callers, Admitted(c),
           call[c].pc \in {"resolve", "cacheVersion", "checkSession", "cacheSession"}
    PROVE  \E new : QuietCall(c, new)
<1>1. /\ IsCall(call[c]) /\ call[c].kind \in {"refresh", "request", "end", "endAll"}
      /\ call[c].kind = "refresh" => Presenting(c)
  BY DEF IInv, Shape, KindsOfSteps, Presenting
<1>2. CASE call[c].kind = "refresh"
  <2> DEFINE new == [[call[c] EXCEPT !.pc = "rotate", !.read = 0] EXCEPT !.on = None]
  <2>1. call' = [call EXCEPT ![c] = new]
    BY <1>2 DEF Admitted, Goes
  <2>2. /\ IsCall(new) /\ new.pc = "rotate" /\ new.kind = call[c].kind
        /\ new.session = call[c].session /\ new.jti = call[c].jti
        /\ new.version = call[c].version
    BY <1>1 DEF IsCall, CallFields
  <2> HIDE DEF new
  <2> QED
    BY <1>1, <1>2, <2>1, <2>2 DEF QuietCall
<1>3. ASSUME NEW step \in {"delete", "bump"},
             Goes(c, [[call[c] EXCEPT !.pc = step, !.read = 0] EXCEPT !.version = 0])
      PROVE  \E new : QuietCall(c, new)
  <2> DEFINE new == [[call[c] EXCEPT !.pc = step, !.read = 0] EXCEPT !.version = 0]
  <2>1. call' = [call EXCEPT ![c] = new]
    BY <1>3 DEF Goes
  <2>2. /\ IsCall(new) /\ new.pc = step /\ new.kind = call[c].kind
        /\ new.session = call[c].session /\ new.jti = call[c].jti /\ new.version = 0
    BY <1>1 DEF IsCall, CallFields
  <2> HIDE DEF new
  <2> QED
    BY <1>3, <2>1, <2>2 DEF QuietCall
<1>4. CASE call[c].kind = "end"
  BY <1>3, <1>4 DEF Admitted
<1>5. CASE call[c].kind = "endAll"
  BY <1>3, <1>5 DEF Admitted
<1>6. CASE call[c].kind = "request"
  BY <1>6, EndedCall DEF Admitted
<1> QED
  BY <1>1, <1>2, <1>4, <1>5, <1>6

\* A verdict on the version is quiet.
LEMMA JudgedCall ==
    ASSUME IInv, NEW c \in Callers, NEW current, Judged(c, current),
           call[c].pc \in {"resolve", "cacheVersion"},
           UNCHANGED <<sessCache, presented, suspect, revoked>>
    PROVE  (\E new : QuietCall(c, new)) /\ QuietCopies(c)
<1>1. CASE Refused(c)
  BY <1>1, RefusedCopies DEF IInv
<1>2. CASE ~Refused(c) /\ call[c].kind = "refresh"
  BY <1>2, AdmittedCall, CopiesUntouched DEF Judged, IInv, browser
<1>3. CASE ~Refused(c) /\ call[c].kind # "refresh"
  <2> DEFINE new == [call[c] EXCEPT !.pc = "checkSession"]
  <2>1. call' = [call EXCEPT ![c] = new] /\ UNCHANGED <<cookie, access>>
    BY <1>3 DEF Judged, GoesTo, Goes, browser
  <2>2. IsCall(call[c]) /\ call[c].kind \in {"request", "end", "endAll"}
    BY <1>3 DEF IInv, Shape, KindsOfSteps
  <2>3. /\ IsCall(new) /\ new.pc = "checkSession" /\ new.kind = call[c].kind
        /\ new.session = call[c].session /\ new.jti = call[c].jti
        /\ new.version = call[c].version
    BY <2>2 DEF IsCall, CallFields
  <2> HIDE DEF new
  <2>4. QuietCall(c, new)
    BY <2>1, <2>2, <2>3 DEF QuietCall
  <2> QED
    BY <2>1, <2>4, CopiesUntouched DEF IInv
<1> QED
  BY <1>1, <1>2, <1>3

\* It stays one when an answer is written.
LEMMA TableUpdated ==
    ASSUME NEW t, IsTable(t), NEW on, NEW session, NEW answer
    PROVE  IsTable([t EXCEPT ![on][session] = answer])
<1> DEFINE u == [t EXCEPT ![on][session] = answer]
<1>1. u = [r \in Replicas |-> IF r = on THEN [t[r] EXCEPT ![session] = answer] ELSE t[r]]
  BY DEF IsTable
<1>2. \A r \in Replicas : t[r] = [s \in Sessions |-> t[r][s]]
  BY DEF IsTable
<1>3. \A r \in Replicas :
         u[r] = [s \in Sessions |-> IF r = on /\ s = session THEN answer ELSE t[r][s]]
  BY <1>1, <1>2
<1>4. u = [r \in Replicas |-> u[r]]
  BY <1>1
<1> HIDE DEF u
<1>5. IsTable(u)
  BY <1>3, <1>4 DEF IsTable
<1> QED
  BY <1>5 DEF u

\* The revocation check, from the caches or from the database.
LEMMA CheckSteps ==
    ASSUME IInv, NEW c \in Callers,
           Resolve(c) \/ CacheVersion(c) \/ CheckSession(c) \/ CacheSession(c)
    PROVE  IInv'
<1> DEFINE ToCache(pc, value) == [call[c] EXCEPT !.pc = pc, !.read = value]
<1>0. /\ Shape /\ IsCall(call[c])
      /\ \A r \in Replicas, s \in Sessions : sessCache[r][s] = sessCache[r][s]
  BY DEF IInv, Shape
<1>1. QuietRows(c, {})
  <2>1. UNCHANGED <<version, row, rowLock, minted>> /\ call[c].pc # "swap"
    BY DEF Resolve, CacheVersion, CheckSession, CacheSession, database
  <2> QED
    BY <2>1, RowsUntouched
<1>2. ASSUME NEW pc \in {"cacheVersion", "cacheSession"}, NEW value, Goes(c, ToCache(pc, value)),
             IF pc = "cacheVersion" THEN call[c].pc = "resolve"
             ELSE call[c].pc = "checkSession" /\ value = row[call[c].session]
      PROVE  QuietCall(c, ToCache(pc, value))
  <2> DEFINE new == ToCache(pc, value)
  <2>1. /\ IsCall(new) /\ new.pc = pc /\ new.kind = call[c].kind
        /\ new.session = call[c].session /\ new.jti = call[c].jti
        /\ new.version = call[c].version /\ new.read = value
    BY <1>0 DEF IsCall, CallFields
  <2>2. call' = [call EXCEPT ![c] = new]
    BY <1>2 DEF Goes
  <2>3. call[c].pc = "checkSession" => call[c].kind \in {"request", "end", "endAll"}
    BY DEF IInv, KindsOfSteps
  <2> HIDE DEF new
  <2>4. QuietCall(c, new)
    BY <1>2, <2>1, <2>2, <2>3 DEF QuietCall
  <2> QED
    BY <2>4 DEF new
<1>3. CASE Resolve(c)
  <2>1. /\ call[c].pc = "resolve"
        /\ UNCHANGED <<sessCache, presented, suspect, revoked>>
    BY <1>3 DEF Resolve, caches, history
  <2>2. CASE Judged(c, authCache[call[c].on])
    BY <1>1, <2>1, <2>2, JudgedCall, QuietStep DEF Quiet
  <2>3. CASE Goes(c, ToCache("cacheVersion", version)) /\ UNCHANGED browser
    BY <1>0, <1>1, <1>2, <2>1, <2>3, CopiesUntouched, QuietStep DEF Quiet, browser
  <2>4. CASE Admitted(c) /\ UNCHANGED browser
    BY <1>0, <1>1, <2>1, <2>4, AdmittedCall, CopiesUntouched, QuietStep DEF Quiet, browser
  <2> QED
    BY <1>3, <2>2, <2>3, <2>4 DEF Resolve
<1>4. CASE CacheVersion(c)
  BY <1>1, <1>4, JudgedCall, QuietStep DEF CacheVersion, Quiet, history
<1>5. CASE CheckSession(c)
  <2>1. /\ call[c].pc = "checkSession"
        /\ QuietCopies(c)
    BY <1>0, <1>5, CopiesUntouched DEF CheckSession, caches, browser, history
  <2>2. CASE Admitted(c)
    BY <1>1, <2>1, <2>2, AdmittedCall, QuietStep DEF Quiet
  <2>3. CASE Ends(c)
    BY <1>1, <2>1, <2>3, EndedCall, QuietStep DEF Quiet
  <2>4. CASE Goes(c, ToCache("cacheSession", row[call[c].session]))
    BY <1>1, <1>2, <2>1, <2>4, QuietStep DEF Quiet
  <2> QED
    BY <1>5, <2>2, <2>3, <2>4 DEF CheckSession
<1>6. CASE CacheSession(c)
  <2>1. QuietCopies(c)
    <3>1. sessCache' = [sessCache EXCEPT ![call[c].on][call[c].session] = call[c].read # 0]
      BY <1>6 DEF CacheSession
    <3>2. /\ UNCHANGED <<cookie, access, presented, suspect, revoked>>
          /\ call[c].pc = "cacheSession"
      BY <1>6 DEF CacheSession, browser, history
    <3>3. \A r \in Replicas, s \in Sessions :
             sessCache'[r][s] = FALSE =>
                \/ sessCache[r][s] = FALSE
                \/ call[c].read = 0 /\ call[c].session = s
      <4> DEFINE answer == call[c].read # 0
      <4>1. \A r \in Replicas, s \in Sessions :
               sessCache'[r][s] = IF r = call[c].on /\ s = call[c].session
                                  THEN answer ELSE sessCache[r][s]
        <5>1. sessCache' = [sessCache EXCEPT ![call[c].on][call[c].session] = answer]
          BY <3>1
        <5> HIDE DEF answer
        <5> QED
          BY <1>0, <5>1 DEF Shape, IsTable
      <4>2. answer = FALSE => call[c].read = 0
        OBVIOUS
      <4> HIDE DEF answer
      <4> QED
        BY <4>1, <4>2
    <3>4. IsTable(sessCache')
      BY <1>0, <3>1, TableUpdated DEF Shape
    <3> QED
      BY <1>0, <3>2, <3>3, <3>4 DEF Shape, QuietCopies
  <2>2. CASE Admitted(c)
    BY <1>1, <1>6, <2>1, <2>2, AdmittedCall, QuietStep DEF Quiet, CacheSession
  <2>3. CASE Ends(c)
    BY <1>1, <2>1, <2>3, EndedCall, QuietStep DEF Quiet
  <2> QED
    BY <1>6, <2>2, <2>3 DEF CacheSession
<1> QED
  BY <1>3, <1>4, <1>5, <1>6

\* A sign-in that is under way or fails, an answer that is lost, and sessions
\* that end: replayed, signed out here or everywhere.
LEMMA EndingSteps ==
    ASSUME IInv, NEW c \in Callers,
           \/ Insert(c) \/ CreateFails(c) \/ LoseAnswer(c) \/ Reuse(c)
           \/ DeleteSession(c) \/ DeleteUserSessions(c) \/ EndFails(c) \/ Evict(c)
    PROVE  IInv'
<1>0. /\ Shape /\ IsCall(call[c])
      /\ \A s \in Sessions : rowLock[s] = c => call[c].pc = "swap"
      /\ None \notin Callers
  BY SessionAssumption DEF IInv, Shape, RowsHeld
<1>1. ASSUME UNCHANGED database, call[c].pc # "swap"
      PROVE  QuietRows(c, {})
  BY <1>1, RowsUntouched DEF database, QuietRows, Insert, CreateFails, LoseAnswer, Reuse,
         DeleteSession, DeleteUserSessions, EndFails, Evict
<1>2. ASSUME UNCHANGED <<sessCache, browser, history>>
      PROVE  QuietCopies(c)
  BY <1>0, <1>2, CopiesUntouched DEF browser, history
<1>3. ASSUME NEW pc \in {"create", "evict", "deleteAll"}, NEW victims,
             Goes(c, [call[c] EXCEPT !.pc = pc, !.victims = victims]) \/ GoesTo(c, pc),
             call[c].pc # "idle", pc = "create" => Starting(c)
      PROVE  \E new : QuietCall(c, new)
  <2> PICK new \in {[call[c] EXCEPT !.pc = pc, !.victims = victims],
                    [call[c] EXCEPT !.pc = pc]} : call' = [call EXCEPT ![c] = new]
    BY <1>3 DEF GoesTo, Goes
  <2>1. /\ IsCall(new) /\ new.pc = pc /\ new.kind = call[c].kind
        /\ new.session = call[c].session /\ new.jti = call[c].jti
        /\ new.version = call[c].version
    BY <1>0 DEF IsCall, CallFields
  <2> QED
    BY <1>3, <2>1 DEF QuietCall
<1>4. CASE Insert(c)
  BY <1>1, <1>2, <1>3, <1>4, QuietStep DEF Insert, Quiet, Starting, caches
<1>5. CASE CreateFails(c) \/ LoseAnswer(c)
  BY <1>1, <1>2, <1>5, EndedCall, QuietStep DEF CreateFails, LoseAnswer, Quiet, caches
<1>6. ASSUME NEW gone, Removed(gone), UNCHANGED <<version, minted>>,
             Released(c) \/ (UNCHANGED rowLock /\ call[c].pc # "swap"),
             \A s \in Sessions \cap gone : rowLock[s] \in {None, c}
      PROVE  QuietRows(c, gone)
  <2>1. Released(c)
    BY <1>0, <1>6 DEF Released, Shape
  <2> QED
    BY <1>6, <2>1 DEF Removed, QuietRows
<1>7. CASE Reuse(c)
  <2>1. \E gone : QuietRows(c, gone)
    <3>1. CASE Removed({call[c].session})
      BY <1>6, <1>7, <3>1 DEF Reuse, IInv, RowsHeld
    <3>2. CASE UNCHANGED <<row, recency>>
      <4> QuietRows(c, {})
        BY <1>0, <1>7, <3>2 DEF Reuse, QuietRows, Shape
      <4> QED
        OBVIOUS
    <3> QED
      BY <1>7, <3>1, <3>2 DEF Reuse
  <2>2. QuietCall(c, Idle) /\ QuietCopies(c)
    BY <1>0, <1>7, RefusedCopies DEF Reuse, caches, history
  <2> QED
    BY <2>1, <2>2, QuietStep DEF Quiet
<1>8. CASE DeleteSession(c)
  <2>1. QuietRows(c, {call[c].session})
    BY <1>6, <1>8 DEF DeleteSession, Unlocked
  <2>2. QuietCopies(c)
    BY <1>2, <1>8 DEF DeleteSession, caches
  <2>3. \E new : QuietCall(c, new)
    BY <1>3, <1>8 DEF DeleteSession
  <2> QED
    BY <2>1, <2>2, <2>3, QuietStep DEF Quiet
<1>9. CASE DeleteUserSessions(c)
  <2>1. QuietRows(c, Sessions)
    BY <1>6, <1>9 DEF DeleteUserSessions, Unlocked
  <2>2. QuietCopies(c)
    BY <1>2, <1>9 DEF DeleteUserSessions, caches
  <2>3. \E new : QuietCall(c, new)
    BY <1>3, <1>9 DEF DeleteUserSessions
  <2> QED
    BY <2>1, <2>2, <2>3, QuietStep DEF Quiet
<1>10. CASE EndFails(c)
  BY <1>1, <1>2, <1>3, <1>10, QuietStep DEF EndFails, Quiet, caches
<1>11. CASE Evict(c)
  <2>1. QuietCopies(c)
    <3>1. /\ IsTable(sessCache')
          /\ \A r \in Replicas, s \in Sessions :
                sessCache'[r][s] \in {sessCache[r][s], None}
      <4>1. CASE UNCHANGED sessCache
        BY <1>0, <4>1 DEF Shape
      <4>2. CASE sessCache' = [sessCache EXCEPT ![call[c].on][call[c].session] = None]
        <5>1. IsTable(sessCache')
          BY <1>0, <4>2, TableUpdated DEF Shape
        <5>2. \A r \in Replicas, s \in Sessions :
                 sessCache'[r][s] = IF r = call[c].on /\ s = call[c].session
                                    THEN None ELSE sessCache[r][s]
          BY <1>0, <4>2 DEF Shape, IsTable
        <5> QED
          BY <5>1, <5>2
      <4> QED
        BY <1>11, <4>1, <4>2 DEF Evict
    <3>2. None # FALSE
      BY SessionAssumption
    <3>3. UNCHANGED <<access, presented, suspect, revoked>>
      BY <1>11 DEF Evict, history
    <3>4. cookie' = [cookie EXCEPT ![call[c].session] = None]
      BY <1>11 DEF Evict
    <3> QED
      BY <1>0, <3>1, <3>2, <3>3, <3>4 DEF Shape, QuietCopies
  <2>2. QuietRows(c, {})
    BY <1>1, <1>11 DEF Evict
  <2> QED
    BY <1>11, <2>1, <2>2, EndedCall, QuietStep DEF Evict, Quiet
<1> QED
  BY <1>4, <1>5, <1>7, <1>8, <1>9, <1>10, <1>11

\* A cached answer ages out.
LEMMA ExpireStep ==
    ASSUME IInv, NEW r \in Replicas, Expire(r)
    PROVE  IInv'
<1>1. UNCHANGED <<version, row, rowLock, minted, cookie, access, call, presented, suspect,
                  revoked>>
  BY DEF Expire, database, browser, history
<1>2. IsTable(sessCache') /\ \A q \in Replicas, s \in Sessions :
         sessCache'[q][s] = FALSE => sessCache[q][s] = FALSE
  <2>0. None # FALSE /\ Shape
    BY SessionAssumption DEF IInv
  <2>1. CASE UNCHANGED sessCache
    BY <2>0, <2>1 DEF Shape
  <2>2. ASSUME NEW s \in Sessions, sessCache' = [sessCache EXCEPT ![r][s] = None]
        PROVE  IsTable(sessCache') /\ \A q \in Replicas, t \in Sessions :
                  sessCache'[q][t] = FALSE => sessCache[q][t] = FALSE
    <3>1. IsTable(sessCache')
      BY <2>0, <2>2, TableUpdated DEF Shape
    <3>2. \A q \in Replicas, t \in Sessions :
             sessCache'[q][t] = IF q = r /\ t = s THEN None ELSE sessCache[q][t]
      BY <2>0, <2>2 DEF Shape, IsTable
    <3> QED
      BY <2>0, <3>1, <3>2
  <2> QED
    BY <2>1, <2>2 DEF Expire
<1>3. Shape' /\ KindsOfSteps' /\ RowsHeld'
  BY <1>1, <1>2 DEF IInv, Shape, KindsOfSteps, RowsHeld
<1>4. Beginnings' /\ AbsenceLasts' /\ RefusalIsFinal'
  <2>1. /\ \A t \in Sessions : KnownToNobody(t) => KnownToNobody(t)'
        /\ \A d \in Callers : Starting(d)' <=> Starting(d)
    BY <1>1, <1>2 DEF KnownToNobody, Starting
  <2>2. \A d \in Callers : /\ Starting(d) => call[d].session \in Sessions
                           /\ call[d].pc = "cacheSession" => call[d].session \in Sessions
    BY DEF IInv, Shape, Starting
  <2>3. Beginnings'
    <3>1. ASSUME NEW t \in Sessions, minted'[t] = 0
          PROVE  KnownToNobody(t)' /\ \A d \in Callers : call'[d].session # t
      BY <1>1, <2>1, <3>1 DEF IInv, Beginnings
    <3>2. ASSUME NEW d \in Callers, Starting(d)'
          PROVE  /\ KnownToNobody(call[d].session)'
                 /\ \A e \in Callers \ {d} : call'[e].session # call'[d].session
                 /\ call'[d].jti = 1
      <4>1. Starting(d) /\ call' = call
        BY <1>1, <2>1, <3>2
      <4>2. call[d].session \in Sessions /\ KnownToNobody(call[d].session)
        BY <2>2, <4>1 DEF IInv, Beginnings
      <4> QED
        <5>1. PICK t \in Sessions : t = call[d].session /\ KnownToNobody(t)
          BY <4>2
        <5>2. KnownToNobody(t)' /\ t = call'[d].session
          BY <2>1, <4>1, <5>1
        <5>3. KnownToNobody(call[d].session)'
          BY <5>2 DEF KnownToNobody
        <5> QED
          BY <4>1, <5>3 DEF IInv, Beginnings
    <3> QED
      BY <3>1, <3>2 DEF Beginnings
  <2>4. AbsenceLasts' /\ RefusalIsFinal'
    BY <1>1, <1>2 DEF IInv, AbsenceLasts, RefusalIsFinal
  <2> QED
    BY <2>3, <2>4
<1>5. VersionsPast' /\ TokenChain'
  BY <1>1 DEF IInv, VersionsPast, OldFor, TokenChain, Fresh, Presenting
<1> QED
  BY <1>3, <1>4, <1>5 DEF IInv

\* A row expires.
LEMMA LapseStep ==
    ASSUME IInv, NEW s \in Sessions, Lapse(s)
    PROVE  IInv'
<1>1. UNCHANGED <<version, rowLock, minted, sessCache, cookie, access, call, presented,
                  suspect, revoked>>
  BY DEF Lapse, caches, browser, history
<1>2. row' = [t \in Sessions |-> IF t \in {s} THEN 0 ELSE row[t]] /\ rowLock[s] = None
  BY DEF Lapse, Removed, Unlocked
<1>3. Shape' /\ KindsOfSteps'
  BY <1>1, <1>2 DEF IInv, Shape, KindsOfSteps
<1>4. RowsHeld'
  BY <1>1, <1>2, SessionAssumption DEF IInv, Shape, RowsHeld
<1>5. Beginnings' /\ AbsenceLasts' /\ RefusalIsFinal'
  <2>1. /\ \A t : KnownToNobody(t)' <=> KnownToNobody(t)
        /\ \A d : Starting(d)' <=> Starting(d)
    BY <1>1 DEF KnownToNobody, Starting
  <2>2. \A d \in Callers : /\ Starting(d) => call[d].session \in Sessions
                           /\ call[d].pc = "cacheSession" => call[d].session \in Sessions
    BY DEF IInv, Shape, Starting
  <2>3. Beginnings'
    BY <1>1, <2>1 DEF IInv, Beginnings
  <2>4. \A t \in Sessions : row[t] = 0 => row'[t] = 0
    BY <1>2
  <2>5. AbsenceLasts'
    <3>1. call' = call
      BY <1>1
    <3> QED
      BY <2>2, <2>4, <3>1 DEF IInv, AbsenceLasts
  <2>6. RefusalIsFinal'
    BY <1>1, <2>4 DEF IInv, RefusalIsFinal
  <2> QED
    BY <2>3, <2>5, <2>6
<1>6. VersionsPast'
  BY <1>1 DEF IInv, VersionsPast, OldFor
<1>7. TokenChain'
  BY <1>1, <1>2 DEF IInv, TokenChain, Fresh, Presenting
<1> QED
  BY <1>3, <1>4, <1>5, <1>6, <1>7 DEF IInv

-----------------------------------------------------------------------------
(* Steps that begin calls, and that hand out tokens. *)

\* A login ends at a fresh version, or writes a row of a session nobody has held.
LEMMA LoginStep ==
    ASSUME IInv, NEW c \in Callers, NEW s \in Sessions, Login(c, s)
    PROVE  IInv'
<1>0. /\ Shape /\ KindsOfSteps /\ RowsHeld /\ Beginnings /\ AbsenceLasts
      /\ RefusalIsFinal /\ VersionsPast /\ TokenChain
      /\ None \notin Callers \cup Sessions
  BY SessionAssumption DEF IInv
<1>1. PICK v \in {version, 1} :
         call' = [call EXCEPT ![c] = [Idle EXCEPT !.pc = "insert", !.kind = "login",
                                                  !.session = s, !.jti = 1, !.version = v]]
  BY DEF Login, Goes
<1> DEFINE new == [Idle EXCEPT !.pc = "insert", !.kind = "login",
                               !.session = s, !.jti = 1, !.version = v]
<1>2. /\ IsCall(new) /\ new.pc = "insert" /\ new.kind = "login" /\ new.session = s
      /\ new.jti = 1 /\ new.version \in {version, 1}
  BY DEF Idle, IsCall, CallFields
<1>3. /\ call' = [call EXCEPT ![c] = new] /\ call[c].pc = "idle"
      /\ minted[s] = 0 /\ minted' = [minted EXCEPT ![s] = 1]
      /\ UNCHANGED <<version, row, rowLock, sessCache, cookie, access, presented, suspect,
                     revoked>>
  BY <1>1 DEF Login, database, caches, browser, history, Idle
<1> HIDE DEF new
<1>4. \A d \in Callers : call'[d] = IF d = c THEN new ELSE call[d]
  BY <1>0, <1>3 DEF Shape
<1>5. KnownToNobody(s) /\ \A d \in Callers : call[d].session # s
  BY <1>0, <1>3 DEF Beginnings
<1>6. Shape'
  BY <1>0, <1>2, <1>3, <1>4 DEF Shape
<1>7. KindsOfSteps'
  BY <1>0, <1>2, <1>4 DEF KindsOfSteps
<1>8. RowsHeld'
  BY <1>0, <1>2, <1>3, <1>4 DEF RowsHeld
<1>9. Beginnings'
  <2>1. \A t \in Sessions : KnownToNobody(t)' <=> KnownToNobody(t)
    BY <1>3 DEF KnownToNobody
  <2>2. ASSUME NEW t \in Sessions, minted'[t] = 0
        PROVE  KnownToNobody(t)' /\ \A d \in Callers : call'[d].session # t
    BY <1>0, <1>2, <1>3, <1>4, <2>1, <2>2 DEF Beginnings, Shape
  <2>3. ASSUME NEW d \in Callers, Starting(d)'
        PROVE  /\ KnownToNobody(call[d].session)'
               /\ \A e \in Callers \ {d} : call'[e].session # call'[d].session
               /\ call'[d].jti = 1
    <3>1. CASE d = c
      <4>1. call'[d] = new
        BY <1>4, <3>1
      <4>2. \A t : KnownToNobody(t)' <=> KnownToNobody(t)
        BY <1>3 DEF KnownToNobody
      <4> QED
        BY <1>2, <1>4, <1>5, <3>1, <4>1, <4>2
    <3>2. CASE d # c
      <4>1. Starting(d) /\ call'[d] = call[d]
        BY <1>4, <2>3, <3>2 DEF Starting
      <4>2. KnownToNobody(call[d].session)'
        <5>1. KnownToNobody(call'[d].session)
          BY <1>0, <4>1 DEF Beginnings
        <5>2. \A t : KnownToNobody(t)' <=> KnownToNobody(t)
          BY <1>3 DEF KnownToNobody
        <5> QED
          BY <5>1, <5>2
      <4>3. \A e \in Callers \ {d} : call'[e].session # call'[d].session
        BY <1>0, <1>2, <1>4, <1>5, <4>1 DEF Beginnings
      <4> QED
        BY <1>0, <4>1, <4>2, <4>3 DEF Beginnings
    <3> QED
      BY <3>1, <3>2
  <2> QED
    BY <2>2, <2>3 DEF Beginnings
<1>10. AbsenceLasts' /\ RefusalIsFinal'
  BY <1>0, <1>2, <1>3, <1>4 DEF AbsenceLasts, RefusalIsFinal
<1>11. VersionsPast'
  BY <1>0, <1>2, <1>3, <1>4 DEF VersionsPast, OldFor, Shape
<1>12. TokenChain'
  BY <1>0, <1>2, <1>3, <1>4, <1>5 DEF TokenChain, Fresh, Presenting, Shape
<1> QED
  BY <1>6, <1>7, <1>8, <1>9, <1>10, <1>11, <1>12 DEF IInv

\* The middleware and the refresh handler begin the revocation check.
LEMMA CheckBegins ==
    ASSUME IInv, NEW c \in Callers, NEW r \in Replicas, NEW s \in Sessions,
           \/ Refresh(c, r, s)
           \/ \E kind \in {"request", "end", "endAll"} : Request(c, r, s, kind)
    PROVE  IInv'
<1>0. /\ Shape /\ KindsOfSteps /\ RowsHeld /\ Beginnings /\ AbsenceLasts
      /\ RefusalIsFinal /\ VersionsPast /\ TokenChain
      /\ None \notin Callers \cup Sessions
  BY SessionAssumption DEF IInv
<1>a. ASSUME NEW new, call' = [call EXCEPT ![c] = new], IsCall(new), new.pc = "resolve",
             new.kind \in {"refresh", "request", "end", "endAll"}, new.session = s,
             OldFor(s, new.version),
             call[c].pc = "idle", ~KnownToNobody(s),
             UNCHANGED <<version, row, rowLock, minted, sessCache, cookie, access, revoked>>,
             TokenChain'
      PROVE  IInv'
  <2>1. \A d \in Callers : call'[d] = IF d = c THEN new ELSE call[d]
    BY <1>0, <1>a DEF Shape
  <2>2. minted[s] # 0 /\ \A d \in Callers : Starting(d) => call[d].session # s
    BY <1>0, <1>a DEF Beginnings
  <2>3. Shape'
    BY <1>0, <1>a, <2>1 DEF Shape
  <2>4. KindsOfSteps'
    BY <1>0, <1>a, <2>1 DEF KindsOfSteps
  <2>5. RowsHeld'
    BY <1>0, <1>a, <2>1 DEF RowsHeld
  <2>6. Beginnings'
    <3>1. /\ \A t : KnownToNobody(t)' <=> KnownToNobody(t)
          /\ \A d \in Callers : Starting(d)' => Starting(d) /\ d # c
      BY <1>a, <2>1 DEF KnownToNobody, Starting
    <3> QED
      BY <1>0, <1>a, <2>1, <2>2, <3>1 DEF Beginnings, Starting
  <2>7. AbsenceLasts' /\ RefusalIsFinal'
    BY <1>0, <1>a, <2>1 DEF AbsenceLasts, RefusalIsFinal
  <2>8. VersionsPast'
    BY <1>0, <1>a, <2>1 DEF VersionsPast, OldFor
  <2> QED
    BY <1>a, <2>3, <2>4, <2>5, <2>6, <2>7, <2>8 DEF IInv
<1>1. ASSUME NEW kind \in {"request", "end", "endAll"}, Request(c, r, s, kind)
      PROVE  IInv'
  <2> DEFINE new == [Idle EXCEPT !.pc = "resolve", !.kind = kind, !.on = r, !.session = s,
                                 !.version = access[s]]
  <2>1. /\ IsCall(new) /\ new.pc = "resolve" /\ new.kind = kind /\ new.session = s
        /\ new.version = access[s]
    BY DEF Idle, IsCall, CallFields
  <2>2. /\ call' = [call EXCEPT ![c] = new] /\ call[c].pc = "idle" /\ access[s] # None
        /\ UNCHANGED <<version, row, rowLock, minted, sessCache, cookie, access, presented,
                       suspect, revoked>>
    BY <1>1 DEF Request, Goes, database, caches, browser, history, Idle
  <2> HIDE DEF new
  <2>3. \A d \in Callers : call'[d] = IF d = c THEN new ELSE call[d]
    BY <1>0, <2>2 DEF Shape
  <2>4. TokenChain'
    BY <1>0, <2>1, <2>2, <2>3 DEF TokenChain, Fresh, Presenting
  <2>5. OldFor(s, new.version) /\ ~KnownToNobody(s)
    BY <1>0, <2>1, <2>2 DEF VersionsPast, KnownToNobody
  <2> QED
    BY <1>a, <2>1, <2>2, <2>4, <2>5
<1>2. CASE Refresh(c, r, s)
  <2> DEFINE new == [Idle EXCEPT !.pc = "resolve", !.kind = "refresh", !.on = r,
                                 !.session = s, !.jti = cookie[s].jti,
                                 !.version = cookie[s].version]
  <2>1. /\ IsCall(new) /\ new.pc = "resolve" /\ new.kind = "refresh" /\ new.session = s
        /\ new.jti = cookie[s].jti /\ new.version = cookie[s].version
    BY DEF Idle, IsCall, CallFields
  <2>2. /\ call' = [call EXCEPT ![c] = new] /\ call[c].pc = "idle" /\ cookie[s] # None
        /\ UNCHANGED <<version, row, rowLock, minted, sessCache, cookie, access, revoked>>
        /\ presented' = presented \cup {<<s, cookie[s].jti>>}
        /\ suspect' = IF <<s, cookie[s].jti>> \in presented THEN suspect \cup {s} ELSE suspect
    BY <1>2 DEF Refresh, Goes, database, caches, browser, Idle
  <2> HIDE DEF new
  <2>3. \A d \in Callers : call'[d] = IF d = c THEN new ELSE call[d]
    BY <1>0, <2>2 DEF Shape
  <2>4. TokenChain'
    <3>1. \A t \in Sessions \ suspect' : t \notin suspect
      BY <2>2
    <3>2. s \notin suspect' => <<s, new.jti>> \notin presented
      BY <2>1, <2>2
    <3>3. s \notin suspect' /\ row[s] # 0 => new.jti = row[s]
      BY <1>0, <2>1, <2>2, <3>1, <3>2 DEF TokenChain, Fresh
    <3>4. \A d \in Callers : Presenting(d)' => Presenting(d) \/ d = c
      BY <2>3 DEF Presenting
    <3>5. \A t \in Sessions \ suspect' : row[t] # 0 =>
             /\ cookie[t] # None => Fresh(t, cookie[t].jti)'
             /\ \A d \in Callers : call'[d].pc = "respond" /\ call'[d].session = t =>
                    Fresh(t, call[d].jti)'
      BY <1>0, <2>1, <2>2, <2>3, <3>1 DEF TokenChain, Fresh
    <3>6. \A t \in Sessions \ suspect', d \in Callers :
             Presenting(d)' /\ call'[d].session = t =>
              /\ <<t, call'[d].jti>> \in presented'
              /\ row[t] # 0 => call'[d].jti = row[t]
              /\ \A e \in Callers \ {d} : Presenting(e)' /\ call'[e].session = t =>
                    call'[e].jti # call'[d].jti
      BY <1>0, <2>1, <2>2, <2>3, <3>1, <3>2, <3>3, <3>4 DEF TokenChain
    <3> QED
      BY <2>2, <2>3, <3>5, <3>6 DEF TokenChain, Fresh
  <2>5. OldFor(s, new.version) /\ ~KnownToNobody(s)
    BY <1>0, <2>1, <2>2 DEF VersionsPast, KnownToNobody
  <2> QED
    BY <1>a, <2>1, <2>2, <2>4, <2>5
<1> QED
  BY <1>1, <1>2

\* The rows are inserted and deleted, and the sign-in may be answered.
LEMMA CreateStep ==
    ASSUME IInv, NEW c \in Callers, Create(c)
    PROVE  IInv'
<1>0. /\ Shape /\ KindsOfSteps /\ RowsHeld /\ Beginnings /\ AbsenceLasts
      /\ RefusalIsFinal /\ VersionsPast /\ TokenChain
      /\ None \notin Callers \cup Sessions
  BY SessionAssumption DEF IInv
<1> DEFINE new == [call[c] EXCEPT !.pc = "respond"]
           s == call[c].session
           victims == call[c].victims
<1>1. /\ IsCall(call[c]) /\ call[c].pc = "create" /\ Starting(c) /\ s \in Sessions
  BY <1>0 DEF Create, Starting, Shape
<1>2. /\ IsCall(new) /\ new.pc = "respond" /\ new.kind = call[c].kind /\ new.session = s
      /\ new.jti = call[c].jti /\ new.version = call[c].version
  BY <1>1 DEF IsCall, CallFields
<1>3. /\ call' = [call EXCEPT ![c] = new]
      /\ row' = [t \in Sessions |-> IF t = s THEN 1 ELSE IF t \in victims THEN 0 ELSE row[t]]
      /\ \A t \in victims : rowLock[t] = None
      /\ UNCHANGED <<version, rowLock, minted, sessCache, cookie, access, presented,
                     suspect, revoked>>
  BY DEF Create, GoesTo, Goes, Unlocked, caches, browser, history
<1>4. /\ KnownToNobody(s) /\ call[c].jti = 1
      /\ \A d \in Callers \ {c} : call[d].session # s
  BY <1>0, <1>1 DEF Beginnings
<1> HIDE DEF new, s, victims
<1>5. \A d \in Callers : call'[d] = IF d = c THEN new ELSE call[d]
  BY <1>0, <1>3 DEF Shape
<1>6. call[c].session = s
  BY DEF s
<1>7. Shape'
  BY <1>0, <1>1, <1>2, <1>3, <1>5 DEF Shape
<1>8. KindsOfSteps'
  BY <1>0, <1>1, <1>2, <1>5 DEF KindsOfSteps
<1>9. RowsHeld'
  BY <1>0, <1>1, <1>2, <1>3, <1>4, <1>5, <1>6 DEF RowsHeld, Shape
<1>10. Beginnings'
  <2>1. \A d \in Callers : /\ Starting(d)' => Starting(d)
                           /\ call'[d].session = call[d].session
                           /\ call'[d].jti = call[d].jti
    BY <1>1, <1>2, <1>5, <1>6 DEF Starting
  <2>2. \A t : KnownToNobody(t)' <=> KnownToNobody(t)
    BY <1>3 DEF KnownToNobody
  <2>3. \A t \in Sessions : minted'[t] = 0 =>
           KnownToNobody(t)' /\ \A d \in Callers : call'[d].session # t
    BY <1>0, <1>3, <2>1, <2>2 DEF Beginnings
  <2>4. ASSUME NEW d \in Callers, Starting(d)'
        PROVE  /\ KnownToNobody(call[d].session)'
               /\ \A e \in Callers \ {d} : call'[e].session # call'[d].session
               /\ call'[d].jti = 1
    <3>0. KnownToNobody(call[d].session)
      BY <1>0, <2>1, <2>4 DEF Beginnings
    <3>1. KnownToNobody(call[d].session)'
      BY <1>3, <2>1, <3>0 DEF KnownToNobody
    <3> QED
      BY <1>0, <2>1, <2>4, <3>1 DEF Beginnings
  <2> QED
    BY <2>3, <2>4 DEF Beginnings
<1>11. AbsenceLasts' /\ RefusalIsFinal'
  BY <1>0, <1>2, <1>3, <1>4, <1>5 DEF AbsenceLasts, RefusalIsFinal, KnownToNobody, Shape
<1>12. VersionsPast'
  BY <1>0, <1>2, <1>3, <1>5, <1>6 DEF VersionsPast, OldFor
<1>13. TokenChain'
  <2>1. \A d \in Callers : Presenting(d)' =>
           Presenting(d) /\ call'[d] = call[d] /\ call[d].session # s
    BY <1>2, <1>4, <1>5 DEF Presenting
  <2>2. \A t \in Sessions : t # s /\ row'[t] # 0 => row'[t] = row[t]
    BY <1>3
  <2>3. cookie[s] = None /\ row'[s] = 1
    BY <1>1, <1>3, <1>4 DEF KnownToNobody
  <2>4. \A d \in Callers : call'[d].pc = "respond" /\ call'[d].session # s =>
           call'[d] = call[d]
    BY <1>2, <1>5
  <2>5. \A d \in Callers : call'[d].session = s => call'[d].jti = 1
    BY <1>2, <1>4, <1>5
  <2> SUFFICES ASSUME NEW t \in Sessions \ suspect
               PROVE  /\ \A d \in Callers : Presenting(d)' /\ call'[d].session = t =>
                            /\ <<t, call'[d].jti>> \in presented
                            /\ row'[t] # 0 => call'[d].jti = row'[t]
                            /\ \A e \in Callers \ {d} :
                                  Presenting(e)' /\ call'[e].session = t =>
                                      call'[e].jti # call'[d].jti
                      /\ row'[t] # 0 =>
                            /\ cookie'[t] # None => Fresh(t, cookie[t].jti)'
                            /\ \A d \in Callers :
                                  call'[d].pc = "respond" /\ call'[d].session = t =>
                                      Fresh(t, call[d].jti)'
    BY <1>3 DEF TokenChain
  <2>a. \A d \in Callers : Presenting(d)' /\ call'[d].session = t =>
           /\ <<t, call'[d].jti>> \in presented
           /\ row'[t] # 0 => call'[d].jti = row'[t]
           /\ \A e \in Callers \ {d} : Presenting(e)' /\ call'[e].session = t =>
                 call'[e].jti # call'[d].jti
    BY <1>0, <1>3, <2>1, <2>2 DEF TokenChain
  <2>b. row'[t] # 0 /\ cookie'[t] # None =>
           cookie'[t].jti = row'[t] \/ <<t, cookie'[t].jti>> \in presented'
    BY <1>0, <1>3, <2>2, <2>3 DEF TokenChain, Fresh
  <2>c. ASSUME NEW d \in Callers, row'[t] # 0, call'[d].pc = "respond",
               call'[d].session = t
        PROVE  call'[d].jti = row'[t] \/ <<t, call'[d].jti>> \in presented'
    <3>1. CASE t = s
      BY <2>3, <2>5, <2>c, <3>1
    <3>2. CASE t # s
      <4>1. call'[d] = call[d] /\ row'[t] = row[t]
        BY <2>2, <2>4, <2>c, <3>2
      <4>2. Fresh(t, call[d].jti)
        BY <1>0, <2>c, <4>1 DEF TokenChain
      <4> QED
        BY <1>3, <4>1, <4>2 DEF Fresh
    <3> QED
      BY <3>1, <3>2
  <2> QED
    BY <2>a, <2>b, <2>c DEF Fresh
<1> QED
  BY <1>7, <1>8, <1>9, <1>10, <1>11, <1>12, <1>13 DEF IInv

\* The browser takes the tokens it is answered with.
LEMMA RespondStep ==
    ASSUME IInv, NEW c \in Callers, Respond(c)
    PROVE  IInv'
<1>0. /\ Shape /\ KindsOfSteps /\ RowsHeld /\ Beginnings /\ AbsenceLasts
      /\ RefusalIsFinal /\ VersionsPast /\ TokenChain
      /\ None \notin Callers \cup Sessions
  BY SessionAssumption DEF IInv
<1> DEFINE s == call[c].session
           token == [jti |-> call[c].jti, version |-> call[c].version]
<1>1. /\ call[c].pc = "respond" /\ s \in Sessions
      /\ IsCall(Idle) /\ Idle.pc = "idle" /\ Idle.session = None /\ Idle.version = 0
  BY <1>0 DEF Respond, Shape, Idle, IsCall, CallFields
<1>2. /\ call' = [call EXCEPT ![c] = Idle]
      /\ cookie' = [cookie EXCEPT ![s] = token]
      /\ access' = [access EXCEPT ![s] = call[c].version]
      /\ UNCHANGED <<version, row, rowLock, minted, sessCache, presented, suspect, revoked>>
  BY DEF Respond, Ends, Goes, database, caches, history
<1>3. token.jti = call[c].jti /\ token.version = call[c].version
  OBVIOUS
<1>4. \A d \in Callers : call'[d] = IF d = c THEN Idle ELSE call[d]
  BY <1>0, <1>2 DEF Shape
<1>5. call[c].session = s
  OBVIOUS
<1> HIDE DEF s, token
<1>6. Shape'
  BY <1>0, <1>1, <1>2, <1>4 DEF Shape
<1>7. KindsOfSteps'
  BY <1>0, <1>1, <1>4 DEF KindsOfSteps
<1>8. RowsHeld'
  BY <1>0, <1>1, <1>2, <1>4 DEF RowsHeld
<1>9. Beginnings'
  <2>1. \A t \in Sessions : t # s => (KnownToNobody(t)' <=> KnownToNobody(t))
    BY <1>0, <1>2 DEF KnownToNobody, Shape
  <2>2. \A d \in Callers : Starting(d)' => Starting(d) /\ d # c /\ call'[d] = call[d]
    BY <1>1, <1>4 DEF Starting
  <2>3. minted[s] # 0
    BY <1>0, <1>1, <1>5 DEF Beginnings
  <2>4. ASSUME NEW t \in Sessions, minted'[t] = 0
        PROVE  KnownToNobody(t)' /\ \A d \in Callers : call'[d].session # t
    BY <1>0, <1>1, <1>2, <1>4, <2>1, <2>3, <2>4 DEF Beginnings
  <2>5. ASSUME NEW d \in Callers, Starting(d)'
        PROVE  /\ KnownToNobody(call[d].session)'
               /\ \A e \in Callers \ {d} : call'[e].session # call'[d].session
               /\ call'[d].jti = 1
    <3>1. /\ KnownToNobody(call[d].session) /\ call[d].jti = 1
          /\ \A e \in Callers \ {d} : call[e].session # call[d].session
          /\ call[d].session \in Sessions
      BY <1>0, <2>2, <2>5 DEF Beginnings, Shape, Starting
    <3>2. KnownToNobody(call[d].session)'
      BY <1>0, <1>2, <1>5, <2>2, <2>5, <3>1 DEF KnownToNobody, Shape
    <3> QED
      BY <1>0, <1>1, <1>4, <2>2, <2>5, <3>1, <3>2
  <2> QED
    BY <2>4, <2>5 DEF Beginnings
<1>10. AbsenceLasts' /\ RefusalIsFinal'
  BY <1>0, <1>1, <1>2, <1>4 DEF AbsenceLasts, RefusalIsFinal
<1>11. VersionsPast'
  <2>1. OldFor(s, token.version) /\ OldFor(s, call[c].version) /\ OldFor(None, 0)
    BY <1>0, <1>3, <1>5 DEF VersionsPast, OldFor, Shape
  <2> QED
    BY <1>0, <1>1, <1>2, <1>4, <2>1 DEF VersionsPast, OldFor, Shape
<1>12. TokenChain'
  <2>1. \A d \in Callers : /\ Presenting(d)' => Presenting(d) /\ call'[d] = call[d]
                           /\ call'[d].pc = "respond" => call'[d] = call[d]
    BY <1>1, <1>4 DEF Presenting
  <2>2. \A t \in Sessions : cookie'[t] = IF t = s THEN token ELSE cookie[t]
    BY <1>0, <1>2 DEF Shape
  <2>3. s \notin suspect /\ row[s] # 0 => Fresh(s, token.jti)
    BY <1>0, <1>1, <1>3, <1>5 DEF TokenChain
  <2> SUFFICES ASSUME NEW t \in Sessions \ suspect
               PROVE  /\ \A d \in Callers : Presenting(d)' /\ call'[d].session = t =>
                            /\ <<t, call'[d].jti>> \in presented
                            /\ row'[t] # 0 => call'[d].jti = row'[t]
                            /\ \A e \in Callers \ {d} :
                                  Presenting(e)' /\ call'[e].session = t =>
                                      call'[e].jti # call'[d].jti
                      /\ row'[t] # 0 =>
                            /\ cookie'[t] # None => Fresh(t, cookie[t].jti)'
                            /\ \A d \in Callers :
                                  call'[d].pc = "respond" /\ call'[d].session = t =>
                                      Fresh(t, call[d].jti)'
    BY <1>2 DEF TokenChain
  <2>a. \A d \in Callers : Presenting(d)' /\ call'[d].session = t =>
           /\ <<t, call'[d].jti>> \in presented
           /\ row'[t] # 0 => call'[d].jti = row'[t]
           /\ \A e \in Callers \ {d} : Presenting(e)' /\ call'[e].session = t =>
                 call'[e].jti # call'[d].jti
    BY <1>0, <1>2, <2>1 DEF TokenChain
  <2>b. row'[t] # 0 /\ cookie'[t] # None =>
           cookie'[t].jti = row'[t] \/ <<t, cookie'[t].jti>> \in presented'
    BY <1>0, <1>2, <2>2, <2>3 DEF TokenChain, Fresh
  <2>c. ASSUME NEW d \in Callers, row'[t] # 0, call'[d].pc = "respond",
               call'[d].session = t
        PROVE  call'[d].jti = row'[t] \/ <<t, call'[d].jti>> \in presented'
    <3>1. call'[d] = call[d] /\ row'[t] = row[t]
      BY <1>2, <2>1, <2>c
    <3>2. Fresh(t, call[d].jti)
      BY <1>0, <2>c, <3>1 DEF TokenChain
    <3> QED
      BY <1>2, <3>1, <3>2 DEF Fresh
  <2> QED
    BY <2>a, <2>b, <2>c DEF Fresh
<1> QED
  BY <1>6, <1>7, <1>8, <1>9, <1>10, <1>11, <1>12 DEF IInv

\* A rotation locks its row, or finds none and is refused.
LEMMA LockRowStep ==
    ASSUME IInv, NEW c \in Callers, LockRow(c)
    PROVE  IInv'
<1>0. /\ Shape /\ KindsOfSteps /\ RowsHeld /\ Beginnings /\ AbsenceLasts
      /\ RefusalIsFinal /\ VersionsPast /\ TokenChain
      /\ None \notin Callers \cup Sessions
  BY SessionAssumption DEF IInv
<1> DEFINE s == call[c].session
           new == [call[c] EXCEPT !.pc = "swap", !.read = row[s]]
<1>1. /\ call[c].pc = "rotate" /\ s \in Sessions /\ IsCall(call[c])
      /\ call[c].kind = "refresh" /\ rowLock[s] = None
      /\ UNCHANGED <<version, row, minted, sessCache, presented, suspect, revoked>>
  BY <1>0 DEF LockRow, Shape, KindsOfSteps, Unlocked, caches, history
<1>2. CASE row[s] = 0
  <2>1. Refused(c) /\ UNCHANGED rowLock
    BY <1>2 DEF LockRow
  <2>2. QuietRows(c, {})
    BY <1>1, <2>1, RowsUntouched
  <2> QED
    BY <1>0, <1>1, <2>1, <2>2, RefusedCopies, QuietStep DEF Quiet
<1>3. CASE row[s] # 0
  <2>1. /\ IsCall(new) /\ new.pc = "swap" /\ new.kind = "refresh" /\ new.session = s
        /\ new.jti = call[c].jti /\ new.version = call[c].version /\ new.read = row[s]
    BY <1>1 DEF IsCall, CallFields
  <2>2. /\ call' = [call EXCEPT ![c] = new]
        /\ rowLock' = [rowLock EXCEPT ![s] = c]
        /\ UNCHANGED <<cookie, access>>
    BY <1>3 DEF LockRow, Held, Goes, browser
  <2>3. call[c].session = s
    OBVIOUS
  <2> HIDE DEF s, new
  <2>4. \A d \in Callers : call'[d] = IF d = c THEN new ELSE call[d]
    BY <1>0, <2>2 DEF Shape
  <2>5. Shape'
    BY <1>0, <1>1, <2>1, <2>2, <2>4 DEF Shape
  <2>6. KindsOfSteps'
    BY <1>0, <2>1, <2>4 DEF KindsOfSteps
  <2>7. RowsHeld'
    BY <1>0, <1>1, <1>3, <2>1, <2>2, <2>3, <2>4 DEF RowsHeld, Shape
  <2>8. Beginnings'
    <3>1. \A d \in Callers : /\ Starting(d)' => Starting(d) /\ call'[d] = call[d]
                             /\ call'[d].session = call[d].session
      BY <2>1, <2>3, <2>4 DEF Starting
    <3>2. \A t \in Sessions : minted'[t] = 0 =>
             KnownToNobody(t)' /\ \A d \in Callers : call'[d].session # t
      <4>1. \A t : KnownToNobody(t)' <=> KnownToNobody(t)
        BY <1>1, <2>2 DEF KnownToNobody
      <4> QED
        BY <1>0, <1>1, <3>1, <4>1 DEF Beginnings
    <3>3. ASSUME NEW d \in Callers, Starting(d)'
          PROVE  /\ KnownToNobody(call[d].session)'
                 /\ \A e \in Callers \ {d} : call'[e].session # call'[d].session
                 /\ call'[d].jti = 1
      <4>1. KnownToNobody(call[d].session)
        BY <1>0, <3>1, <3>3 DEF Beginnings
      <4>2. KnownToNobody(call[d].session)'
        BY <1>1, <2>2, <3>1, <3>3, <4>1 DEF KnownToNobody
      <4> QED
        BY <1>0, <3>1, <3>3, <4>2 DEF Beginnings
    <3> QED
      BY <3>2, <3>3 DEF Beginnings
  <2>9. AbsenceLasts' /\ RefusalIsFinal'
    BY <1>0, <1>1, <2>1, <2>4 DEF AbsenceLasts, RefusalIsFinal
  <2>10. VersionsPast'
    BY <1>0, <1>1, <2>1, <2>2, <2>3, <2>4 DEF VersionsPast, OldFor
  <2>11. TokenChain'
    <3>1. \A d \in Callers : /\ Presenting(d)' => Presenting(d)
                             /\ call'[d].session = call[d].session
                             /\ call'[d].jti = call[d].jti
                             /\ call'[d].pc = "respond" => call[d].pc = "respond"
      BY <1>1, <2>1, <2>3, <2>4 DEF Presenting
    <3> QED
      BY <1>0, <1>1, <2>2, <3>1 DEF TokenChain, Fresh
  <2> QED
    BY <2>5, <2>6, <2>7, <2>8, <2>9, <2>10, <2>11 DEF IInv
<1> QED
  BY <1>2, <1>3

\* The session's next token is minted, and the row may come to expect it.
LEMMA MintStep ==
    ASSUME IInv, NEW c \in Callers, Rotate(c) \/ FailOpen(c)
    PROVE  IInv'
<1>0. /\ Shape /\ KindsOfSteps /\ RowsHeld /\ Beginnings /\ AbsenceLasts
      /\ RefusalIsFinal /\ VersionsPast /\ TokenChain
      /\ None \notin Callers \cup Sessions
  BY SessionAssumption DEF IInv
<1> DEFINE s == call[c].session
           new == [call[c] EXCEPT !.pc = "respond", !.jti = minted[s] + 1, !.read = 0,
                                  !.version = call[c].version]
<1>1. /\ call[c].pc \in {"rotate", "swap"} /\ s \in Sessions /\ IsCall(call[c])
      /\ call[c].kind = "refresh"
  BY <1>0 DEF Rotate, FailOpen, Shape, KindsOfSteps
<1>2. /\ IsCall(new) /\ new.pc = "respond" /\ new.kind = "refresh" /\ new.session = s
      /\ new.jti = minted[s] + 1 /\ new.version = call[c].version
  BY <1>1 DEF IsCall, CallFields
<1>3. /\ call' = [call EXCEPT ![c] = new]
      /\ minted' = [minted EXCEPT ![s] = @ + 1]
      /\ rowLock' = [t \in Sessions |-> IF rowLock[t] = c THEN None ELSE rowLock[t]]
      /\ UNCHANGED <<version, sessCache, cookie, access, presented, revoked>>
  BY DEF Rotate, FailOpen, Mint, MintedVersion, Goes, Released, caches, browser, history
<1>4. \/ /\ FailOpen(c) /\ UNCHANGED row /\ suspect' = suspect \cup {s}
      \/ /\ row' = [row EXCEPT ![s] = minted[s] + 1] /\ UNCHANGED suspect
         /\ call[c].pc = "swap" /\ row[s] # 0 /\ call[c].jti = row[s]
  BY <1>0 DEF Rotate, FailOpen, RowsHeld, history
<1>5. call[c].session = s /\ minted[s] \in Nat
  BY <1>0, <1>1 DEF Shape
<1> HIDE DEF s, new
<1>6. \A d \in Callers : call'[d] = IF d = c THEN new ELSE call[d]
  BY <1>0, <1>3 DEF Shape
<1>7. row' = [t \in Sessions |-> row'[t]] /\ \A t \in Sessions : t # s => row'[t] = row[t]
  BY <1>0, <1>4 DEF Shape
<1>8. Shape'
  <2>1. minted' \in [Sessions -> Nat]
    BY <1>0, <1>1, <1>3 DEF Shape
  <2>2. rowLock' \in [Sessions -> Callers \cup {None}]
    BY <1>0, <1>3 DEF Shape
  <2>3. call' = [d \in Callers |-> call'[d]]
    BY <1>0, <1>3 DEF Shape
  <2>4. \A d \in Callers :
           /\ IsCall(call'[d])
           /\ IF call'[d].pc = "idle" THEN call'[d].session = None
              ELSE call'[d].session \in Sessions
    BY <1>0, <1>1, <1>2, <1>6 DEF Shape
  <2> QED
    BY <1>0, <1>3, <1>7, <2>1, <2>2, <2>3, <2>4 DEF Shape
<1>9. KindsOfSteps'
  BY <1>0, <1>2, <1>6 DEF KindsOfSteps
<1>10. RowsHeld'
  <2>1. \A t \in Sessions, d \in Callers :
           rowLock'[t] = d <=> call'[d].pc = "swap" /\ call'[d].session = t
    BY <1>0, <1>2, <1>3, <1>6 DEF RowsHeld
  <2>2. ASSUME NEW d \in Callers, call'[d].pc = "swap"
        PROVE  call'[d].read = row'[call'[d].session] /\ call'[d].read # 0
    <3>1. d # c /\ call'[d] = call[d]
      BY <1>2, <1>6, <2>2
    <3>2. call[d].session \in Sessions /\ rowLock[call[d].session] = d
      BY <1>0, <2>2, <3>1 DEF RowsHeld, Shape
    <3>3. row'[call[d].session] = row[call[d].session]
      BY <1>0, <1>1, <1>4, <1>5, <1>7, <3>1, <3>2 DEF RowsHeld
    <3> QED
      BY <1>0, <2>2, <3>1, <3>3 DEF RowsHeld
  <2> QED
    BY <2>1, <2>2 DEF RowsHeld
<1>11. Beginnings'
  <2>1. \A d \in Callers : /\ Starting(d)' => Starting(d) /\ call'[d] = call[d]
                           /\ call'[d].session = call[d].session
    BY <1>2, <1>5, <1>6 DEF Starting
  <2>2. \A t \in Sessions : minted'[t] = 0 => minted[t] = 0
    BY <1>0, <1>3, <1>5 DEF Shape
  <2>3. \A t \in Sessions : minted'[t] = 0 =>
           KnownToNobody(t)' /\ \A d \in Callers : call'[d].session # t
    <3>1. \A t : KnownToNobody(t)' <=> KnownToNobody(t)
      BY <1>3 DEF KnownToNobody
    <3> QED
      BY <1>0, <2>1, <2>2, <3>1 DEF Beginnings
  <2>4. ASSUME NEW d \in Callers, Starting(d)'
        PROVE  /\ KnownToNobody(call[d].session)'
               /\ \A e \in Callers \ {d} : call'[e].session # call'[d].session
               /\ call'[d].jti = 1
    <3>1. KnownToNobody(call[d].session)
      BY <1>0, <2>1, <2>4 DEF Beginnings
    <3>2. KnownToNobody(call[d].session)'
      BY <1>3, <2>1, <2>4, <3>1 DEF KnownToNobody
    <3> QED
      BY <1>0, <2>1, <2>4, <3>2 DEF Beginnings
  <2> QED
    BY <2>3, <2>4 DEF Beginnings
<1>12. AbsenceLasts' /\ RefusalIsFinal'
  <2>1. \A t \in Sessions : row[t] = 0 => row'[t] = 0
    BY <1>4, <1>7
  <2>2. AbsenceLasts'
    BY <1>0, <1>2, <1>6, <2>1 DEF AbsenceLasts, Shape
  <2> QED
    BY <1>0, <1>3, <2>1, <2>2 DEF RefusalIsFinal
<1>13. VersionsPast'
  <2>1. \A t \in Sessions : minted[t] # 0 => minted'[t] # 0
    BY <1>0, <1>3, <1>5 DEF Shape
  <2> QED
    BY <1>0, <1>2, <1>3, <1>5, <1>6, <2>1 DEF VersionsPast, OldFor
<1>14. TokenChain'
  <2>1. \A d \in Callers :
           /\ Presenting(d)' => Presenting(d) /\ d # c /\ call'[d] = call[d]
           /\ d # c => call'[d] = call[d]
    BY <1>2, <1>6 DEF Presenting
  <2> SUFFICES ASSUME NEW t \in Sessions \ suspect'
               PROVE  /\ \A d \in Callers : Presenting(d)' /\ call'[d].session = t =>
                            /\ <<t, call'[d].jti>> \in presented
                            /\ row'[t] # 0 => call'[d].jti = row'[t]
                            /\ \A e \in Callers \ {d} :
                                  Presenting(e)' /\ call'[e].session = t =>
                                      call'[e].jti # call'[d].jti
                      /\ row'[t] # 0 =>
                            /\ cookie'[t] # None => Fresh(t, cookie[t].jti)'
                            /\ \A d \in Callers :
                                  call'[d].pc = "respond" /\ call'[d].session = t =>
                                      Fresh(t, call[d].jti)'
    BY <1>3 DEF TokenChain
  <2>2. t \notin suspect
    BY <1>4
  <2>3. CASE t # s
    <3>1. row'[t] = row[t]
      BY <1>7, <2>3
    <3>2. \A d \in Callers : call'[d].session = t => call'[d] = call[d]
      BY <1>2, <1>6, <2>3
    <3>a. \A d \in Callers : Presenting(d)' /\ call'[d].session = t =>
             /\ <<t, call'[d].jti>> \in presented
             /\ row'[t] # 0 => call'[d].jti = row'[t]
             /\ \A e \in Callers \ {d} : Presenting(e)' /\ call'[e].session = t =>
                   call'[e].jti # call'[d].jti
      BY <1>0, <2>1, <2>2, <3>1, <3>2 DEF TokenChain
    <3>b. row'[t] # 0 /\ cookie'[t] # None =>
             cookie'[t].jti = row'[t] \/ <<t, cookie'[t].jti>> \in presented'
      BY <1>0, <1>3, <2>2, <3>1 DEF TokenChain, Fresh
    <3>c. ASSUME NEW d \in Callers, row'[t] # 0, call'[d].pc = "respond",
                 call'[d].session = t
          PROVE  call'[d].jti = row'[t] \/ <<t, call'[d].jti>> \in presented'
      <4>1. Fresh(t, call[d].jti)
        BY <1>0, <2>2, <3>1, <3>2, <3>c DEF TokenChain
      <4> QED
        BY <1>3, <3>1, <3>2, <3>c, <4>1 DEF Fresh
    <3> QED
      BY <3>a, <3>b, <3>c DEF Fresh
  <2>4. CASE t = s
    \* Each other token was presented, the replaced one among them.
    <3>1. /\ row' = [row EXCEPT ![s] = minted[s] + 1] /\ UNCHANGED suspect
          /\ row[s] # 0 /\ call[c].jti = row[s] /\ Presenting(c)
      BY <1>1, <1>4, <2>4 DEF Presenting
    <3>2. <<s, row[s]>> \in presented
      BY <1>0, <1>5, <2>2, <2>4, <3>1 DEF TokenChain
    <3>3. ASSUME NEW d \in Callers, Presenting(d)', call'[d].session = s
          PROVE  FALSE
      <4>1. Presenting(d) /\ d # c /\ call[d].session = s
        BY <2>1, <3>3
      <4>2. call[d].jti = row[s] /\ call[d].jti # call[c].jti
        BY <1>0, <1>5, <2>2, <2>4, <3>1, <4>1 DEF TokenChain
      <4> QED
        BY <3>1, <4>2
    <3>b. row'[t] # 0 /\ cookie'[t] # None =>
             cookie'[t].jti = row'[t] \/ <<t, cookie'[t].jti>> \in presented'
      BY <1>0, <1>3, <2>2, <2>4, <3>1, <3>2 DEF TokenChain, Fresh
    <3>c. ASSUME NEW d \in Callers, row'[t] # 0, call'[d].pc = "respond",
                 call'[d].session = t
          PROVE  call'[d].jti = row'[t] \/ <<t, call'[d].jti>> \in presented'
      <4>1. CASE d = c
        BY <1>0, <1>1, <1>2, <1>6, <2>4, <3>1, <4>1 DEF Shape
      <4>2. CASE d # c
        <5>1. Fresh(t, call[d].jti)
          BY <1>0, <2>1, <2>2, <2>4, <3>1, <3>c, <4>2 DEF TokenChain
        <5> QED
          BY <1>3, <2>1, <2>4, <3>2, <4>2, <5>1 DEF Fresh
      <4> QED
        BY <4>1, <4>2
    <3> QED
      BY <2>4, <3>3, <3>b, <3>c DEF Fresh
  <2> QED
    BY <2>3, <2>4
<1> QED
  BY <1>8, <1>9, <1>10, <1>11, <1>12, <1>13, <1>14 DEF IInv

\* A sign-out of all devices makes every token handed out before it old.
LEMMA BumpStep ==
    ASSUME IInv, NEW c \in Callers, BumpTokenVersion(c)
    PROVE  IInv'
<1>0. /\ Shape /\ KindsOfSteps /\ RowsHeld /\ Beginnings /\ AbsenceLasts
      /\ RefusalIsFinal /\ VersionsPast /\ TokenChain
      /\ None \notin Callers \cup Sessions
  BY SessionAssumption DEF IInv
<1> DEFINE new == [call[c] EXCEPT !.pc = "deleteAll"]
<1>1. /\ IsCall(call[c]) /\ call[c].pc = "bump"
  BY <1>0 DEF BumpTokenVersion, Shape
<1>2. /\ IsCall(new) /\ new.pc = "deleteAll" /\ new.session = call[c].session
      /\ new.jti = call[c].jti /\ new.version = call[c].version
  BY <1>1 DEF IsCall, CallFields
<1>3. /\ call' = [call EXCEPT ![c] = new] /\ version' = version + 1
      /\ revoked' = {s \in Sessions : minted[s] # 0}
      /\ UNCHANGED <<row, rowLock, minted, sessCache, cookie, access, presented, suspect>>
  BY DEF BumpTokenVersion, GoesTo, Goes, caches, browser
<1> HIDE DEF new
<1>4. \A d \in Callers : call'[d] = IF d = c THEN new ELSE call[d]
  BY <1>0, <1>3 DEF Shape
<1>5. Shape'
  BY <1>0, <1>1, <1>2, <1>3, <1>4 DEF Shape
<1>6. KindsOfSteps'
  BY <1>0, <1>2, <1>4 DEF KindsOfSteps
<1>7. RowsHeld'
  BY <1>0, <1>1, <1>2, <1>3, <1>4 DEF RowsHeld
<1>8. Beginnings'
  <2>1. \A d \in Callers : /\ Starting(d)' => Starting(d) /\ call'[d] = call[d]
                           /\ call'[d].session = call[d].session
    BY <1>2, <1>4 DEF Starting
  <2>2. \A t \in Sessions : minted'[t] = 0 =>
           KnownToNobody(t)' /\ \A d \in Callers : call'[d].session # t
    <3>1. \A t : KnownToNobody(t)' <=> KnownToNobody(t)
      BY <1>3 DEF KnownToNobody
    <3> QED
      BY <1>0, <1>3, <2>1, <3>1 DEF Beginnings
  <2>3. ASSUME NEW d \in Callers, Starting(d)'
        PROVE  /\ KnownToNobody(call[d].session)'
               /\ \A e \in Callers \ {d} : call'[e].session # call'[d].session
               /\ call'[d].jti = 1
    <3>1. KnownToNobody(call[d].session)
      BY <1>0, <2>1, <2>3 DEF Beginnings
    <3>2. KnownToNobody(call[d].session)'
      BY <1>3, <2>1, <2>3, <3>1 DEF KnownToNobody
    <3> QED
      BY <1>0, <2>1, <2>3, <3>2 DEF Beginnings
  <2> QED
    BY <2>2, <2>3 DEF Beginnings
<1>9. AbsenceLasts' /\ RefusalIsFinal'
  BY <1>0, <1>2, <1>3, <1>4 DEF AbsenceLasts, RefusalIsFinal
<1>10. VersionsPast'
  BY <1>0, <1>2, <1>3, <1>4 DEF VersionsPast, OldFor, Shape
<1>11. TokenChain'
  <2>1. \A d \in Callers : /\ Presenting(d)' => Presenting(d)
                           /\ call'[d].session = call[d].session
                           /\ call'[d].jti = call[d].jti
                           /\ call'[d].pc = "respond" => call[d].pc = "respond"
    BY <1>2, <1>4 DEF Presenting
  <2> QED
    BY <1>0, <1>3, <2>1 DEF TokenChain, Fresh
<1> QED
  BY <1>5, <1>6, <1>7, <1>8, <1>9, <1>10, <1>11 DEF IInv

-----------------------------------------------------------------------------
\* The invariant holds initially and is preserved by every step.
LEMMA Inductive == Spec => []IInv
<1>1. Init => IInv
  <2> SUFFICES ASSUME Init
               PROVE  IInv
    OBVIOUS
  <2>0. /\ IsCall(Idle) /\ Idle.pc = "idle" /\ Idle.session = None /\ Idle.version = 0
        /\ None \notin Callers \cup Sessions \cup BOOLEAN
    BY SessionAssumption DEF Idle, IsCall, CallFields
  <2>1. \A c \in Callers : call[c] = Idle
    BY DEF Init
  <2>2. Shape
    BY <2>0, <2>1 DEF Init, Shape, IsTable
  <2>3. KindsOfSteps /\ RowsHeld /\ AbsenceLasts /\ RefusalIsFinal
    BY <2>0, <2>1 DEF Init, KindsOfSteps, RowsHeld, AbsenceLasts, RefusalIsFinal
  <2>4. Beginnings
    BY <2>0, <2>1 DEF Init, Beginnings, KnownToNobody, Starting
  <2>5. VersionsPast /\ TokenChain
    BY <2>0, <2>1 DEF Init, VersionsPast, OldFor, TokenChain, Presenting
  <2> QED
    BY <2>2, <2>3, <2>4, <2>5 DEF IInv
<1>2. IInv /\ [Next]_vars => IInv'
  <2> SUFFICES ASSUME IInv, [Next]_vars
               PROVE  IInv'
    OBVIOUS
  <2>1. CASE Next
    BY <2>1, LoginStep, CheckBegins, CreateStep, RespondStep, CheckSteps, LockRowStep,
       MintStep, BumpStep, EndingSteps, ExpireStep, LapseStep DEF Next
  <2>2. CASE UNCHANGED vars
    <3>1. UNCHANGED <<version, row, rowLock, sessCache, minted, cookie, access, call,
                      presented, suspect, revoked>>
      BY <2>2 DEF vars, database, caches, browser, history
    <3>2. Shape' /\ KindsOfSteps' /\ RowsHeld' /\ AbsenceLasts' /\ RefusalIsFinal'
      BY <3>1 DEF IInv, Shape, KindsOfSteps, RowsHeld, AbsenceLasts, RefusalIsFinal
    <3>3. Beginnings'
      BY <3>1 DEF IInv, Beginnings, KnownToNobody, Starting
    <3>4. VersionsPast'
      BY <3>1 DEF IInv, VersionsPast, OldFor
    <3>5. TokenChain'
      BY <3>1 DEF IInv, TokenChain, Presenting, Fresh
    <3> QED
      BY <3>2, <3>3, <3>4, <3>5 DEF IInv
  <2> QED
    BY <2>1, <2>2
<1> QED
  BY <1>1, <1>2, PTL DEF Spec

\* A cached "no such session" is never about a session that has yet to get its
\* row.
THEOREM RefusalsAreFinal == Spec => []RefusalIsFinal
<1>1. IInv => RefusalIsFinal
  BY DEF IInv
<1> QED
  BY <1>1, Inductive, PTL

\* No refresh carries a session over a sign-out of all devices.
THEOREM SignOutReachesEveryToken == Spec => []NoTokenSurvivesSignOut
<1>1. IInv => NoTokenSurvivesSignOut
  BY DEF IInv, VersionsPast, OldFor, NoTokenSurvivesSignOut
<1> QED
  BY <1>1, Inductive, PTL

\* Reuse detection ends no session whose browser presented each token once and
\* got every one from a rotation that was recorded: at the lock, the row of such
\* a session expects the token presented.
THEOREM OnlyReplaysEndSessions == Spec => []EndedOnlyForReplay
<1>1. IInv => EndedOnlyForReplay
  <2> SUFFICES ASSUME IInv, NEW c \in Callers, call[c].pc = "swap",
                      call[c].read # call[c].jti, call[c].session \notin suspect
               PROVE  FALSE
    BY DEF EndedOnlyForReplay
  <2>1. Presenting(c) /\ call[c].session \in Sessions
    BY DEF IInv, KindsOfSteps, Presenting, Shape
  <2>2. call[c].read = row[call[c].session] /\ call[c].read # 0
    BY DEF IInv, RowsHeld
  <2> QED
    BY <2>1, <2>2 DEF IInv, TokenChain
<1> QED
  BY <1>1, Inductive, PTL

\* Whatever tabs, replicas and sign-outs meet, a rotation replaces the token it
\* was presented: the row it read under its lock is still the row.
THEOREM RotatesOnce == Spec => TokenRotatesOnce
<1>1. IInv /\ [Next]_vars =>
         [\A s \in Sessions, c \in Callers :
            row'[s] \notin {0, row[s]} /\ call[c].pc = "swap" /\ call[c].session = s
            /\ call'[c] # call[c] => row[s] = call[c].jti]_vars
  <2> SUFFICES ASSUME IInv, Next, NEW s \in Sessions, NEW c \in Callers,
                      row'[s] \notin {0, row[s]}, call[c].pc = "swap",
                      call[c].session = s, call'[c] # call[c]
               PROVE  row[s] = call[c].jti
    OBVIOUS
  <2>1. call[c].read = row[s] /\ rowLock[s] = c /\ call = [d \in Callers |-> call[d]]
    BY DEF IInv, RowsHeld, Shape
  <2>2. \A d \in Callers : \A new : call' = [call EXCEPT ![d] = new] => d = c
    BY <2>1
  <2>3. Idle.pc = "idle"
    BY DEF Idle
  <2>4. row' # row /\ row' # [t \in Sessions |-> IF t \in {s} THEN 0 ELSE row[t]]
    BY DEF IInv, Shape
  <2>5. ~ \E d \in Callers, t \in Sessions : Login(d, t)
    BY <2>4 DEF Login, database
  <2>6. ~ \E d \in Callers, r \in Replicas, t \in Sessions :
              Refresh(d, r, t) \/ \E kind \in {"request", "end", "endAll"} : Request(d, r, t, kind)
    BY <2>4 DEF Refresh, Request, database
  <2>7. ~ \E r \in Replicas : Expire(r)
    BY <2>4 DEF Expire, database
  <2>8. ~ \E t \in Sessions : Lapse(t)
    BY DEF Lapse
  <2>9. PICK d \in Callers : Create(d) \/ Rotate(d) \/ Reuse(d) \/ DeleteSession(d)
                            \/ DeleteUserSessions(d)
    BY <2>4, <2>5, <2>6, <2>7, <2>8
       DEF Next, Insert, CreateFails, Respond, LoseAnswer, Resolve, CacheVersion, CheckSession,
           CacheSession, LockRow, FailOpen, BumpTokenVersion, EndFails, Evict, database
  <2>10. CASE Create(d) \/ DeleteSession(d) \/ DeleteUserSessions(d)
    <3>1. call[d].pc # "swap" /\ \E new : call' = [call EXCEPT ![d] = new]
      BY <2>10 DEF Create, DeleteSession, DeleteUserSessions, GoesTo, Goes
    <3> QED
      BY <2>2, <3>1
  <2>11. CASE Rotate(d)
    <3>1. call[d].read = call[d].jti /\ \E new : call' = [call EXCEPT ![d] = new]
      BY <2>11 DEF Rotate, Mint, Goes
    <3> QED
      BY <2>1, <2>2, <3>1
  <2>12. CASE Reuse(d)
    <3>1. \E new : call' = [call EXCEPT ![d] = new]
      BY <2>12 DEF Reuse, Refused, Ends, Goes
    <3>2. d = c
      BY <2>2, <3>1
    <3> QED
      BY <2>4, <2>12, <3>2 DEF Reuse, Removed
  <2> QED
    BY <2>9, <2>10, <2>11, <2>12
<1> QED
  BY <1>1, Inductive, PTL DEF Spec, TokenRotatesOnce

=============================================================================
