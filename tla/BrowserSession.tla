--------------------------- MODULE BrowserSession ---------------------------
(***************************************************************************)
(* The browser's side of a session: several tabs, each with its copy of    *)
(* one persisted envelope, the origin-wide lock under which the refresh    *)
(* cookie is used, and requests, sign-ins and sign-outs that meet.         *)
(*                                                                         *)
(* A server session belongs to one member and numbers its rotations; an    *)
(* access token names its session and the rotation it came with, and so    *)
(* does the refresh cookie, which all tabs share.  What is done between    *)
(* two awaits is one step; where several awaits in a row re-check the same *)
(* things, the last check is the step.  A tab's generation counter is told *)
(* by "current": whether it still is what the call has captured.  Of the   *)
(* storage events under way to a tab only the last is kept, for a tab      *)
(* adopts only what is newer than its copy.                                *)
(***************************************************************************)
EXTENDS Naturals, Sequences, FiniteSets

CONSTANTS Tabs, Callers, Members,
          None,
          MaxSessions,   \* bound: sessions the server begins
          MaxRotations,  \* bound: the rotations of one session
          MaxRevision,   \* bound: the revisions of the envelope
          MaxFaults      \* bound: lost answers and reloaded tabs

VARIABLES
    stored,     \* the persisted envelope
    env,        \* per tab, its copy
    ends,       \* per tab, pendingEnds
    exchanges,  \* per tab, authorizationCompletionsInFlight
    unheard,    \* the tabs with a storage event under way
    ahead,      \* per caller that holds or awaits the lock, those before it
    call,       \* per caller, where it is
    lineages,   \* how many lineages were created
    owner,      \* the server's sessions, in order, by member
    live,       \* those not ended
    rotation,   \* per session, the rotation its row expects
    aged,       \* per session, the last rotation whose access token has expired
    cookie,     \* the refresh cookie, or None
    faults,     \* how many faults there have been
    ended,      \* history: the sessions signed out in this browser
    replays     \* history: the spent cookies that were presented

tabs    == <<stored, env, ends, exchanges, unheard, ahead, lineages>>
server  == <<owner, live, rotation, aged>>
history == <<ended, replays>>
vars == <<tabs, call, server, cookie, faults, history>>

Token == [session: 1 .. MaxSessions, n: 1 .. MaxRotations]
Envelope == [revision: 1 .. MaxRevision, lineage: Nat, token: Token \cup {None}]

ASSUME BrowserAssumption ==
    /\ IsFiniteSet(Callers)
    /\ {MaxSessions, MaxRotations, MaxRevision} \subseteq Nat \ {0}
    /\ MaxFaults \in Nat
    /\ None \notin Tabs \cup Callers \cup Members \cup Nat \cup Token \cup Envelope
    /\ None \notin {"request", "complete", "end", "ok", "401", "lost"}

Idle == [tab |-> None, op |-> None, pc |-> "idle", captured |-> None, current |-> FALSE,
         waits |-> FALSE, cleanup |-> FALSE, token |-> None, reply |-> None]

Owner(token) == owner[token.session]

\* sameMembership, of two projections that may be anonymous.
OtherMember(a, b) == a # None /\ b # None /\ Owner(a) # Owner(b)

TypeOK ==
    /\ stored \in Envelope
    /\ env \in [Tabs -> Envelope]
    /\ ends \in [Tabs -> 0 .. Cardinality(Callers)]
    /\ exchanges \in [Tabs -> 0 .. 1]
    /\ unheard \subseteq Tabs
    /\ ahead \in [Callers -> SUBSET Callers]
    /\ DOMAIN call = Callers
    /\ owner \in Seq(Members)
    /\ live \subseteq DOMAIN owner
    /\ cookie \in Token \cup {None}
    /\ faults \in 0 .. MaxFaults

\* Hydration finds an envelope: a tombstone, or the session of its cookie.
Init ==
    /\ \/ owner = << >> /\ cookie = None
       \/ \E m \in Members : owner = <<m>> /\ cookie = [session |-> 1, n |-> 1]
    /\ live = DOMAIN owner
    /\ rotation = [s \in 1 .. MaxSessions |-> 1]
    /\ aged = [s \in 1 .. MaxSessions |-> 0]
    /\ stored = [revision |-> 1, lineage |-> 1, token |-> cookie]
    /\ env = [t \in Tabs |-> stored]
    /\ ends = [t \in Tabs |-> 0]
    /\ exchanges = [t \in Tabs |-> 0]
    /\ unheard = {}
    /\ ahead = [c \in Callers |-> {}]
    /\ call = [c \in Callers |-> Idle]
    /\ lineages = 1
    /\ faults = 0
    /\ ended = {} /\ replays = {}

-----------------------------------------------------------------------------
(* The envelope. *)

\* adopt, adoptPersisted: a newer envelope replaces the tab's, unless the tab
\* is ending its session.
Adopted(t) == IF ends[t] = 0 /\ stored.revision > env[t].revision THEN stored ELSE env[t]

\* c goes on as given in the tab t; what else the tab is doing is no longer of
\* its current generation if that has moved.
Goes(c, next, t, moved) ==
    call' = [d \in Callers |->
                IF d = c THEN next
                ELSE IF moved /\ call[d].tab = t THEN [call[d] EXCEPT !.current = FALSE]
                ELSE call[d]]

Moves(t) == Adopted(t) # env[t]

\* Whether the call's generation still is its tab's, once that has adopted.
\* Bug: the tab has not adopted, its storage event being late.
CurrentUnread(c) == call[c].current
Current(c) == call[c].current /\ ~Moves(call[c].tab)

\* The tab adopts and the call goes on.
AdoptsAndGoes(c, next) ==
    LET t == call[c].tab
    IN /\ env' = [env EXCEPT ![t] = Adopted(t)]
       /\ Goes(c, next, t, Moves(t))
       /\ UNCHANGED <<stored, unheard, lineages>>

\* publish: a new envelope on top of a base, of a given lineage or a new one.
NewLineage == lineages + 1

Publishes(c, base, lineage, token, next) ==
    LET t == call[c].tab
        new == [revision |-> base + 1, lineage |-> lineage, token |-> token]
    IN /\ base < MaxRevision
       /\ stored' = new
       /\ env' = [env EXCEPT ![t] = new]
       /\ unheard' = (unheard \cup Tabs) \ {t}
       /\ lineages' = IF lineage > lineages THEN lineage ELSE lineages
       /\ Goes(c, next, t, TRUE)

\* endGeneration, where the generation is the tab's.
Tombstones(c) == Publishes(c, Adopted(call[c].tab).revision, NewLineage, None, Idle)

\* The lock is given in the order in which it was asked for.
Joins(c) == ahead' = [ahead EXCEPT ![c] = {d \in Callers : call[d].pc \notin {"idle", "data"}}]
Releases(c) == ahead' = [d \in Callers |-> ahead[d] \ {c}]

\* A storage event arrives.
Hear(t) ==
    /\ t \in unheard
    /\ unheard' = unheard \ {t}
    /\ env' = [env EXCEPT ![t] = Adopted(t)]
    /\ Goes(None, Idle, t, Moves(t))
    /\ UNCHANGED <<stored, ends, exchanges, ahead, lineages, server, cookie, faults, history>>

\* The page is loaded anew: its work is lost, and its hold on the lock.
Reload(t) ==
    /\ faults < MaxFaults /\ faults' = faults + 1
    /\ env' = [env EXCEPT ![t] = stored]
    /\ ends' = [ends EXCEPT ![t] = 0]
    /\ exchanges' = [exchanges EXCEPT ![t] = 0]
    /\ unheard' = unheard \ {t}
    /\ ahead' = [c \in Callers |-> IF call[c].tab = t THEN {}
                                  ELSE {d \in ahead[c] : call[d].tab # t}]
    /\ call' = [c \in Callers |-> IF call[c].tab = t THEN Idle ELSE call[c]]
    /\ UNCHANGED <<stored, lineages, server, cookie, history>>

-----------------------------------------------------------------------------
(* The server, and the answers on their way. *)

Accepts(token) == token.session \in live /\ token.n > aged[token.session]

Unanswered(c, pcs) == call[c].pc \in pcs /\ call[c].reply = None

Replies(c, reply) == call' = [call EXCEPT ![c].reply = reply]
Grants(c, token) == call' = [call EXCEPT ![c].reply = "ok", ![c].token = token]

\* A data request, with the token it was sent with.
ServeData(c) ==
    /\ Unanswered(c, {"data", "retry"})
    /\ Replies(c, IF call[c].token = None \/ Accepts(call[c].token) THEN "ok" ELSE "401")
    /\ UNCHANGED <<tabs, server, cookie, faults, history>>

\* A refresh rotates the session of the cookie; a spent cookie ends it.
ServeRefresh(c) ==
    LET s == cookie.session
        known == cookie # None /\ s \in live
    IN /\ Unanswered(c, {"refresh"})
       /\ \/ /\ ~known
             /\ Replies(c, "401")
             /\ UNCHANGED <<live, rotation, replays>>
          \/ /\ known /\ cookie.n = rotation[s]
             /\ rotation[s] < MaxRotations
             /\ rotation' = [rotation EXCEPT ![s] = @ + 1]
             /\ Grants(c, [session |-> s, n |-> rotation[s] + 1])
             /\ UNCHANGED <<live, replays>>
          \/ /\ known /\ cookie.n # rotation[s]
             /\ live' = live \ {s}
             /\ replays' = replays \cup {cookie}
             /\ Replies(c, "401")
             /\ UNCHANGED rotation
       /\ UNCHANGED <<tabs, owner, aged, cookie, faults, ended>>

\* A callback begins a session.
ServeExchange(c) ==
    /\ Unanswered(c, {"exchange"})
    /\ Len(owner) < MaxSessions
    /\ \E m \in Members : owner' = Append(owner, m)
    /\ live' = live \cup {Len(owner) + 1}
    /\ Grants(c, [session |-> Len(owner) + 1, n |-> 1])
    /\ UNCHANGED <<tabs, rotation, aged, cookie, faults, history>>

\* A logout ends the session of the token, or all of its member.
ServeLogout(c) ==
    LET token == call[c].token
    IN /\ Unanswered(c, {"logout", "relogout"})
       /\ \/ /\ Accepts(token)
             /\ \E gone \in {{token.session}, {s \in live : owner[s] = Owner(token)}} :
                   live' = live \ gone
             /\ Replies(c, "ok")
          \/ ~Accepts(token) /\ Replies(c, "401") /\ UNCHANGED live
       /\ UNCHANGED <<tabs, owner, rotation, aged, cookie, faults, history>>

\* The network fails, before the server has answered or after.  (That a data
\* request fails is one of the ways in which its answer is dropped.)
Lose(c) ==
    /\ call[c].pc \in {"refresh", "exchange", "logout", "relogout"}
    /\ call[c].reply # "lost"
    /\ faults < MaxFaults /\ faults' = faults + 1
    /\ Replies(c, "lost")
    /\ UNCHANGED <<tabs, server, cookie, history>>

\* Access tokens expire, but live longer than any call lasts: a call under way
\* is one just sent with the last token.  A session ends on another device, or
\* by its age.
Age(s) ==
    /\ s \in live /\ aged[s] < rotation[s]
    /\ \A c \in Callers : call[c] # Idle =>
          Unanswered(c, {"data"}) /\ call[c].token = [session |-> s, n |-> rotation[s]]
    /\ aged' = [aged EXCEPT ![s] = rotation[s]]
    /\ UNCHANGED <<tabs, call, owner, live, rotation, cookie, faults, history>>

Lapse(s) ==
    /\ s \in live
    /\ live' = live \ {s}
    /\ UNCHANGED <<tabs, call, owner, rotation, aged, cookie, faults, history>>

\* The browser keeps the cookie that an answer sets, or drops the one that it
\* expires.
TakesCookie(c) ==
    LET sets == call[c].pc \in {"refresh", "exchange"} /\ call[c].reply = "ok"
        drops == \/ call[c].pc = "refresh" /\ call[c].reply = "401"
                 \/ call[c].pc \in {"logout", "relogout"} /\ call[c].reply = "ok"
    IN cookie' = IF sets THEN call[c].token ELSE IF drops THEN None ELSE cookie

-----------------------------------------------------------------------------
(* request, performRequest. *)

Sends(c, pc, token) == [call[c] EXCEPT !.pc = pc, !.token = token, !.reply = None]

\* The session in hand is another than the one captured.
\* Bug: what is persisted is not read again.
DepartedUnread(t, captured) ==
    \/ ends[t] > 0
    \/ env[t].lineage # captured.lineage
    \/ OtherMember(captured.token, env[t].token)

Departed(t, captured) ==
    \/ ends[t] > 0
    \/ Adopted(t).lineage # captured.lineage
    \/ OtherMember(captured.token, Adopted(t).token)

Request(c, t) ==
    LET new == [Idle EXCEPT !.tab = t, !.op = "request", !.pc = "data", !.captured = env[t],
                            !.current = TRUE, !.token = Adopted(t).token]
    IN /\ call[c] = Idle
       /\ env' = [env EXCEPT ![t] = Adopted(t)]
       /\ Goes(c, IF Departed(t, env[t]) THEN Idle ELSE new, t, Moves(t))
       /\ UNCHANGED <<stored, ends, exchanges, unheard, ahead, lineages>>
       /\ UNCHANGED <<server, cookie, faults, history>>

\* The answer to the first attempt.  The caller may have left, the network may
\* have failed, or the session may be another (assertRequestAuthority).
DropData(c) ==
    /\ call[c].pc = "data" /\ call[c].reply # None
    /\ AdoptsAndGoes(c, Idle)
    /\ UNCHANGED <<ends, exchanges, ahead, server, cookie, faults, history>>

\* Else it is given to the caller, except a 401 of an access token.
AnswerData(c) ==
    /\ call[c].pc = "data" /\ call[c].reply = "ok"
    /\ ~Departed(call[c].tab, call[c].captured)
    /\ AdoptsAndGoes(c, Idle)
    /\ UNCHANGED <<ends, exchanges, ahead, server, cookie, faults, history>>

AwaitRefresh(c) ==
    /\ call[c].pc = "data" /\ call[c].reply = "401" /\ call[c].captured.token # None
    /\ ~Departed(call[c].tab, call[c].captured)
    /\ AdoptsAndGoes(c, [Sends(c, "wait", None) EXCEPT !.current = Current(c)])
    /\ Joins(c)
    /\ UNCHANGED <<ends, exchanges, server, cookie, faults, history>>

\* retryWithAdoptedSameMembership: the tab has a newer token of the session.
Retriable(c) ==
    LET t == call[c].tab
    IN /\ ~Departed(t, call[c].captured)
       /\ Adopted(t).revision > call[c].captured.revision
       /\ Adopted(t).token # None

RetryAdopted(c) ==
    LET t == call[c].tab
    IN IF Retriable(c)
       THEN /\ AdoptsAndGoes(c, [Sends(c, "retry", Adopted(t).token)
                                 EXCEPT !.captured = Adopted(t), !.current = TRUE])
            /\ UNCHANGED ahead
       ELSE AdoptsAndGoes(c, Idle) /\ Releases(c)

HasLock(c, op) == ahead[c] = {} /\ call[c].pc = "wait" /\ call[c].op = op

\* Inside the lock: another has refreshed meanwhile, or this call does.
LockedRefresh(c) ==
    /\ HasLock(c, "request")
    /\ \/ AdoptsAndGoes(c, Idle) /\ Releases(c)   \* the caller has left
       \/ ~Current(c) /\ RetryAdopted(c)
       \/ Current(c) /\ AdoptsAndGoes(c, Sends(c, "refresh", None)) /\ UNCHANGED ahead
    /\ UNCHANGED <<ends, exchanges, server, cookie, faults, history>>

\* The answer to the refresh.
ReceiveRefresh(c) ==
    LET t == call[c].tab
        token == call[c].token
        same == ~OtherMember(call[c].captured.token, token)
        retry == [Sends(c, "retry", token) EXCEPT !.current = TRUE]
        refreshed(next) == Publishes(c, env[t].revision, call[c].captured.lineage, token, next)
    IN /\ call[c].op = "request" /\ call[c].pc = "refresh" /\ call[c].reply # None
       /\ TakesCookie(c)
       /\ \/ ~Current(c) /\ RetryAdopted(c)
          \/ Current(c) /\ call[c].reply = "lost" /\ AdoptsAndGoes(c, Idle) /\ Releases(c)
          \/ Current(c) /\ call[c].reply = "401" /\ Tombstones(c) /\ Releases(c)
          \/ Current(c) /\ call[c].reply = "ok" /\ ~same /\ Tombstones(c) /\ Releases(c)
          \/ Current(c) /\ call[c].reply = "ok" /\ same /\ refreshed(retry) /\ UNCHANGED ahead
          \/ Current(c) /\ call[c].reply = "ok" /\ same /\ refreshed(Idle) /\ Releases(c)
       /\ UNCHANGED <<ends, exchanges, server, faults, history>>

\* The answer to the second attempt.
DropRetry(c) ==
    /\ call[c].pc = "retry" /\ call[c].reply # None
    /\ AdoptsAndGoes(c, Idle)
    /\ Releases(c)
    /\ UNCHANGED <<ends, exchanges, server, cookie, faults, history>>

AnswerRetry(c) ==
    /\ call[c].pc = "retry" /\ call[c].reply = "ok"
    /\ ~Departed(call[c].tab, call[c].captured)
    /\ AdoptsAndGoes(c, Idle)
    /\ Releases(c)
    /\ UNCHANGED <<ends, exchanges, server, cookie, faults, history>>

ExpireRetry(c) ==
    /\ call[c].pc = "retry" /\ call[c].reply = "401"
    /\ ~Departed(call[c].tab, call[c].captured)
    /\ Current(c)
    /\ Tombstones(c)
    /\ Releases(c)
    /\ UNCHANGED <<ends, exchanges, server, cookie, faults, history>>

-----------------------------------------------------------------------------
(* completeAuthorization. *)

Complete(c, t) ==
    /\ call[c] = Idle
    /\ Goes(c, [Idle EXCEPT !.tab = t, !.op = "complete", !.pc = "wait", !.current = TRUE,
                            !.waits = ends[t] > 0], t, FALSE)
    /\ Joins(c)
    /\ UNCHANGED <<stored, env, ends, exchanges, unheard, lineages>>
    /\ UNCHANGED <<server, cookie, faults, history>>

\* Inside the lock: it is obsolete unless its generation is current, or it
\* waited for a sign-out and finds the tab signed out.
LockedComplete(c) ==
    LET t == call[c].tab
        fresh == IF call[c].waits THEN Adopted(t).token = None ELSE Current(c)
    IN /\ HasLock(c, "complete")
       /\ IF fresh
          THEN /\ AdoptsAndGoes(c, [Sends(c, "exchange", None) EXCEPT !.current = TRUE])
               /\ exchanges' = [exchanges EXCEPT ![t] = @ + 1]
               /\ UNCHANGED ahead
          ELSE AdoptsAndGoes(c, Idle) /\ Releases(c) /\ UNCHANGED exchanges
       /\ UNCHANGED <<ends, server, cookie, faults, history>>

ReceiveExchange(c) ==
    LET t == call[c].tab
    IN /\ call[c].pc = "exchange" /\ call[c].reply # None
       /\ TakesCookie(c)
       /\ \/ /\ Current(c) /\ call[c].reply = "ok"
             /\ Publishes(c, env[t].revision, NewLineage, call[c].token, Idle)
          \/ /\ ~Current(c) \/ call[c].reply = "lost"
             /\ AdoptsAndGoes(c, Idle)
       /\ exchanges' = [exchanges EXCEPT ![t] = @ - 1]
       /\ Releases(c)
       /\ UNCHANGED <<ends, server, faults, history>>

-----------------------------------------------------------------------------
(* end. *)

\* end retires the tab's other work at once, and then awaits the lock.
\* Bug: what a sign-in in flight may have begun is not ended.
EndUncleaned(c, t) ==
    /\ call[c] = Idle
    /\ env' = [env EXCEPT ![t] = Adopted(t)]
    /\ ends' = [ends EXCEPT ![t] = @ + 1]
    /\ Goes(c, [Idle EXCEPT !.tab = t, !.op = "end", !.pc = "wait", !.captured = Adopted(t),
                            !.cleanup = FALSE], t, TRUE)
    /\ Joins(c)
    /\ UNCHANGED <<stored, exchanges, unheard, lineages, server, cookie, faults, history>>

End(c, t) ==
    /\ call[c] = Idle
    /\ env' = [env EXCEPT ![t] = Adopted(t)]
    /\ ends' = [ends EXCEPT ![t] = @ + 1]
    /\ Goes(c, [Idle EXCEPT !.tab = t, !.op = "end", !.pc = "wait", !.captured = Adopted(t),
                            !.cleanup = exchanges[t] > 0], t, TRUE)
    /\ Joins(c)
    /\ UNCHANGED <<stored, exchanges, unheard, lineages, server, cookie, faults, history>>

\* It releases the lock; the last to end adopts what the tab has ignored
\* meanwhile.
Settles(c) ==
    LET t == call[c].tab
        adopts == ends[t] = 1 /\ stored.revision > env[t].revision
    IN /\ Releases(c)
       /\ ends' = [ends EXCEPT ![t] = @ - 1]
       /\ env' = [env EXCEPT ![t] = IF adopts THEN stored ELSE @]
       /\ Goes(c, Idle, t, adopts)

\* Inside the lock: a tombstone on top of what is persisted, and then the
\* server is told; but what another member has persisted meanwhile is kept.
LockedEnd(c) ==
    LET t == call[c].tab
        kept == OtherMember(call[c].captured.token, stored.token)
        remote == call[c].cleanup \/ stored.token # None
        told == IF call[c].cleanup THEN Sends(c, "refresh", None)
                ELSE Sends(c, "logout", stored.token)
    IN /\ HasLock(c, "end")
       /\ \/ /\ kept
             /\ Settles(c)
             /\ UNCHANGED <<stored, unheard, lineages, ended>>
          \/ /\ ~kept
             /\ Publishes(c, stored.revision, NewLineage, None, IF remote THEN told ELSE Idle)
             /\ ended' = IF stored.token = None THEN ended ELSE ended \cup {stored.token.session}
             /\ IF remote THEN UNCHANGED <<ahead, ends>>
                ELSE Releases(c) /\ ends' = [ends EXCEPT ![t] = @ - 1]
       /\ UNCHANGED <<exchanges, server, cookie, faults, replays>>

\* The server's answers.  A refused logout refreshes and is sent again, for
\* the same member only; a sign-in retired in this tab is always ended.
ReceiveEnd(c) ==
    LET reply == call[c].reply
        same == /\ call[c].captured.token # None
                /\ ~OtherMember(call[c].captured.token, call[c].token)
        again == call[c].pc = "logout" /\ reply = "401"
        renewed == call[c].pc = "refresh" /\ reply = "ok" /\ (call[c].cleanup \/ same)
        goesOn(pc, token) == /\ Goes(c, Sends(c, pc, token), None, FALSE)
                             /\ UNCHANGED <<env, ends, ahead>>
    IN /\ call[c].op = "end" /\ reply # None
       /\ TakesCookie(c)
       /\ \/ again /\ goesOn("refresh", None)
          \/ renewed /\ goesOn("relogout", call[c].token)
          \/ ~again /\ ~renewed /\ Settles(c)
       /\ UNCHANGED <<stored, exchanges, unheard, lineages, server, faults, history>>

Next ==
    \/ \E c \in Callers, t \in Tabs : Request(c, t) \/ Complete(c, t) \/ End(c, t)
    \/ \E c \in Callers :
          \/ DropData(c) \/ AnswerData(c) \/ AwaitRefresh(c) \/ LockedRefresh(c) \/ ReceiveRefresh(c)
          \/ DropRetry(c) \/ AnswerRetry(c) \/ ExpireRetry(c)
          \/ LockedComplete(c) \/ ReceiveExchange(c)
          \/ LockedEnd(c) \/ ReceiveEnd(c)
          \/ ServeData(c) \/ ServeRefresh(c) \/ ServeExchange(c) \/ ServeLogout(c) \/ Lose(c)
    \/ \E t \in Tabs : Hear(t) \/ Reload(t)
    \/ \E s \in 1 .. MaxSessions : Age(s) \/ Lapse(s)

Spec == Init /\ [][Next]_vars

-----------------------------------------------------------------------------
(* Properties. *)

\* "Stale work cannot overwrite or clear a newer identity": a caller is given
\* only what was asked for and answered in one session of one member, and that
\* session is the browser's when the answer comes.
AnswerIsTheAskers ==
    [][ \A c \in Callers : AnswerData(c) \/ AnswerRetry(c) =>
          LET asked == call[c].captured
          IN /\ stored.lineage = asked.lineage
             /\ (call[c].token = None) = (asked.token = None)
             /\ ~OtherMember(call[c].token, asked.token) ]_vars

\* "Logout cannot resurrect locally": no refresh or sign-in under way in any
\* tab brings back a session that a sign-out has ended, even where the server
\* was never told.
EndedStaysEnded == stored.token # None => stored.token.session \notin ended

\* Once nothing is under way, every tab shows what is persisted, unless it has
\* yet to hear of it.  If also nothing was lost, the refresh cookie is of the
\* session persisted, and unspent; so it is none when the browser is signed
\* out.  "Concurrent tabs cannot independently rotate one refresh cookie": no
\* spent one was ever presented.
AgreeWhenSettled ==
    (\A c \in Callers : call[c] = Idle) =>
        /\ \A t \in Tabs \ unheard : env[t] = stored
        /\ faults = 0 =>
              /\ replays = {}
              /\ cookie # None /\ cookie.session \in live =>
                    /\ stored.token # None
                    /\ stored.token.session = cookie.session
                    /\ cookie.n = rotation[cookie.session]

=============================================================================
