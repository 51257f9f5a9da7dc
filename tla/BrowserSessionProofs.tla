------------------------ MODULE BrowserSessionProofs ------------------------
(***************************************************************************)
(* What the tabs of one browser keep to, for any number of tabs and of     *)
(* calls under way, if no sign-in is begun in a tab that is signing out.   *)
(***************************************************************************)
EXTENDS BrowserSession, FiniteSetTheorems, TLAPS

-----------------------------------------------------------------------------
(* The inductive invariant. *)

\* No sign-in is begun in a tab that is signing out.
Apart == \A c \in Callers : ~call[c].waits

Ops == {None, "request", "complete", "end"}
Pcs == {"idle", "data", "wait", "refresh", "retry", "exchange", "logout", "relogout"}
Call == [tab: Tabs \cup {None}, op: Ops, pc: Pcs, captured: Envelope \cup {None},
         current: BOOLEAN, waits: BOOLEAN, cleanup: BOOLEAN, token: Token \cup {None},
         reply: {None, "ok", "401", "lost"}]

\* A token that may be held names a session begun.
Begun(token) == token = None \/ token.session \in DOMAIN owner

Typed ==
    /\ stored \in Envelope /\ env \in [Tabs -> Envelope]
    /\ ends \in [Tabs -> Nat] /\ exchanges \in [Tabs -> Int]
    /\ ahead \in [Callers -> SUBSET Callers]
    /\ call \in [Callers -> Call]
    /\ lineages \in Nat
    /\ owner \in Seq(Members) /\ Len(owner) <= MaxSessions
    /\ rotation \in [1 .. MaxSessions -> 1 .. MaxRotations]
    /\ aged \in [1 .. MaxSessions -> Nat]
    /\ cookie \in Token \cup {None}
    /\ ended \subseteq DOMAIN owner

Holds(c) == call[c].pc \in {"refresh", "retry", "exchange", "logout", "relogout"}
InLine(c) == call[c].pc \notin {"idle", "data"}

\* What the steps of a call are of.
Shaped(c) ==
    /\ call[c].pc = "idle" => call[c].op = None /\ call[c].tab = None
    /\ call[c].pc \in {"idle", "wait"} => call[c].reply = None
    /\ call[c].pc # "idle" => call[c].tab \in Tabs /\ call[c].op # None
    /\ call[c].pc \in {"data", "retry"} => call[c].op = "request"
    /\ call[c].pc = "exchange" => call[c].op = "complete"
    /\ call[c].pc = "refresh" => call[c].op \in {"request", "end"}
    /\ call[c].pc \in {"logout", "relogout"} => call[c].op = "end"
    /\ call[c].op \in {"request", "end"} => call[c].captured # None
    /\ call[c].op = "request" /\ call[c].pc \in {"wait", "refresh"} => call[c].captured.token # None
    /\ call[c].pc \in {"refresh", "exchange"} /\ call[c].reply = "ok" => call[c].token # None
    /\ call[c].pc \in {"logout", "relogout"} => call[c].token # None

\* The lock is held by one.
Locked ==
    /\ \A c \in Callers : Holds(c) => ahead[c] = {}
    /\ \A c, d \in Callers : InLine(c) /\ InLine(d) /\ c # d => c \in ahead[d] \/ d \in ahead[c]

\* pendingEnds counts.
Ending(t) == {c \in Callers : call[c].op = "end" /\ call[c].tab = t}
Counted == \A t \in Tabs : ends[t] = Cardinality(Ending(t))

\* The persisted envelope is the newest.
Newest ==
    \A t \in Tabs : /\ env[t].revision <= stored.revision
                    /\ env[t].revision = stored.revision => env[t] = stored

\* A call of its tab's generation goes on in the session that it captured.
Attended(c) ==
    call[c].current =>
        /\ call[c].op \in {"request", "complete"}
        /\ ends[call[c].tab] = 0
        /\ call[c].op = "request" => env[call[c].tab].lineage = call[c].captured.lineage

\* Envelopes of one lineage are of one member, or all are tombstones.
Alike(a, b) == (a = None) = (b = None) /\ ~OtherMember(a, b)

Envelopes == {stored} \cup {env[t] : t \in Tabs}
             \cup {call[c].captured : c \in {d \in Callers : call[d].captured # None}}

Kin ==
    /\ \A e \in Envelopes : e.lineage <= lineages /\ Begun(e.token)
    /\ \A e, f \in Envelopes : e.lineage = f.lineage => Alike(e.token, f.token)

\* What a request sends is of the session that it captured.
Sent(c) ==
    /\ Begun(call[c].token)
    /\ call[c].pc \in {"data", "retry"} => Alike(call[c].token, call[c].captured.token)

\* The cookie is not of a session signed out unless the browser is; what the
\* answers under way bring is of the cookie's session, or of a new one.
Signed ==
    /\ Begun(cookie)
    /\ stored.token # None => stored.token.session \notin ended
    /\ stored.token # None /\ cookie # None => cookie.session \notin ended
    /\ \A c \in Callers : call[c].reply = "ok" =>
          /\ call[c].pc = "refresh" => cookie # None /\ call[c].token.session = cookie.session
          /\ call[c].pc = "exchange" => call[c].token.session \notin ended

IInv ==
    /\ Typed
    /\ \A c \in Callers : Shaped(c) /\ Attended(c) /\ Sent(c)
    /\ Locked /\ Counted /\ Newest /\ Kin /\ Signed
-----------------------------------------------------------------------------
(* Calls, as records. *)

\* What a step does to a call that is not its own.
Same(d) ==
    /\ call'[d].tab = call[d].tab /\ call'[d].op = call[d].op /\ call'[d].pc = call[d].pc
    /\ call'[d].captured = call[d].captured /\ call'[d].waits = call[d].waits
    /\ call'[d].cleanup = call[d].cleanup
    /\ call'[d].token = call[d].token /\ call'[d].reply = call[d].reply
    /\ call'[d].current => call[d].current

LEMMA CallFields ==
    \A r \in Call : /\ r.tab \in Tabs \cup {None} /\ r.op \in Ops /\ r.pc \in Pcs
                    /\ r.captured \in Envelope \cup {None} /\ r.current \in BOOLEAN
                    /\ r.waits \in BOOLEAN /\ r.cleanup \in BOOLEAN
                    /\ r.token \in Token \cup {None} /\ r.reply \in {None, "ok", "401", "lost"}
BY DEF Call

LEMMA EnvelopeFields ==
    \A e \in Envelope : /\ e.revision \in 1 .. MaxRevision /\ e.revision \in Nat /\ e.lineage \in Nat
                        /\ e.token \in Token \cup {None} /\ e # None
BY BrowserAssumption DEF Envelope

LEMMA TokenFields ==
    \A k \in Token : k.session \in 1 .. MaxSessions /\ k.n \in 1 .. MaxRotations /\ k # None
BY BrowserAssumption DEF Token

LEMMA Quiet == /\ Idle \in Call /\ Idle.pc = "idle" /\ Idle.op = None /\ Idle.tab = None
               /\ Idle.captured = None /\ ~Idle.current /\ ~Idle.waits /\ Idle.token = None
               /\ Idle.reply = None
BY DEF Idle, Call, Ops, Pcs

LEMMA Dimmed == \A r \in Call :
    LET q == [r EXCEPT !.current = FALSE]
    IN /\ q \in Call /\ q.tab = r.tab /\ q.op = r.op /\ q.pc = r.pc /\ q.captured = r.captured
       /\ q.waits = r.waits /\ q.cleanup = r.cleanup /\ q.token = r.token /\ q.reply = r.reply /\ ~q.current
BY DEF Call

\* A call goes on, and the others of its tab may lose their generation.
LEMMA Going ==
    ASSUME Typed, NEW c, NEW next, c \in Callers => next \in Call,
           NEW t, NEW moved \in BOOLEAN, Goes(c, next, t, moved)
    PROVE  /\ call' \in [Callers -> Call]
           /\ c \in Callers => call'[c] = next
           /\ \A d \in Callers \ {c} :
                 /\ Same(d)
                 /\ moved /\ call[d].tab = t => ~call'[d].current
                 /\ ~moved \/ call[d].tab # t => call'[d].current = call[d].current
<1>1. call \in [Callers -> Call]
  BY DEF Typed
<1>2. call' = [d \in Callers |-> IF d = c THEN next
                                 ELSE IF moved /\ call[d].tab = t THEN [call[d] EXCEPT !.current = FALSE]
                                 ELSE call[d]]
  BY DEF Goes
<1>3. \A d \in Callers : call[d] \in Call /\ [call[d] EXCEPT !.current = FALSE] \in Call
  BY <1>1, Dimmed
<1>4. call' \in [Callers -> Call]
  BY <1>2, <1>3
<1>5. ASSUME NEW d \in Callers \ {c}
      PROVE  /\ Same(d)
             /\ moved /\ call[d].tab = t => ~call'[d].current
             /\ ~moved \/ call[d].tab # t => call'[d].current = call[d].current
  <2>1. CASE moved /\ call[d].tab = t
    <3>1. call'[d] = [call[d] EXCEPT !.current = FALSE]
      BY <1>2, <2>1
    <3>2. call[d] \in Call /\ ~call'[d].current
      BY <1>3, <3>1, Dimmed
    <3>3. Same(d)
      BY <3>1, <3>2, Dimmed DEF Same
    <3> QED
      BY <2>1, <3>2, <3>3
  <2>2. CASE ~(moved /\ call[d].tab = t)
    <3>1. call'[d] = call[d]
      BY <1>2, <2>2
    <3> QED
      BY <3>1, <2>2 DEF Same
  <2> QED
    BY <2>1, <2>2
<1> QED
  BY <1>2, <1>4, <1>5

LEMMA GoesAs ==
    ASSUME Typed, NEW c \in Callers, NEW next \in Call, NEW t, NEW moved \in BOOLEAN,
           Goes(c, next, t, moved)
    PROVE  /\ call'[c] = next
           /\ \A d \in Callers \ {c} : Same(d) /\ (moved /\ call[d].tab = t => ~call'[d].current)
BY Going

\* A call is sent.
LEMMA Sending ==
    ASSUME Typed, NEW c \in Callers, NEW pc \in Pcs, NEW token \in Token \cup {None}
    PROVE  LET next == Sends(c, pc, token)
           IN /\ next \in Call /\ next.pc = pc /\ next.token = token /\ next.reply = None
              /\ next.tab = call[c].tab /\ next.op = call[c].op /\ next.captured = call[c].captured
              /\ next.current = call[c].current /\ next.waits = call[c].waits
              /\ next.cleanup = call[c].cleanup
<1>1. call[c] \in Call
  BY DEF Typed
<1> DEFINE next == Sends(c, pc, token)
<1>2. next = [call[c] EXCEPT !.pc = pc, !.token = token, !.reply = None]
  BY DEF Sends
<1>3. next \in Call
  BY <1>1, <1>2 DEF Call
<1>4. next.pc = pc /\ next.token = token /\ next.reply = None
  BY <1>1, <1>2 DEF Call
<1>5. /\ next.tab = call[c].tab /\ next.op = call[c].op /\ next.captured = call[c].captured
      /\ next.current = call[c].current /\ next.waits = call[c].waits
      /\ next.cleanup = call[c].cleanup
  BY <1>1, <1>2 DEF Call
<1> QED
  BY <1>3, <1>4, <1>5
-----------------------------------------------------------------------------
(* The lock. *)

\* The line is as it was.
LEMMA LockKept ==
    ASSUME Typed, Locked, NEW c \in Callers, ahead' = ahead,
           \A d \in Callers \ {c} : call'[d].pc = call[d].pc,
           InLine(c)' = InLine(c), Holds(c)' => ahead[c] = {}
    PROVE  Locked'
BY DEF Locked, Holds, InLine

\* One more awaits it.
LEMMA LockJoined ==
    ASSUME Typed, Locked, NEW c \in Callers, Joins(c), ~InLine(c), call'[c].pc = "wait",
           \A d \in Callers \ {c} : call'[d].pc = call[d].pc
    PROVE  Locked' /\ ahead' \in [Callers -> SUBSET Callers]
<1>1. ahead' = [ahead EXCEPT ![c] = {d \in Callers : InLine(d)}] /\ ahead \in [Callers -> SUBSET Callers]
  BY DEF Joins, InLine, Typed
<1>2. ahead'[c] = {d \in Callers : InLine(d)} /\ \A d \in Callers \ {c} : ahead'[d] = ahead[d]
  BY <1>1
<1>3. \A d \in Callers \ {c} : (InLine(d)' = InLine(d)) /\ (Holds(d)' = Holds(d))
  BY DEF InLine, Holds
<1>4. ~Holds(c)'
  BY DEF Holds
<1>5. \A d \in Callers : Holds(d)' => ahead'[d] = {}
  BY <1>2, <1>3, <1>4 DEF Locked
<1>6. \A d, e \in Callers : InLine(d)' /\ InLine(e)' /\ d # e => d \in ahead'[e] \/ e \in ahead'[d]
  BY <1>2, <1>3 DEF Locked
<1> QED
  BY <1>1, <1>5, <1>6 DEF Locked

\* The holder is done.
LEMMA LockReleased ==
    ASSUME Typed, Locked, NEW c \in Callers, Releases(c), call'[c].pc = "idle",
           \A d \in Callers \ {c} : call'[d].pc = call[d].pc
    PROVE  Locked' /\ ahead' \in [Callers -> SUBSET Callers]
<1>1. ahead' = [d \in Callers |-> ahead[d] \ {c}] /\ ahead \in [Callers -> SUBSET Callers]
  BY DEF Releases, Typed
<1>2. ~Holds(c)' /\ ~InLine(c)'
  BY DEF Holds, InLine
<1>3. \A d \in Callers \ {c} : (InLine(d)' = InLine(d)) /\ (Holds(d)' = Holds(d))
  BY DEF InLine, Holds
<1>4. \A d \in Callers : Holds(d)' => ahead'[d] = {}
  BY <1>1, <1>2, <1>3 DEF Locked
<1>5. \A d, e \in Callers : InLine(d)' /\ InLine(e)' /\ d # e => d \in ahead'[e] \/ e \in ahead'[d]
  BY <1>1, <1>2, <1>3 DEF Locked
<1> QED
  BY <1>1, <1>4, <1>5 DEF Locked

\* Who is at the head of the line holds the lock alone.
LEMMA HoldsAlone ==
    ASSUME Locked, NEW c \in Callers, InLine(c), ahead[c] = {}
    PROVE  \A d \in Callers \ {c} : ~Holds(d)
BY DEF Locked, Holds, InLine

-----------------------------------------------------------------------------
(* The count of the sign-outs. *)

LEMMA EndingIsFinite == \A t : IsFiniteSet(Ending(t)) /\ Cardinality(Ending(t)) \in Nat
BY FS_Subset, FS_CardinalityType, BrowserAssumption DEF Ending

LEMMA CountKept ==
    ASSUME Typed, Counted, NEW c \in Callers, ends' = ends,
           \A d \in Callers \ {c} : call'[d].op = call[d].op /\ call'[d].tab = call[d].tab,
           \/ call'[c].op = call[c].op /\ call'[c].tab = call[c].tab
           \/ call'[c].op # "end" /\ call[c].op # "end"
    PROVE  Counted'
<1>1. \A t \in Tabs : Ending(t)' = Ending(t)
  BY DEF Ending
<1> QED
  BY <1>1 DEF Counted

LEMMA CountUp ==
    ASSUME Typed, Counted, NEW c \in Callers, NEW t \in Tabs, ends' = [ends EXCEPT ![t] = @ + 1],
           \A d \in Callers \ {c} : call'[d].op = call[d].op /\ call'[d].tab = call[d].tab,
           call[c].op # "end", call'[c].op = "end", call'[c].tab = t
    PROVE  Counted' /\ ends' \in [Tabs -> Nat] /\ ends'[t] > 0
<1>1. Ending(t)' = Ending(t) \cup {c} /\ c \notin Ending(t)
  BY DEF Ending
<1>2. \A u \in Tabs \ {t} : Ending(u)' = Ending(u)
  BY DEF Ending
<1>3. Cardinality(Ending(t)') = Cardinality(Ending(t)) + 1
  BY <1>1, EndingIsFinite, FS_AddElement
<1>4. ends \in [Tabs -> Nat]
  BY DEF Typed
<1> QED
  BY <1>2, <1>3, <1>4 DEF Counted

LEMMA CountDown ==
    ASSUME Typed, Counted, NEW c \in Callers, NEW t \in Tabs, ends' = [ends EXCEPT ![t] = @ - 1],
           \A d \in Callers \ {c} : call'[d].op = call[d].op /\ call'[d].tab = call[d].tab,
           call[c].op = "end", call[c].tab = t, call'[c].op = None
    PROVE  Counted' /\ ends' \in [Tabs -> Nat] /\ ends[t] > 0
<1>1. Ending(t)' = Ending(t) \ {c} /\ c \in Ending(t)
  BY BrowserAssumption DEF Ending
<1>2. \A u \in Tabs \ {t} : Ending(u)' = Ending(u)
  BY BrowserAssumption DEF Ending
<1>3. Cardinality(Ending(t)') = Cardinality(Ending(t)) - 1
  BY <1>1, EndingIsFinite, FS_RemoveElement
<1>4. ends \in [Tabs -> Nat] /\ Cardinality(Ending(t)') \in Nat
  BY <1>1, EndingIsFinite, FS_Subset, FS_CardinalityType DEF Typed
<1> QED
  BY <1>2, <1>3, <1>4 DEF Counted

-----------------------------------------------------------------------------
(* Envelopes. *)

LEMMA EnvelopesTyped == ASSUME Typed PROVE \A e \in Envelopes : e \in Envelope
<1>1. \A c \in Callers : call[c].captured \in Envelope \cup {None}
  BY CallFields DEF Typed
<1> QED
  BY <1>1 DEF Envelopes, Typed

\* A tab adopts one of the envelopes there are, and is then level with what is
\* persisted unless it is signing out.
LEMMA Adopting ==
    ASSUME Typed, Newest, NEW t \in Tabs
    PROVE  /\ Adopted(t) \in Envelope /\ Adopted(t) \in {stored, env[t]}
           /\ ends[t] = 0 => Adopted(t) = stored
           /\ ends[t] # 0 => Adopted(t) = env[t]
           /\ Moves(t) => ends[t] = 0
<1>1. stored \in Envelope /\ env[t] \in Envelope
  BY DEF Typed
<1>2. stored.revision \in Nat /\ env[t].revision \in Nat
  BY <1>1, EnvelopeFields
<1>3. env[t].revision <= stored.revision /\ (env[t].revision = stored.revision => env[t] = stored)
  BY DEF Newest
<1>4. ends[t] = 0 => Adopted(t) = stored
  BY <1>2, <1>3 DEF Adopted
<1> QED
  BY <1>1, <1>4 DEF Adopted, Moves

LEMMA NewestAdopted ==
    ASSUME Typed, Newest, NEW t \in Tabs, stored' = stored,
           env' = env \/ env' = [env EXCEPT ![t] = Adopted(t)] \/ env' = [env EXCEPT ![t] = stored]
    PROVE  Newest' /\ env' \in [Tabs -> Envelope]
<1>1. env \in [Tabs -> Envelope] /\ stored \in Envelope /\ stored.revision \in Nat
  BY EnvelopeFields DEF Typed
<1>2. Adopted(t) \in {stored, env[t]}
  BY Adopting
<1>3. \A u \in Tabs : env'[u] \in {stored, env[u]}
  BY <1>1, <1>2
<1>4. env' \in [Tabs -> Envelope]
  BY <1>1, <1>2
<1> QED
  BY <1>1, <1>3, <1>4 DEF Newest

\* What is persisted on top of it is the newest.
LEMMA NewestPublished ==
    ASSUME Typed, Newest, NEW t \in Tabs, NEW new \in Envelope, new.revision = stored.revision + 1,
           stored' = new, env' = [env EXCEPT ![t] = new]
    PROVE  Newest' /\ env' \in [Tabs -> Envelope]
<1>1. env \in [Tabs -> Envelope] /\ stored \in Envelope /\ stored.revision \in Nat
  BY EnvelopeFields DEF Typed
<1>2. \A u \in Tabs : env[u].revision \in Nat
  BY <1>1, EnvelopeFields
<1>3. \A u \in Tabs : env[u].revision <= stored.revision
  BY DEF Newest
<1> QED
  BY <1>1, <1>2, <1>3 DEF Newest

\* The lineages stay apart if a new envelope begins one or goes on with one.
LEMMA KinGrows ==
    ASSUME Typed, Kin, NEW n, Envelopes' \subseteq Envelopes \cup {n},
           owner' = owner \/ \E m \in Members : owner' = Append(owner, m),
           lineages' \in Nat, lineages <= lineages',
           n \in Envelopes \/ /\ n \in Envelope /\ n.lineage <= lineages' /\ Begun(n.token)'
                              /\ \/ n.lineage > lineages
                                 \/ \E e \in Envelopes : e.lineage = n.lineage /\ Alike(e.token, n.token)'
    PROVE  Kin'
<1>1. owner \in Seq(Members) /\ lineages \in Nat
  BY DEF Typed
<1>2. /\ DOMAIN owner \subseteq DOMAIN owner'
      /\ \A s \in DOMAIN owner : owner'[s] = owner[s]
  BY <1>1
<1>3. \A e \in Envelopes : e \in Envelope /\ e.lineage \in Nat
  BY EnvelopesTyped, EnvelopeFields
<1>4. \A e \in Envelopes : e.lineage <= lineages' /\ Begun(e.token)'
  BY <1>1, <1>2, <1>3 DEF Kin, Begun
<1>5. \A e, f \in Envelopes : e.lineage = f.lineage => Alike(e.token, f.token)'
  BY <1>2 DEF Kin, Begun, Alike, OtherMember, Owner
<1>6. CASE n \in Envelopes
  BY <1>4, <1>5, <1>6 DEF Kin
<1>7. CASE /\ n \in Envelope /\ n.lineage <= lineages' /\ Begun(n.token)' /\ n.lineage > lineages
  <2>1. \A e \in Envelopes : e.lineage # n.lineage
    BY <1>1, <1>3, <1>7, EnvelopeFields DEF Kin
  <2>2. Alike(n.token, n.token)'
    BY DEF Alike, OtherMember
  <2>3. ASSUME NEW e \in Envelopes', NEW f \in Envelopes', e.lineage = f.lineage
        PROVE  Alike(e.token, f.token)'
    <3>1. CASE e = n
      BY <2>1, <2>2, <2>3, <3>1
    <3>2. CASE e # n
      BY <1>5, <2>1, <2>3, <3>2
    <3> QED
      BY <3>1, <3>2
  <2> QED
    BY <1>4, <1>7, <2>3 DEF Kin
<1>8. ASSUME n \in Envelope, n.lineage <= lineages', Begun(n.token)',
             NEW k \in Envelopes, k.lineage = n.lineage, Alike(k.token, n.token)'
      PROVE  Kin'
  <2>1. \A e \in Envelopes : e.lineage = n.lineage => Alike(e.token, n.token)' /\ Alike(n.token, e.token)'
    BY <1>5, <1>8 DEF Alike, OtherMember
  <2>2. Alike(n.token, n.token)'
    BY DEF Alike, OtherMember
  <2>3. ASSUME NEW e \in Envelopes', NEW f \in Envelopes', e.lineage = f.lineage
        PROVE  Alike(e.token, f.token)'
    <3>1. CASE e = n
      BY <2>1, <2>2, <2>3, <3>1
    <3>2. CASE e # n
      BY <1>5, <2>1, <2>3, <3>2
    <3> QED
      BY <3>1, <3>2
  <2> QED
    BY <1>4, <1>8, <2>3 DEF Kin
<1> QED
  BY <1>6, <1>7, <1>8
-----------------------------------------------------------------------------
(* Calls that are not the one that steps. *)

Begins == owner' = owner \/ \E m \in Members : owner' = Append(owner, m)

LEMMA BegunStays ==
    ASSUME Typed, Begins
    PROVE  /\ \A token : Begun(token) => Begun(token)'
           /\ \A a, b : Begun(a) /\ Begun(b) /\ Alike(a, b) => Alike(a, b)'
<1>1. owner \in Seq(Members)
  BY DEF Typed
<1>2. DOMAIN owner \subseteq DOMAIN owner' /\ \A s \in DOMAIN owner : owner'[s] = owner[s]
  BY <1>1 DEF Begins
<1> QED
  BY <1>2 DEF Begun, Alike, OtherMember, Owner

LEMMA CapturedIsKin ==
    ASSUME Typed, Kin, NEW c \in Callers, call[c].captured # None
    PROVE  call[c].captured \in Envelopes /\ call[c].captured \in Envelope /\ Begun(call[c].captured.token)
BY EnvelopesTyped DEF Envelopes, Kin

LEMMA Others ==
    ASSUME Typed, Kin, NEW d \in Callers, Shaped(d), Attended(d), Sent(d), Same(d), Begins,
           call[d].current /\ call'[d].current => /\ env'[call[d].tab] = env[call[d].tab]
                                                  /\ ends'[call[d].tab] = 0
    PROVE  Shaped(d)' /\ Attended(d)' /\ Sent(d)'
<1>1. Shaped(d)'
  BY DEF Same, Shaped
<1>2. Attended(d)'
  BY DEF Same, Attended
<1>3. Sent(d)'
  <2>1. Begun(call[d].token)'
    BY BegunStays DEF Same, Sent
  <2>2. ASSUME call'[d].pc \in {"data", "retry"}
        PROVE  Alike(call[d].token, call[d].captured.token)'
    <3>1. call[d].captured # None
      BY <2>2 DEF Same, Shaped
    <3>2. Begun(call[d].captured.token) /\ Begun(call[d].token) /\ Alike(call[d].token, call[d].captured.token)
      BY <2>2, <3>1, CapturedIsKin DEF Same, Sent
    <3> QED
      BY <3>2, BegunStays DEF Same, Begun, Alike, OtherMember, Owner
  <2> QED
    BY <2>1, <2>2 DEF Sent
<1> QED
  BY <1>1, <1>2, <1>3

\* What a call has captured is one of the envelopes there are.
LEMMA EnvelopesFrom ==
    ASSUME NEW c \in Callers, NEW E, Envelopes \subseteq E,
           stored' \in E, \A t \in Tabs : env'[t] \in E,
           \A d \in Callers \ {c} : call'[d].captured = call[d].captured,
           call'[c].captured # None => call'[c].captured \in E
    PROVE  Envelopes' \subseteq E
BY DEF Envelopes

-----------------------------------------------------------------------------
(* The server's steps. *)

LEMMA Served ==
    ASSUME IInv, NEW c \in Callers, call[c].pc \notin {"idle", "wait"}, call' \in [Callers -> Call],
           \A d \in Callers \ {c} : call'[d] = call[d],
           call'[c].tab = call[c].tab, call'[c].op = call[c].op, call'[c].pc = call[c].pc,
           call'[c].captured = call[c].captured, call'[c].current = call[c].current,
           UNCHANGED tabs, cookie' = cookie, ended' = ended,
           Begins, Len(owner') <= MaxSessions,
           rotation' \in [1 .. MaxSessions -> 1 .. MaxRotations], aged' = aged,
           Begun(call[c].token)',
           call[c].pc \in {"data", "retry"} => call'[c].token = call[c].token,
           call[c].pc \in {"logout", "relogout"} => call'[c].token # None,
           call[c].pc = "refresh" /\ call'[c].reply = "ok" =>
               call'[c].token # None /\ cookie # None /\ call'[c].token.session = cookie.session,
           call[c].pc = "exchange" /\ call'[c].reply = "ok" =>
               call'[c].token # None /\ call'[c].token.session \notin ended
    PROVE  IInv'
<1>1. Typed /\ Kin /\ Locked /\ Counted /\ Newest /\ Signed /\ Shaped(c) /\ Attended(c) /\ Sent(c)
  BY DEF IInv
<1>2. /\ stored' = stored /\ env' = env /\ ends' = ends /\ exchanges' = exchanges
      /\ ahead' = ahead /\ lineages' = lineages
  BY DEF tabs
<1>3. DOMAIN owner \subseteq DOMAIN owner' /\ owner' \in Seq(Members)
  <2>1. owner \in Seq(Members)
    BY <1>1 DEF Typed
  <2>2. CASE owner' = owner
    BY <2>1, <2>2
  <2>3. ASSUME NEW m \in Members, owner' = Append(owner, m)
        PROVE  DOMAIN owner \subseteq DOMAIN owner' /\ owner' \in Seq(Members)
    BY <2>1, <2>3
  <2> QED
    BY <2>2, <2>3 DEF Begins
<1>4. Typed'
  BY <1>1, <1>2, <1>3 DEF Typed
<1>5. \A d \in Callers \ {c} : Shaped(d)' /\ Attended(d)' /\ Sent(d)'
  <2> TAKE d \in Callers \ {c}
  <2>1. Shaped(d) /\ Attended(d) /\ Sent(d) /\ Same(d)
    BY DEF IInv, Same
  <2>2. call[d].current => env'[call[d].tab] = env[call[d].tab] /\ ends'[call[d].tab] = 0
    BY <1>2, <2>1 DEF Attended
  <2> QED
    BY <1>1, <2>1, <2>2, Others
<1>6. Shaped(c)' /\ Attended(c)'
  BY <1>1, <1>2 DEF Shaped, Attended
<1>7. Sent(c)'
  <2>1. ASSUME call[c].pc \in {"data", "retry"}
        PROVE  Alike(call[c].token, call[c].captured.token)'
    <3>1. call[c].captured # None
      BY <1>1, <2>1 DEF Shaped
    <3>2. /\ Begun(call[c].token) /\ Begun(call[c].captured.token)
          /\ Alike(call[c].token, call[c].captured.token)
      BY <1>1, <2>1, <3>1, CapturedIsKin DEF Sent
    <3> QED
      BY <1>1, <2>1, <3>2, BegunStays DEF Begun, Alike, OtherMember, Owner
  <2> QED
    BY <2>1 DEF Sent
<1>8. Locked'
  BY <1>1, <1>2, LockKept DEF InLine, Holds, Locked
<1>9. Counted'
  BY <1>1, <1>2, CountKept
<1>10. Newest'
  BY <1>1, <1>2 DEF Newest
<1>11. Kin'
  <2>1. Envelopes' = Envelopes
    BY <1>2 DEF Envelopes
  <2>2. stored \in Envelopes
    BY DEF Envelopes
  <2> QED
    BY <1>1, <1>2, <2>1, <2>2, KinGrows DEF Begins, Typed
<1>12. Signed'
  BY <1>1, <1>2, BegunStays DEF Signed
<1> QED
  BY <1>4, <1>5, <1>6, <1>7, <1>8, <1>9, <1>10, <1>11, <1>12 DEF IInv

\* An answer comes, with or without a new token.
LEMMA Replying ==
    ASSUME Typed, NEW c \in Callers, NEW reply \in {"ok", "401", "lost"}, Replies(c, reply)
    PROVE  /\ call' \in [Callers -> Call]
           /\ \A d \in Callers \ {c} : call'[d] = call[d]
           /\ call'[c].tab = call[c].tab /\ call'[c].op = call[c].op /\ call'[c].pc = call[c].pc
           /\ call'[c].captured = call[c].captured /\ call'[c].current = call[c].current
           /\ call'[c].cleanup = call[c].cleanup
           /\ call'[c].token = call[c].token /\ call'[c].reply = reply
<1>1. call \in [Callers -> Call] /\ call' = [call EXCEPT ![c].reply = reply]
  BY DEF Typed, Replies
<1>2. [call[c] EXCEPT !.reply = reply] \in Call
  BY <1>1 DEF Call
<1> QED
  BY <1>1, <1>2 DEF Call

LEMMA Granting ==
    ASSUME Typed, NEW c \in Callers, NEW token \in Token, Grants(c, token)
    PROVE  /\ call' \in [Callers -> Call]
           /\ \A d \in Callers \ {c} : call'[d] = call[d]
           /\ call'[c].tab = call[c].tab /\ call'[c].op = call[c].op /\ call'[c].pc = call[c].pc
           /\ call'[c].captured = call[c].captured /\ call'[c].current = call[c].current
           /\ call'[c].cleanup = call[c].cleanup
           /\ call'[c].token = token /\ call'[c].reply = "ok"
<1>1. call \in [Callers -> Call] /\ call' = [call EXCEPT ![c].reply = "ok", ![c].token = token]
  BY DEF Typed, Grants
<1>2. [call[c] EXCEPT !.reply = "ok", !.token = token] \in Call
  BY <1>1 DEF Call
<1> QED
  BY <1>1, <1>2 DEF Call

\* The token of an answer that says nothing new stays of a session begun.
LEMMA ServeSteps ==
    ASSUME IInv, NEW c \in Callers,
           ServeData(c) \/ ServeRefresh(c) \/ ServeExchange(c) \/ ServeLogout(c) \/ Lose(c)
    PROVE  IInv'
<1>1. Typed /\ Signed /\ Shaped(c) /\ Sent(c)
  BY DEF IInv
<1>2. call[c].pc \notin {"idle", "wait"}
  BY DEF ServeData, ServeRefresh, ServeExchange, ServeLogout, Lose, Unanswered
<1>3. /\ rotation \in [1 .. MaxSessions -> 1 .. MaxRotations] /\ Len(owner) <= MaxSessions
      /\ MaxSessions \in Nat /\ MaxRotations \in Nat
  BY <1>1, BrowserAssumption DEF Typed
<1>4. ASSUME NEW reply \in {"ok", "401", "lost"}, Replies(c, reply), UNCHANGED tabs,
             cookie' = cookie, ended' = ended, owner' = owner, rotation' = rotation, aged' = aged,
             reply = "ok" => call[c].pc \notin {"refresh", "exchange"}
      PROVE  IInv'
  <2>1. Begun(call[c].token)'
    BY <1>1, <1>4, Replying DEF Begun, Sent
  <2>2. Begins
    BY <1>4 DEF Begins
  <2> QED
    BY <1>1, <1>2, <1>3, <1>4, <2>1, <2>2, Replying, Served DEF Shaped
<1>5. CASE ServeData(c)
  <2>1. PICK reply \in {"ok", "401", "lost"} : Replies(c, reply)
    BY <1>5 DEF ServeData
  <2> QED
    BY <1>4, <1>5, <2>1 DEF ServeData, Unanswered, server, history
<1>6. CASE Lose(c)
  BY <1>4, <1>6 DEF Lose, server, history
<1>7. CASE ServeLogout(c)
  BY <1>4, <1>7 DEF ServeLogout, Unanswered, history
<1>8. CASE ServeRefresh(c)
  <2>1. CASE Replies(c, "401") /\ rotation' = rotation
    BY <1>4, <1>8, <2>1 DEF ServeRefresh
  <2>2. CASE /\ cookie # None /\ cookie.session \in live /\ cookie.n = rotation[cookie.session]
             /\ rotation[cookie.session] < MaxRotations
             /\ rotation' = [rotation EXCEPT ![cookie.session] = @ + 1]
             /\ Grants(c, [session |-> cookie.session, n |-> rotation[cookie.session] + 1])
    <3>1. cookie \in Token /\ cookie.session \in 1 .. MaxSessions
      BY <1>1, <2>2, TokenFields DEF Typed
    <3>2. [session |-> cookie.session, n |-> rotation[cookie.session] + 1] \in Token
      BY <1>3, <2>2, <3>1 DEF Token
    <3>3. PICK token \in Token : /\ Grants(c, token) /\ token # None
                                 /\ token.session = cookie.session
      BY <2>2, <3>2, TokenFields
    <3>4. rotation' \in [1 .. MaxSessions -> 1 .. MaxRotations]
      BY <1>3, <2>2, <3>1
    <3>5. /\ UNCHANGED tabs /\ owner' = owner /\ aged' = aged /\ cookie' = cookie /\ ended' = ended
          /\ call[c].pc = "refresh" /\ Begins
      BY <1>8 DEF ServeRefresh, Unanswered, Begins
    <3>6. Begun(call[c].token)'
      BY <1>1, <2>2, <3>3, <3>5, Granting DEF Begun, Signed
    <3> QED
      BY <1>1, <1>2, <1>3, <2>2, <3>3, <3>4, <3>5, <3>6, Granting, Served, SMTT(40)
  <2> QED
    BY <1>8, <2>1, <2>2 DEF ServeRefresh
<1>9. CASE ServeExchange(c)
  <2>1. owner \in Seq(Members) /\ ended \subseteq DOMAIN owner
    BY <1>1 DEF Typed
  <2>2. PICK m \in Members : owner' = Append(owner, m)
    BY <1>9 DEF ServeExchange
  <2>3. /\ Len(owner) < MaxSessions /\ UNCHANGED tabs /\ rotation' = rotation /\ aged' = aged
        /\ cookie' = cookie /\ ended' = ended /\ call[c].pc = "exchange"
        /\ Grants(c, [session |-> Len(owner) + 1, n |-> 1])
    BY <1>9 DEF ServeExchange, Unanswered, history
  <2>4. Len(owner) + 1 \in 1 .. MaxSessions /\ 1 \in 1 .. MaxRotations
    BY <1>3, <2>1, <2>3, BrowserAssumption
  <2>5. [session |-> Len(owner) + 1, n |-> 1] \in Token
    BY <2>4 DEF Token
  <2>6. PICK token \in Token : Grants(c, token) /\ token # None /\ token.session = Len(owner) + 1
    BY <2>3, <2>5, TokenFields
  <2>7. /\ Len(owner') <= MaxSessions /\ Len(owner) + 1 \in DOMAIN owner'
        /\ Len(owner) + 1 \notin ended
    BY <1>3, <2>1, <2>2, <2>3
  <2>8. Begins
    BY <2>2 DEF Begins
  <2>9. Begun(call[c].token)'
    BY <1>1, <2>6, <2>7, Granting DEF Begun
  <2> QED
    BY <1>1, <1>2, <1>3, <2>3, <2>6, <2>7, <2>8, <2>9, Granting, Served
<1> QED
  BY <1>5, <1>6, <1>7, <1>8, <1>9
-----------------------------------------------------------------------------
(* The cookie, and what is signed out. *)

\* What the browser keeps of an answer is of the session whose cookie it had,
\* or of a new one; and only the holder of the lock waits for such answers.
KeepsCookie(c) ==
    /\ cookie' \in Token \cup {None}
    /\ Begun(cookie)'
    /\ stored.token # None /\ cookie' # None => cookie'.session \notin ended
    /\ cookie' = cookie \/ \A d \in Callers \ {c} : ~Holds(d)

LEMMA CookieTaken ==
    ASSUME IInv, NEW c \in Callers, owner' = owner,
           cookie' = cookie \/ (Holds(c) /\ TakesCookie(c))
    PROVE  KeepsCookie(c)
<1>1. Typed /\ Signed /\ Shaped(c) /\ Sent(c) /\ Locked
  BY DEF IInv
<1>2. CASE cookie' = cookie
  BY <1>1, <1>2 DEF KeepsCookie, Signed, Begun, Typed
<1>3. CASE Holds(c) /\ TakesCookie(c)
  <2>1. \A d \in Callers \ {c} : ~Holds(d)
    BY <1>1, <1>3, HoldsAlone DEF Locked, Holds, InLine
  <2>2. CASE call[c].pc \in {"refresh", "exchange"} /\ call[c].reply = "ok"
    <3>1. cookie' = call[c].token /\ call[c].token \in Token /\ call[c].token # None
      BY <1>1, <1>3, <2>2, CallFields DEF TakesCookie, Shaped, Typed
    <3>2. Begun(cookie)'
      BY <1>1, <3>1 DEF Begun, Sent
    <3>3. stored.token # None => call[c].token.session \notin ended
      BY <1>1, <2>2 DEF Signed
    <3> QED
      BY <2>1, <3>1, <3>2, <3>3 DEF KeepsCookie
  <2>3. CASE ~(call[c].pc \in {"refresh", "exchange"} /\ call[c].reply = "ok")
    <3>1. cookie' \in {cookie, None}
      BY <1>3, <2>3 DEF TakesCookie
    <3> QED
      BY <1>1, <2>1, <3>1 DEF KeepsCookie, Signed, Begun, Typed
  <2> QED
    BY <2>2, <2>3
<1> QED
  BY <1>2, <1>3

\* Nothing is signed out, nor in again what was.
LEMMA SignedKept ==
    ASSUME IInv, NEW c \in Callers, KeepsCookie(c), ended' = ended,
           \A d \in Callers \ {c} : Same(d),
           stored'.token = stored.token \/ stored'.token = None
           \/ (stored'.token.session \notin ended /\ (cookie' # None => cookie'.session \notin ended)),
           call'[c].pc \notin {"refresh", "exchange"} \/ call'[c].reply # "ok"
    PROVE  Signed'
<1>1. Signed
  BY DEF IInv
<1>2. \A d \in Callers : call'[d].reply = "ok" =>
          /\ call'[d].pc = "refresh" => cookie' # None /\ call'[d].token.session = cookie'.session
          /\ call'[d].pc = "exchange" => call'[d].token.session \notin ended'
  BY <1>1 DEF Signed, Same, KeepsCookie, Holds
<1>3. stored'.token # None => stored'.token.session \notin ended'
  BY <1>1 DEF Signed
<1>4. stored'.token # None /\ cookie' # None => cookie'.session \notin ended'
  BY <1>1 DEF KeepsCookie
<1> QED
  BY <1>2, <1>3, <1>4 DEF Signed, KeepsCookie

-----------------------------------------------------------------------------
(* The steps in which a tab adopts. *)

\* What the server has and what is remembered stay.
Rests == UNCHANGED <<owner, rotation, aged, ended>>

LEMMA IdleIsGood ==
    ASSUME NEW c \in Callers, call'[c] = Idle
    PROVE  Shaped(c)' /\ Attended(c)' /\ Sent(c)'
BY Quiet, BrowserAssumption DEF Shaped, Attended, Sent, Begun

LEMMA Follows ==
    ASSUME IInv, NEW c \in Callers, NEW t \in Tabs, NEW next \in Call,
           Goes(c, next, t, Moves(t)), env' = [env EXCEPT ![t] = Adopted(t)],
           UNCHANGED <<stored, ends, lineages>>, Rests, KeepsCookie(c),
           exchanges' \in [Tabs -> Int], ahead' \in [Callers -> SUBSET Callers], Locked',
           \/ next.op = call[c].op /\ next.tab = call[c].tab
           \/ next.op # "end" /\ call[c].op # "end",
           next.captured \in Envelopes \cup {None},
           next.reply = None,
           Shaped(c)', Attended(c)', Sent(c)'
    PROVE  IInv'
<1>1. Typed /\ Kin /\ Locked /\ Counted /\ Newest /\ Signed
  BY DEF IInv
<1>2. Moves(t) \in BOOLEAN
  BY DEF Moves
<1>3. /\ call' \in [Callers -> Call] /\ call'[c] = next
      /\ \A d \in Callers \ {c} : Same(d) /\ (Moves(t) /\ call[d].tab = t => ~call'[d].current)
  BY <1>1, <1>2, Going
<1>4. Newest' /\ env' \in [Tabs -> Envelope]
  BY <1>1, NewestAdopted
<1>5. Typed'
  BY <1>1, <1>3, <1>4 DEF Typed, Rests, KeepsCookie
<1>6. ASSUME NEW d \in Callers \ {c}
      PROVE  Shaped(d)' /\ Attended(d)' /\ Sent(d)'
  <2>1. Shaped(d) /\ Attended(d) /\ Sent(d) /\ Same(d)
    BY <1>3 DEF IInv
  <2>2. ASSUME call[d].current, call'[d].current
        PROVE  env'[call[d].tab] = env[call[d].tab] /\ ends'[call[d].tab] = 0
    <3>1. ends[call[d].tab] = 0
      BY <2>1, <2>2 DEF Attended
    <3>2. env \in [Tabs -> Envelope]
      BY <1>1 DEF Typed
    <3>3. CASE call[d].tab = t
      BY <1>3, <2>2, <3>1, <3>2, <3>3 DEF Moves
    <3>4. CASE call[d].tab # t
      <4>1. call[d].tab \in Tabs
        BY <2>1, <2>2, <1>1, CallFields, BrowserAssumption DEF Shaped, Attended, Typed
      <4> QED
        BY <3>1, <3>2, <3>4, <4>1
    <3> QED
      BY <3>3, <3>4
  <2> QED
    BY <1>1, <2>1, <2>2, Others DEF Begins, Rests
<1>7. Counted'
  BY <1>1, <1>3, CountKept DEF Same
<1>8. Kin'
  <2>1. Envelopes' \subseteq Envelopes
    <3>1. \A u \in Tabs : env'[u] \in Envelopes
      BY <1>1, Adopting DEF Envelopes, Typed
    <3>2. stored' \in Envelopes
      BY DEF Envelopes
    <3> QED
      BY <1>3, <3>1, <3>2, EnvelopesFrom DEF Same
  <2>2. stored \in Envelopes /\ lineages \in Nat
    BY <1>1 DEF Envelopes, Typed
  <2> QED
    BY <1>1, <2>1, <2>2, KinGrows DEF Rests
<1>9. Signed'
  BY <1>3, BrowserAssumption, SignedKept DEF Rests
<1> QED
  BY <1>4, <1>5, <1>6, <1>7, <1>8, <1>9, <1>3 DEF IInv

\* A call ends in which its tab adopts.
LEMMA GivesUp ==
    ASSUME IInv, NEW c \in Callers, call[c].pc # "idle", call[c].op # "end",
           AdoptsAndGoes(c, Idle), ends' = ends, Rests, KeepsCookie(c), exchanges' \in [Tabs -> Int],
           Releases(c) \/ (call[c].pc = "data" /\ ahead' = ahead)
    PROVE  IInv'
<1>1. Typed /\ Locked /\ Shaped(c)
  BY DEF IInv
<1>2. /\ call[c].tab \in Tabs
      /\ Goes(c, Idle, call[c].tab, Moves(call[c].tab))
      /\ env' = [env EXCEPT ![call[c].tab] = Adopted(call[c].tab)]
      /\ UNCHANGED <<stored, lineages>>
  BY <1>1 DEF Shaped, AdoptsAndGoes
<1>3. call'[c] = Idle /\ \A d \in Callers \ {c} : Same(d)
  BY <1>1, <1>2, Quiet, Going DEF Moves
<1>4. Locked' /\ ahead' \in [Callers -> SUBSET Callers]
  <2>1. CASE Releases(c)
    BY <1>1, <1>3, <2>1, LockReleased, Quiet DEF Same
  <2>2. CASE call[c].pc = "data" /\ ahead' = ahead
    BY <1>1, <1>3, <2>2, LockKept, Quiet DEF Same, InLine, Holds, Typed
  <2> QED
    BY <2>1, <2>2
<1>5. Shaped(c)' /\ Attended(c)' /\ Sent(c)'
  BY <1>3, IdleIsGood
<1> QED
  BY <1>2, <1>4, <1>5, Quiet, Follows, BrowserAssumption
\* The tab t is not signing out, and what it adopts goes on in the session of
\* the envelope captured.
LEMMA NotDeparted ==
    ASSUME Typed, NEW t \in Tabs, NEW captured, ~Departed(t, captured)
    PROVE  ends[t] = 0 /\ Adopted(t).lineage = captured.lineage
BY DEF Departed, Typed

\* The generation of a call is its tab's only if the tab has what is persisted.
LEMMA CurrentIsPersisted ==
    ASSUME IInv, NEW c \in Callers, Current(c)
    PROVE  /\ call[c].current /\ call[c].tab \in Tabs /\ ends[call[c].tab] = 0
           /\ ~Moves(call[c].tab) /\ env[call[c].tab] = stored /\ Adopted(call[c].tab) = stored
           /\ call[c].op \in {"request", "complete"}
           /\ call[c].op = "request" => stored.lineage = call[c].captured.lineage
<1>1. Typed /\ Newest /\ Shaped(c) /\ Attended(c)
  BY DEF IInv
<1>2. call[c].current /\ ~Moves(call[c].tab)
  BY DEF Current
<1>3. call[c].tab \in Tabs
  BY <1>1, <1>2, BrowserAssumption DEF Shaped, Attended
<1> QED
  BY <1>1, <1>2, <1>3, Adopting DEF Attended, Moves

LEMMA RequestStep ==
    ASSUME IInv, NEW c \in Callers, NEW t \in Tabs, Request(c, t)
    PROVE  IInv'
<1> DEFINE new == [Idle EXCEPT !.tab = t, !.op = "request", !.pc = "data", !.captured = env[t],
                               !.current = TRUE, !.token = Adopted(t).token]
<1>1. Typed /\ Newest /\ Kin /\ Locked
  BY DEF IInv
<1>2. Adopted(t) \in Envelope /\ Adopted(t) \in Envelopes /\ env[t] \in Envelope /\ env[t] \in Envelopes
  BY <1>1, Adopting DEF Typed, Envelopes
<1>3. /\ new \in Call /\ new.tab = t /\ new.op = "request" /\ new.pc = "data"
      /\ new.captured = env[t] /\ new.current /\ new.token = Adopted(t).token /\ new.reply = None
  BY <1>2, EnvelopeFields DEF Idle, Call, Ops, Pcs
<1> HIDE DEF new
<1>4. PICK next \in {Idle, new} : /\ Goes(c, next, t, Moves(t))
                                  /\ next = new => ~Departed(t, env[t])
  <2>1. Goes(c, IF Departed(t, env[t]) THEN Idle ELSE new, t, Moves(t))
    BY DEF Request, new
  <2>2. Idle # new
    BY <1>3, Quiet
  <2>3. CASE Departed(t, env[t])
    <3>1. Goes(c, Idle, t, Moves(t))
      BY <2>1, <2>3
    <3> QED
      BY <2>2, <3>1
  <2>4. CASE ~Departed(t, env[t])
    <3>1. Goes(c, new, t, Moves(t))
      BY <2>1, <2>4
    <3> QED
      BY <2>4, <3>1
  <2> QED
    BY <2>3, <2>4
<1>5. /\ call[c] = Idle /\ env' = [env EXCEPT ![t] = Adopted(t)] /\ ahead' = ahead
      /\ UNCHANGED <<stored, ends, lineages>> /\ Rests /\ cookie' = cookie /\ exchanges' = exchanges
  BY DEF Request, Rests, server, history
<1>6. /\ call'[c] = next /\ \A d \in Callers \ {c} : Same(d)
      /\ next \in Call
  <2>1. next \in Call /\ Moves(t) \in BOOLEAN
    BY <1>3, Quiet DEF Moves
  <2> QED
    BY <1>1, <1>4, <2>1, GoesAs
<1>7. Locked' /\ ahead' \in [Callers -> SUBSET Callers]
  BY <1>1, <1>3, <1>4, <1>5, <1>6, Quiet, LockKept DEF Same, InLine, Holds, Typed
<1>8. Shaped(c)' /\ Attended(c)' /\ Sent(c)'
  <2>1. CASE next = Idle
    BY <1>6, <2>1, IdleIsGood
  <2>2. CASE next = new
    <3>1. ends[t] = 0 /\ Adopted(t).lineage = env[t].lineage
      BY <1>1, <1>4, <2>2, NotDeparted
    <3>2. Alike(Adopted(t).token, env[t].token) /\ Begun(Adopted(t).token)
      BY <1>1, <1>2, <3>1 DEF Kin
    <3>3. env'[t] = Adopted(t) /\ ends'[t] = 0 /\ owner' = owner
      BY <1>1, <1>5, <3>1 DEF Typed, Rests
    <3>4. Shaped(c)'
      BY <1>2, <1>3, <1>6, <2>2, EnvelopeFields, BrowserAssumption DEF Shaped
    <3>5. Attended(c)'
      BY <1>3, <1>6, <2>2, <3>1, <3>3 DEF Attended
    <3>6. Sent(c)'
      BY <1>3, <1>6, <2>2, <3>2, <3>3 DEF Sent, Begun, Alike, OtherMember, Owner
    <3> QED
      BY <3>4, <3>5, <3>6
  <2> QED
    BY <1>4, <2>1, <2>2
<1>9. next.captured \in Envelopes \cup {None} /\ next.reply = None /\ next.op # "end" /\ call[c].op # "end"
  BY <1>2, <1>3, <1>4, <1>5, Quiet, BrowserAssumption
<1>10. KeepsCookie(c)
  BY <1>5, CookieTaken DEF Rests
<1> QED
  BY <1>1, <1>4, <1>5, <1>6, <1>7, <1>8, <1>9, <1>10, Follows DEF Typed

LEMMA AnswerSteps ==
    ASSUME IInv, NEW c \in Callers,
           DropData(c) \/ AnswerData(c) \/ DropRetry(c) \/ AnswerRetry(c)
    PROVE  IInv'
<1>1. Typed /\ Shaped(c)
  BY DEF IInv
<1>2. /\ call[c].pc \in {"data", "retry"} /\ AdoptsAndGoes(c, Idle) /\ ends' = ends
      /\ exchanges' = exchanges /\ cookie' = cookie /\ Rests
      /\ Releases(c) \/ (call[c].pc = "data" /\ ahead' = ahead)
  BY DEF DropData, AnswerData, DropRetry, AnswerRetry, Rests, server, history
<1>3. KeepsCookie(c)
  BY <1>2, CookieTaken DEF Rests
<1> QED
  BY <1>1, <1>2, <1>3, GivesUp DEF Shaped, Typed

LEMMA AwaitRefreshStep ==
    ASSUME IInv, NEW c \in Callers, AwaitRefresh(c)
    PROVE  IInv'
<1> DEFINE next == [Sends(c, "wait", None) EXCEPT !.current = Current(c)]
           t == call[c].tab
<1>1. Typed /\ Newest /\ Locked /\ Shaped(c) /\ Sent(c) /\ Attended(c) /\ Kin
  BY DEF IInv
<1>2. /\ call[c].pc = "data" /\ call[c].captured.token # None /\ AdoptsAndGoes(c, next) /\ Joins(c)
      /\ ends' = ends /\ exchanges' = exchanges /\ cookie' = cookie /\ Rests
  BY DEF AwaitRefresh, Rests, server, history
<1>3. call[c].op = "request" /\ t \in Tabs /\ call[c].captured # None
  BY <1>1, <1>2 DEF Shaped
<1>4. /\ next \in Call /\ next.pc = "wait" /\ next.token = None /\ next.reply = None /\ next.tab = t
      /\ next.op = "request" /\ next.captured = call[c].captured /\ next.current = Current(c)
  <2> DEFINE s == Sends(c, "wait", None)
  <2>1. /\ s \in Call /\ s.pc = "wait" /\ s.token = None /\ s.reply = None /\ s.tab = t
        /\ s.op = "request" /\ s.captured = call[c].captured
    BY <1>1, <1>3, Sending DEF Pcs
  <2>2. Current(c) \in BOOLEAN
    BY <1>1, CallFields DEF Current, Typed
  <2> HIDE DEF s
  <2>3. next = [s EXCEPT !.current = Current(c)]
    BY DEF s
  <2> QED
    BY <2>1, <2>2, <2>3 DEF Call
<1> HIDE DEF next
<1>5. /\ Goes(c, next, t, Moves(t)) /\ env' = [env EXCEPT ![t] = Adopted(t)]
      /\ UNCHANGED <<stored, lineages>>
  BY <1>2 DEF AdoptsAndGoes
<1>6. call'[c] = next /\ \A d \in Callers \ {c} : Same(d)
  BY <1>1, <1>4, <1>5, Going DEF Moves
<1>7. Locked' /\ ahead' \in [Callers -> SUBSET Callers]
  BY <1>1, <1>2, <1>4, <1>6, LockJoined DEF Same, InLine
<1>8. Shaped(c)'
  BY <1>2, <1>3, <1>4, <1>6, BrowserAssumption DEF Shaped
<1>9. Attended(c)'
  <2>1. SUFFICES ASSUME Current(c) PROVE Attended(c)'
    BY <1>4, <1>6 DEF Attended
  <2>2. env'[t] = stored /\ ends'[t] = 0 /\ stored.lineage = call[c].captured.lineage
    BY <1>1, <1>2, <1>3, <1>5, <2>1, CurrentIsPersisted DEF Typed
  <2> QED
    BY <1>4, <1>6, <2>2 DEF Attended
<1>10. Sent(c)'
  BY <1>4, <1>6 DEF Sent, Begun
<1>11. KeepsCookie(c)
  BY <1>2, CookieTaken DEF Rests
<1>12. next.captured \in Envelopes
  BY <1>1, <1>3, <1>4, CapturedIsKin
<1> QED
  BY <1>1, <1>2, <1>3, <1>4, <1>5, <1>7, <1>8, <1>9, <1>10, <1>11, <1>12, Follows DEF Typed

\* The second attempt, with what another has refreshed.
LEMMA RetryAdoptedStep ==
    ASSUME IInv, NEW c \in Callers, call[c].op = "request", InLine(c), ahead[c] = {},
           RetryAdopted(c), ends' = ends, exchanges' = exchanges, Rests, KeepsCookie(c)
    PROVE  IInv'
<1> DEFINE t == call[c].tab
<1>1. Typed /\ Newest /\ Locked /\ Shaped(c) /\ Kin
  BY DEF IInv
<1>2. t \in Tabs
  BY <1>1 DEF Shaped, InLine
<1>3. CASE ~Retriable(c)
  BY <1>1, <1>3, GivesUp, BrowserAssumption DEF RetryAdopted, InLine, Typed
<1>4. CASE Retriable(c)
  <2> DEFINE next == [Sends(c, "retry", Adopted(t).token) EXCEPT !.captured = Adopted(t), !.current = TRUE]
  <2>1. /\ ~Departed(t, call[c].captured) /\ AdoptsAndGoes(c, next) /\ ahead' = ahead
    BY <1>4 DEF RetryAdopted, Retriable
  <2>2. Adopted(t) \in Envelope /\ Adopted(t) \in Envelopes /\ ends[t] = 0 /\ Adopted(t).token \in Token \cup {None}
    BY <1>1, <1>2, <2>1, Adopting, NotDeparted, EnvelopeFields DEF Envelopes
  <2>3. /\ next \in Call /\ next.pc = "retry" /\ next.token = Adopted(t).token /\ next.reply = None
        /\ next.tab = t /\ next.op = "request" /\ next.captured = Adopted(t) /\ next.current
    <3> DEFINE s == Sends(c, "retry", Adopted(t).token)
    <3>1. /\ s \in Call /\ s.pc = "retry" /\ s.token = Adopted(t).token /\ s.reply = None /\ s.tab = t
          /\ s.op = "request"
      BY <1>1, <2>2, Sending DEF Pcs
    <3> HIDE DEF s
    <3>2. next = [s EXCEPT !.captured = Adopted(t), !.current = TRUE]
      BY DEF s
    <3> QED
      BY <2>2, <3>1, <3>2 DEF Call
  <2> HIDE DEF next
  <2>4. /\ Goes(c, next, t, Moves(t)) /\ env' = [env EXCEPT ![t] = Adopted(t)]
        /\ UNCHANGED <<stored, lineages>>
    BY <2>1 DEF AdoptsAndGoes
  <2>5. call'[c] = next /\ \A d \in Callers \ {c} : Same(d)
    BY <1>1, <2>3, <2>4, Going DEF Moves
  <2>6. Locked' /\ ahead' \in [Callers -> SUBSET Callers]
    BY <1>1, <2>1, <2>3, <2>5, LockKept DEF Same, InLine, Holds, Typed
  <2>7. env'[t] = Adopted(t) /\ ends'[t] = 0 /\ owner' = owner /\ Begun(Adopted(t).token)
    BY <1>1, <1>2, <2>2, <2>4 DEF Typed, Rests, Kin
  <2>8. Shaped(c)'
    BY <1>2, <2>2, <2>3, <2>5, EnvelopeFields, BrowserAssumption DEF Shaped
  <2>9. Attended(c)'
    BY <2>3, <2>5, <2>7 DEF Attended
  <2>10. Sent(c)'
    BY <2>3, <2>5, <2>7 DEF Sent, Begun, Alike, OtherMember
  <2> QED
    BY <1>1, <1>2, <2>2, <2>3, <2>4, <2>6, <2>8, <2>9, <2>10, Follows DEF Typed
<1> QED
  BY <1>3, <1>4

LEMMA LockedRefreshStep ==
    ASSUME IInv, NEW c \in Callers, LockedRefresh(c)
    PROVE  IInv'
<1> DEFINE t == call[c].tab
           next == Sends(c, "refresh", None)
<1>1. Typed /\ Newest /\ Locked /\ Shaped(c) /\ Kin
  BY DEF IInv
<1>2. /\ ahead[c] = {} /\ call[c].pc = "wait" /\ call[c].op = "request" /\ InLine(c)
      /\ ends' = ends /\ exchanges' = exchanges /\ cookie' = cookie /\ Rests
  BY DEF LockedRefresh, HasLock, InLine, Rests, server, history
<1>3. KeepsCookie(c)
  BY <1>2, CookieTaken DEF Rests
<1>4. CASE AdoptsAndGoes(c, Idle) /\ Releases(c)
  BY <1>1, <1>2, <1>3, <1>4, GivesUp DEF Typed
<1>5. CASE RetryAdopted(c)
  BY <1>2, <1>3, <1>5, RetryAdoptedStep
<1>6. CASE Current(c) /\ AdoptsAndGoes(c, next) /\ ahead' = ahead
  <2>1. t \in Tabs /\ call[c].captured # None /\ call[c].captured.token # None
    BY <1>1, <1>2 DEF Shaped
  <2>2. /\ next \in Call /\ next.pc = "refresh" /\ next.token = None /\ next.reply = None /\ next.tab = t
        /\ next.op = "request" /\ next.captured = call[c].captured /\ next.current
    BY <1>1, <1>2, <1>6, Sending, CurrentIsPersisted DEF Pcs
  <2> HIDE DEF next
  <2>3. /\ Goes(c, next, t, Moves(t)) /\ env' = [env EXCEPT ![t] = Adopted(t)]
        /\ UNCHANGED <<stored, lineages>>
    BY <1>6 DEF AdoptsAndGoes
  <2>4. call'[c] = next /\ \A d \in Callers \ {c} : Same(d)
    BY <1>1, <2>2, <2>3, Going DEF Moves
  <2>5. Locked' /\ ahead' \in [Callers -> SUBSET Callers]
    BY <1>1, <1>2, <1>6, <2>2, <2>4, LockKept DEF Same, InLine, Holds, Typed
  <2>6. env'[t] = stored /\ ends'[t] = 0 /\ stored.lineage = call[c].captured.lineage
    BY <1>1, <1>2, <1>6, <2>1, <2>3, CurrentIsPersisted DEF Typed
  <2>7. Shaped(c)'
    BY <2>1, <2>2, <2>4, BrowserAssumption DEF Shaped
  <2>8. Attended(c)'
    BY <2>2, <2>4, <2>6 DEF Attended
  <2>9. Sent(c)'
    BY <2>2, <2>4 DEF Sent, Begun
  <2>10. next.captured \in Envelopes
    BY <1>1, <2>1, <2>2, CapturedIsKin
  <2> QED
    BY <1>1, <1>2, <1>3, <2>1, <2>2, <2>3, <2>5, <2>7, <2>8, <2>9, <2>10, Follows DEF Typed
<1> QED
  BY <1>4, <1>5, <1>6 DEF LockedRefresh

LEMMA LockedCompleteStep ==
    ASSUME IInv, Apart, NEW c \in Callers, LockedComplete(c)
    PROVE  IInv'
<1> DEFINE t == call[c].tab
           next == [Sends(c, "exchange", None) EXCEPT !.current = TRUE]
<1>1. Typed /\ Newest /\ Locked /\ Shaped(c) /\ Kin
  BY DEF IInv
<1>2. /\ ahead[c] = {} /\ call[c].pc = "wait" /\ call[c].op = "complete" /\ InLine(c)
      /\ ends' = ends /\ cookie' = cookie /\ Rests
  BY DEF LockedComplete, HasLock, InLine, Rests, server, history
<1>3. KeepsCookie(c) /\ t \in Tabs
  BY <1>1, <1>2, CookieTaken DEF Rests, Shaped
<1>4. exchanges' \in [Tabs -> Int]
  <2>1. exchanges \in [Tabs -> Int]
    BY <1>1 DEF Typed
  <2> QED
    BY <2>1 DEF LockedComplete
<1>5. CASE AdoptsAndGoes(c, Idle) /\ Releases(c)
  BY <1>1, <1>2, <1>3, <1>4, <1>5, GivesUp
<1>6. CASE Current(c) /\ AdoptsAndGoes(c, next) /\ ahead' = ahead
  <2>1. /\ next \in Call /\ next.pc = "exchange" /\ next.token = None /\ next.reply = None /\ next.tab = t
        /\ next.op = "complete" /\ next.captured = call[c].captured /\ next.current
    <3> DEFINE s == Sends(c, "exchange", None)
    <3>1. /\ s \in Call /\ s.pc = "exchange" /\ s.token = None /\ s.reply = None /\ s.tab = t
          /\ s.op = "complete" /\ s.captured = call[c].captured
      BY <1>1, <1>2, Sending DEF Pcs
    <3> HIDE DEF s
    <3>2. next = [s EXCEPT !.current = TRUE]
      BY DEF s
    <3> QED
      BY <3>1, <3>2 DEF Call
  <2> HIDE DEF next
  <2>3. /\ Goes(c, next, t, Moves(t)) /\ env' = [env EXCEPT ![t] = Adopted(t)]
        /\ UNCHANGED <<stored, lineages>>
    BY <1>6 DEF AdoptsAndGoes
  <2>4. call'[c] = next /\ \A d \in Callers \ {c} : Same(d)
    BY <1>1, <2>1, <2>3, Going DEF Moves
  <2>5. Locked' /\ ahead' \in [Callers -> SUBSET Callers]
    BY <1>1, <1>2, <1>6, <2>1, <2>4, LockKept DEF Same, InLine, Holds, Typed
  <2>6. ends'[t] = 0
    BY <1>2, <1>6, CurrentIsPersisted
  <2>7. Shaped(c)' /\ Attended(c)' /\ Sent(c)'
    BY <1>3, <2>1, <2>4, <2>6, BrowserAssumption DEF Shaped, Attended, Sent, Begun
  <2>8. next.captured \in Envelopes \cup {None}
    BY <1>1, <2>1, CapturedIsKin
  <2> QED
    BY <1>2, <1>3, <1>4, <2>1, <2>3, <2>5, <2>7, <2>8, Follows
<1> QED
  BY <1>5, <1>6 DEF LockedComplete, Apart
-----------------------------------------------------------------------------
(* The steps that persist an envelope. *)

LEMMA Published ==
    ASSUME IInv, NEW c \in Callers, call[c].tab \in Tabs, NEW next \in Call, NEW lineage \in Nat,
           NEW token \in Token \cup {None}, NEW base, base = stored.revision,
           Publishes(c, base, lineage, token, next),
           Begun(token),
           lineage > lineages \/ \E e \in Envelopes : e.lineage = lineage /\ Alike(e.token, token),
           UNCHANGED <<owner, rotation, aged>>, ended' \subseteq DOMAIN owner,
           cookie' \in Token \cup {None}, exchanges' \in [Tabs -> Int],
           ends' \in [Tabs -> Nat], \A u \in Tabs \ {call[c].tab} : ends'[u] = ends[u],
           Counted', ahead' \in [Callers -> SUBSET Callers], Locked', Signed',
           next.captured \in Envelopes \cup {None},
           Shaped(c)', Attended(c)', Sent(c)'
    PROVE  IInv'
<1> DEFINE t == call[c].tab
<1>1. Typed /\ Kin /\ Locked /\ Counted /\ Newest /\ Signed
  BY DEF IInv
<1>2. PICK new : /\ new = [revision |-> stored.revision + 1, lineage |-> lineage, token |-> token]
                 /\ stored.revision < MaxRevision /\ stored' = new /\ env' = [env EXCEPT ![t] = new]
                 /\ lineages' = IF lineage > lineages THEN lineage ELSE lineages
                 /\ Goes(c, next, t, TRUE)
  BY DEF Publishes
<1>3. /\ new \in Envelope /\ new.revision = stored.revision + 1 /\ new.lineage = lineage
      /\ new.token = token
  <2>1. stored.revision + 1 \in 1 .. MaxRevision
    BY <1>1, <1>2, EnvelopeFields, BrowserAssumption DEF Typed
  <2> QED
    BY <1>2, <2>1 DEF Envelope
<1>4. /\ call' \in [Callers -> Call] /\ call'[c] = next
      /\ \A d \in Callers \ {c} : Same(d) /\ (call[d].tab = t => ~call'[d].current)
  BY <1>1, <1>2, Going
<1>5. Newest' /\ env' \in [Tabs -> Envelope]
  BY <1>1, <1>2, <1>3, NewestPublished
<1>6. lineages \in Nat /\ lineages' \in Nat /\ lineages <= lineages' /\ lineage <= lineages'
  BY <1>1, <1>2 DEF Typed
<1>7. Typed'
  BY <1>1, <1>2, <1>3, <1>4, <1>5, <1>6 DEF Typed
<1>8. ASSUME NEW d \in Callers \ {c}
      PROVE  Shaped(d)' /\ Attended(d)' /\ Sent(d)'
  <2>1. Shaped(d) /\ Attended(d) /\ Sent(d) /\ Same(d)
    BY <1>4 DEF IInv
  <2>2. ASSUME call[d].current, call'[d].current
        PROVE  env'[call[d].tab] = env[call[d].tab] /\ ends'[call[d].tab] = 0
    <3>1. call[d].tab \in Tabs /\ call[d].tab # t /\ ends[call[d].tab] = 0
      BY <1>4, <2>1, <2>2, BrowserAssumption DEF Shaped, Attended
    <3>2. env \in [Tabs -> Envelope]
      BY <1>1 DEF Typed
    <3> QED
      BY <1>2, <3>1, <3>2
  <2> QED
    BY <1>1, <2>1, <2>2, Others DEF Begins
<1>9. Kin'
  <2>1. Envelopes' \subseteq Envelopes \cup {new}
    <3>1. \A u \in Tabs : env'[u] \in Envelopes \cup {new}
      BY <1>1, <1>2 DEF Envelopes, Typed
    <3>2. stored' \in Envelopes \cup {new} /\ Envelopes \subseteq Envelopes \cup {new}
      BY <1>2
    <3>3. \A d \in Callers \ {c} : call'[d].captured = call[d].captured
      BY <1>4 DEF Same
    <3>4. call'[c].captured # None => call'[c].captured \in Envelopes \cup {new}
      BY <1>4
    <3> QED
      BY <3>1, <3>2, <3>3, <3>4, EnvelopesFrom
  <2>2. Begun(new.token)'
    BY <1>3 DEF Begun
  <2>3. new.lineage > lineages
        \/ \E e \in Envelopes : e.lineage = new.lineage /\ Alike(e.token, new.token)'
    BY <1>3 DEF Alike, OtherMember, Owner
  <2> QED
    BY <1>1, <1>3, <1>6, <2>1, <2>2, <2>3, KinGrows
<1> QED
  BY <1>4, <1>5, <1>7, <1>8, <1>9 DEF IInv

\* A tombstone, with which the call ends.
LEMMA TombstoneStep ==
    ASSUME IInv, NEW c \in Callers, InLine(c), Current(c), Tombstones(c), Releases(c),
           ends' = ends, exchanges' = exchanges, Rests, KeepsCookie(c)
    PROVE  IInv'
<1> DEFINE t == call[c].tab
<1>1. Typed /\ Locked /\ Counted
  BY DEF IInv
<1>2. t \in Tabs /\ Adopted(t) = stored /\ call[c].op # "end"
  BY CurrentIsPersisted
<1>3. Publishes(c, Adopted(t).revision, NewLineage, None, Idle) /\ NewLineage \in Nat /\ NewLineage > lineages
  BY <1>1 DEF Tombstones, Typed, NewLineage
<1>4. Goes(c, Idle, t, TRUE) /\ stored'.token = None
  BY <1>3 DEF Publishes
<1>5. call'[c] = Idle /\ \A d \in Callers \ {c} : Same(d)
  BY <1>1, <1>4, Quiet, Going
<1>6. Locked' /\ ahead' \in [Callers -> SUBSET Callers]
  BY <1>1, <1>5, LockReleased, Quiet DEF Same
<1>7. Counted'
  BY <1>1, <1>2, <1>5, CountKept, Quiet, BrowserAssumption DEF Same
<1>8. Signed'
  BY <1>4, <1>5, SignedKept, Quiet DEF Rests
<1>9. Shaped(c)' /\ Attended(c)' /\ Sent(c)'
  BY <1>5, IdleIsGood
<1>10. Begun(None)
  BY DEF Begun
<1> QED
  BY <1>1, <1>2, <1>3, <1>6, <1>7, <1>8, <1>9, <1>10, Quiet, Published DEF Rests, KeepsCookie, Typed

LEMMA ExpireRetryStep ==
    ASSUME IInv, NEW c \in Callers, ExpireRetry(c)
    PROVE  IInv'
<1>1. /\ InLine(c) /\ Current(c) /\ Tombstones(c) /\ Releases(c) /\ ends' = ends
      /\ exchanges' = exchanges /\ cookie' = cookie /\ Rests
  BY DEF ExpireRetry, InLine, Rests, server, history
<1>2. KeepsCookie(c)
  BY <1>1, CookieTaken DEF Rests
<1> QED
  BY <1>1, <1>2, TombstoneStep

\* What a refresh brings goes on with the session of the call.
LEMMA RefreshedIsKin ==
    ASSUME IInv, NEW c \in Callers, call[c].op = "request", call[c].pc = "refresh",
           call[c].reply = "ok", ~OtherMember(call[c].captured.token, call[c].token)
    PROVE  /\ call[c].captured \in Envelopes /\ call[c].captured \in Envelope
           /\ call[c].token \in Token /\ call[c].token # None /\ Begun(call[c].token)
           /\ Alike(call[c].captured.token, call[c].token)
           /\ Alike(call[c].token, call[c].captured.token)
<1>1. Typed /\ Kin /\ Shaped(c) /\ Sent(c)
  BY DEF IInv
<1>2. call[c].captured # None /\ call[c].captured.token # None /\ call[c].token # None
  BY <1>1 DEF Shaped
<1> QED
  BY <1>1, <1>2, CapturedIsKin, CallFields DEF Typed, Sent, Alike, OtherMember

\* A session persisted that is signed out of the lineage of the call.
LEMMA RefreshedStep ==
    ASSUME IInv, NEW c \in Callers, call[c].op = "request", call[c].pc = "refresh",
           call[c].reply = "ok", Current(c), ~OtherMember(call[c].captured.token, call[c].token),
           NEW next \in {Idle, [Sends(c, "retry", call[c].token) EXCEPT !.current = TRUE]},
           Publishes(c, env[call[c].tab].revision, call[c].captured.lineage, call[c].token, next),
           IF next = Idle THEN Releases(c) ELSE ahead' = ahead,
           ends' = ends, exchanges' = exchanges, Rests, KeepsCookie(c), TakesCookie(c)
    PROVE  IInv'
<1> DEFINE t == call[c].tab
           retry == [Sends(c, "retry", call[c].token) EXCEPT !.current = TRUE]
           token == call[c].token
           lineage == call[c].captured.lineage
<1>1. Typed /\ Locked /\ Counted /\ Kin /\ Shaped(c) /\ Signed
  BY DEF IInv
<1>2. t \in Tabs /\ env[t] = stored /\ ends[t] = 0 /\ stored.lineage = lineage
  BY CurrentIsPersisted
<1>3. /\ call[c].captured \in Envelopes /\ call[c].captured \in Envelope /\ token \in Token
      /\ token # None /\ Begun(token) /\ Alike(call[c].captured.token, token)
      /\ Alike(token, call[c].captured.token)
  BY RefreshedIsKin
<1>4. lineage \in Nat
  BY <1>3, EnvelopeFields
<1>5. /\ retry \in Call /\ retry.pc = "retry" /\ retry.token = token /\ retry.reply = None
      /\ retry.tab = t /\ retry.op = "request" /\ retry.captured = call[c].captured
  <2> DEFINE s == Sends(c, "retry", token)
  <2>1. /\ s \in Call /\ s.pc = "retry" /\ s.token = token /\ s.reply = None /\ s.tab = t
        /\ s.op = "request" /\ s.captured = call[c].captured
    BY <1>1, <1>3, Sending DEF Pcs
  <2> HIDE DEF s
  <2>2. retry = [s EXCEPT !.current = TRUE]
    BY DEF s
  <2> QED
    BY <2>1, <2>2 DEF Call
<1>6. next \in {Idle, retry}
  OBVIOUS
<1> HIDE DEF retry
<1>7. Goes(c, next, t, TRUE) /\ next \in Call
  BY <1>5, <1>6, Quiet DEF Publishes
<1>8. call'[c] = next /\ \A d \in Callers \ {c} : Same(d)
  BY <1>1, <1>7, Going
<1>9. stored'.token = token /\ stored'.lineage = lineage /\ env'[t] = stored'
  BY <1>1, <1>2 DEF Publishes, Typed
<1>10. Locked' /\ ahead' \in [Callers -> SUBSET Callers]
  <2>1. CASE next = Idle
    BY <1>1, <1>8, <2>1, LockReleased, Quiet DEF Same
  <2>2. CASE next # Idle
    <3>1. ahead' = ahead /\ ahead[c] = {} /\ InLine(c) /\ InLine(c)'
      BY <1>1, <1>5, <1>6, <1>8, <2>2 DEF InLine, Holds, Locked
    <3>2. \A d \in Callers \ {c} : call'[d].pc = call[d].pc
      BY <1>8 DEF Same
    <3>3. Locked'
      BY <1>1, <3>1, <3>2, LockKept
    <3> QED
      BY <1>1, <3>1, <3>3 DEF Typed
  <2> QED
    BY <2>1, <2>2
<1>11. Counted'
  BY <1>1, <1>5, <1>6, <1>8, CountKept, Quiet, BrowserAssumption DEF Same
<1>12. stored.token # None
  <2>1. stored \in Envelopes
    BY DEF Envelopes
  <2>2. Alike(stored.token, call[c].captured.token)
    BY <1>1, <1>2, <1>3, <2>1 DEF Kin
  <2> QED
    BY <1>1, <2>2 DEF Alike, Shaped
<1>13. Signed'
  <2>1. cookie # None /\ token.session = cookie.session
    BY <1>1 DEF Signed
  <2>2. token.session \notin ended
    BY <1>1, <1>12, <2>1 DEF Signed
  <2>3. cookie' = token
    BY DEF TakesCookie
  <2>4. call'[c].pc \notin {"refresh", "exchange"}
    BY <1>5, <1>6, <1>8, Quiet
  <2> QED
    BY <1>8, <1>9, <2>2, <2>3, <2>4, SignedKept DEF Rests
<1>14. Shaped(c)' /\ Attended(c)' /\ Sent(c)'
  <2>1. CASE next = Idle
    BY <1>8, <2>1, IdleIsGood
  <2>2. CASE next = retry
    <3>1. Shaped(c)'
      BY <1>2, <1>3, <1>5, <1>8, <2>2, EnvelopeFields, BrowserAssumption DEF Shaped
    <3>2. Attended(c)'
      BY <1>2, <1>5, <1>8, <1>9, <2>2 DEF Attended
    <3>3. Sent(c)'
      BY <1>3, <1>5, <1>8, <2>2 DEF Sent, Begun, Alike, OtherMember, Owner, Rests
    <3> QED
      BY <3>1, <3>2, <3>3
  <2> QED
    BY <1>6, <2>1, <2>2
<1>15. next.captured \in Envelopes \cup {None}
  BY <1>3, <1>5, <1>6, Quiet
<1>16. env[t].revision = stored.revision
  BY <1>2
<1> HIDE DEF t, token, lineage
<1>17. /\ Publishes(c, env[t].revision, lineage, token, next)
       /\ \E e \in Envelopes : e.lineage = lineage /\ Alike(e.token, token)
  BY <1>3 DEF t, token, lineage
<1> QED
  BY <1>1, <1>2, <1>3, <1>4, <1>7, <1>10, <1>11, <1>13, <1>14, <1>15, <1>16, <1>17, Published
     DEF Rests, KeepsCookie, Typed, t

LEMMA ReceiveRefreshStep ==
    ASSUME IInv, NEW c \in Callers, ReceiveRefresh(c)
    PROVE  IInv'
<1>1. Typed /\ Locked
  BY DEF IInv
<1>2. /\ call[c].op = "request" /\ call[c].pc = "refresh" /\ TakesCookie(c) /\ InLine(c) /\ Holds(c)
      /\ ends' = ends /\ exchanges' = exchanges /\ Rests
  BY DEF ReceiveRefresh, InLine, Holds, Rests, server, history
<1>3. KeepsCookie(c) /\ ahead[c] = {}
  BY <1>1, <1>2, CookieTaken DEF Rests, Locked
<1>4. CASE RetryAdopted(c)
  BY <1>2, <1>3, <1>4, RetryAdoptedStep
<1>5. CASE AdoptsAndGoes(c, Idle) /\ Releases(c)
  BY <1>1, <1>2, <1>3, <1>5, GivesUp DEF Typed
<1>6. CASE Current(c) /\ Tombstones(c) /\ Releases(c)
  BY <1>2, <1>3, <1>6, TombstoneStep
<1>7. ASSUME Current(c), call[c].reply = "ok", ~OtherMember(call[c].captured.token, call[c].token),
             NEW next \in {Idle, [Sends(c, "retry", call[c].token) EXCEPT !.current = TRUE]},
             Publishes(c, env[call[c].tab].revision, call[c].captured.lineage, call[c].token, next),
             IF next = Idle THEN Releases(c) ELSE ahead' = ahead
      PROVE  IInv'
  BY <1>2, <1>3, <1>7, RefreshedStep
<1>8. [Sends(c, "retry", call[c].token) EXCEPT !.current = TRUE] # Idle
  BY <1>1, <1>2, Quiet DEF Typed, Call, Sends
<1> QED
  BY <1>4, <1>5, <1>6, <1>7, <1>8 DEF ReceiveRefresh

LEMMA ReceiveExchangeStep ==
    ASSUME IInv, NEW c \in Callers, ReceiveExchange(c)
    PROVE  IInv'
<1> DEFINE t == call[c].tab
           token == call[c].token
<1>1. Typed /\ Locked /\ Counted /\ Shaped(c) /\ Sent(c) /\ Signed
  BY DEF IInv
<1>2. /\ call[c].pc = "exchange" /\ call[c].op = "complete" /\ TakesCookie(c) /\ InLine(c) /\ Holds(c)
      /\ ends' = ends /\ Rests /\ Releases(c)
  BY <1>1 DEF ReceiveExchange, InLine, Holds, Rests, server, history, Shaped
<1>3. KeepsCookie(c)
  BY <1>2, CookieTaken DEF Rests
<1>4. exchanges' \in [Tabs -> Int]
  <2>1. exchanges \in [Tabs -> Int] /\ exchanges' = [exchanges EXCEPT ![t] = @ - 1]
    BY <1>1 DEF Typed, ReceiveExchange
  <2>2. t \in Tabs
    BY <1>1, <1>2 DEF Shaped
  <2> QED
    BY <2>1, <2>2
<1>5. CASE AdoptsAndGoes(c, Idle)
  BY <1>2, <1>3, <1>4, <1>5, GivesUp
<1>6. CASE /\ Current(c) /\ call[c].reply = "ok"
           /\ Publishes(c, env[t].revision, NewLineage, token, Idle)
  <2>1. t \in Tabs /\ env[t] = stored
    BY <1>6, CurrentIsPersisted
  <2>2. /\ Goes(c, Idle, t, TRUE) /\ stored'.token = token /\ NewLineage \in Nat /\ NewLineage > lineages
    <3>1. lineages \in Nat
      BY <1>1 DEF Typed
    <3>2. NewLineage \in Nat /\ NewLineage > lineages
      BY <3>1 DEF NewLineage
    <3> QED
      BY <1>6, <3>2 DEF Publishes
  <2>3. call'[c] = Idle /\ \A d \in Callers \ {c} : Same(d)
    BY <1>1, <2>2, Quiet, Going
  <2>4. Locked' /\ ahead' \in [Callers -> SUBSET Callers]
    BY <1>1, <1>2, <2>3, LockReleased, Quiet DEF Same
  <2>5. Counted'
    BY <1>1, <1>2, <2>3, CountKept, Quiet, BrowserAssumption DEF Same
  <2>6. token \in Token /\ token # None /\ Begun(token) /\ token.session \notin ended
    BY <1>1, <1>2, <1>6, CallFields DEF Typed, Shaped, Sent, Signed
  <2>7. cookie' = token
    BY <1>2, <1>6 DEF TakesCookie
  <2>8. Signed'
    BY <1>2, <1>3, <2>2, <2>3, <2>6, <2>7, SignedKept, Quiet DEF Rests
  <2>9. Shaped(c)' /\ Attended(c)' /\ Sent(c)'
    BY <2>3, IdleIsGood
  <2> HIDE DEF token
  <2>10. Publishes(c, env[t].revision, NewLineage, token, Idle)
    BY <1>6 DEF token
  <2> QED
    BY <1>1, <1>2, <1>3, <1>4, <2>1, <2>2, <2>4, <2>5, <2>6, <2>8, <2>9, <2>10, Quiet, Published
       DEF Rests, KeepsCookie, Typed
<1> QED
  BY <1>5, <1>6 DEF ReceiveExchange
-----------------------------------------------------------------------------
(* The steps that begin a call, and those of a sign-out. *)

\* At most one tab adopts what is persisted.
MayAdopt == env' = env \/ \E u \in Tabs : env' = [env EXCEPT ![u] = Adopted(u)]
                                          \/ env' = [env EXCEPT ![u] = stored]

LEMMA GoesOn ==
    ASSUME IInv, NEW c \in Callers, NEW t, NEW next \in Call, NEW moved \in BOOLEAN,
           Goes(c, next, t, moved), UNCHANGED <<stored, lineages>>,
           MayAdopt, Rests, KeepsCookie(c), exchanges' = exchanges,
           ends' \in [Tabs -> Nat], Counted', ahead' \in [Callers -> SUBSET Callers], Locked',
           \A d \in Callers \ {c} : call[d].current /\ call'[d].current =>
               env'[call[d].tab] = env[call[d].tab] /\ ends'[call[d].tab] = ends[call[d].tab],
           next.captured \in Envelopes \cup {None}, next.reply = None,
           Shaped(c)', Attended(c)', Sent(c)'
    PROVE  IInv'
<1>1. Typed /\ Kin /\ Locked /\ Counted /\ Newest /\ Signed
  BY DEF IInv
<1>2. call' \in [Callers -> Call] /\ call'[c] = next /\ \A d \in Callers \ {c} : Same(d)
  BY <1>1, Going
<1>3. Newest' /\ env' \in [Tabs -> Envelope]
  <2>1. CASE env' = env
    BY <1>1, <2>1 DEF Newest, Typed
  <2>2. CASE env' # env
    BY <1>1, <2>2, NewestAdopted DEF MayAdopt
  <2> QED
    BY <2>1, <2>2
<1>4. Typed'
  BY <1>1, <1>2, <1>3 DEF Typed, Rests, KeepsCookie
<1>5. ASSUME NEW d \in Callers \ {c}
      PROVE  Shaped(d)' /\ Attended(d)' /\ Sent(d)'
  <2>1. Shaped(d) /\ Attended(d) /\ Sent(d) /\ Same(d)
    BY <1>2 DEF IInv
  <2>2. call[d].current /\ call'[d].current =>
            env'[call[d].tab] = env[call[d].tab] /\ ends'[call[d].tab] = 0
    BY <2>1 DEF Attended
  <2> QED
    BY <1>1, <2>1, <2>2, Others DEF Begins, Rests
<1>6. Kin'
  <2>1. \A u \in Tabs : env'[u] \in Envelopes
    BY <1>1, Adopting DEF Envelopes, Typed, MayAdopt
  <2>2. stored' \in Envelopes
    BY DEF Envelopes
  <2>3. Envelopes' \subseteq Envelopes
    BY <1>2, <2>1, <2>2, EnvelopesFrom DEF Same
  <2>4. lineages \in Nat
    BY <1>1 DEF Typed
  <2> QED
    BY <1>1, <2>2, <2>3, <2>4, KinGrows DEF Rests
<1>7. Signed'
  BY <1>2, BrowserAssumption, SignedKept DEF Rests
<1> QED
  BY <1>2, <1>3, <1>4, <1>5, <1>6, <1>7 DEF IInv

LEMMA CompleteStep ==
    ASSUME IInv, NEW c \in Callers, NEW t \in Tabs, Complete(c, t), Apart'
    PROVE  IInv'
<1> DEFINE next == [Idle EXCEPT !.tab = t, !.op = "complete", !.pc = "wait", !.current = TRUE,
                                !.waits = ends[t] > 0]
<1>1. Typed /\ Locked /\ Counted
  BY DEF IInv
<1>2. /\ call[c] = Idle /\ Goes(c, next, t, FALSE) /\ Joins(c)
      /\ UNCHANGED <<stored, env, ends, exchanges, lineages, cookie>> /\ Rests
  BY DEF Complete, Rests, server, history
<1>3. ends[t] \in Nat /\ (ends[t] > 0) \in BOOLEAN
  BY <1>1 DEF Typed
<1>4. /\ next \in Call /\ next.tab = t /\ next.op = "complete" /\ next.pc = "wait" /\ next.current
      /\ (next.waits <=> ends[t] > 0) /\ next.captured = None /\ next.token = None /\ next.reply = None
  BY <1>3 DEF Idle, Call, Ops, Pcs
<1> HIDE DEF next
<1>5. call'[c] = next /\ \A d \in Callers \ {c} : Same(d)
  BY <1>1, <1>2, <1>4, Going
<1>6. Locked' /\ ahead' \in [Callers -> SUBSET Callers]
  BY <1>1, <1>2, <1>4, <1>5, LockJoined, Quiet DEF Same, InLine
<1>7. Counted'
  BY <1>1, <1>2, <1>4, <1>5, CountKept, Quiet, BrowserAssumption DEF Same
<1>8. ends[t] = 0
  <2>1. ~call'[c].waits
    BY DEF Apart
  <2>2. ~next.waits
    BY <1>5, <2>1
  <2> QED
    BY <1>3, <1>4, <2>2
<1>9. Shaped(c)' /\ Attended(c)' /\ Sent(c)'
  BY <1>2, <1>4, <1>5, <1>8, BrowserAssumption DEF Shaped, Attended, Sent, Begun
<1>10. KeepsCookie(c)
  BY <1>2, CookieTaken DEF Rests
<1> QED
  BY <1>1, <1>2, <1>4, <1>6, <1>7, <1>9, <1>10, GoesOn DEF Typed, MayAdopt

LEMMA EndStep ==
    ASSUME IInv, NEW c \in Callers, NEW t \in Tabs, End(c, t)
    PROVE  IInv'
<1> DEFINE next == [Idle EXCEPT !.tab = t, !.op = "end", !.pc = "wait", !.captured = Adopted(t),
                                !.cleanup = exchanges[t] > 0]
<1>1. Typed /\ Locked /\ Counted /\ Newest
  BY DEF IInv
<1>2. /\ call[c] = Idle /\ Goes(c, next, t, TRUE) /\ Joins(c) /\ env' = [env EXCEPT ![t] = Adopted(t)]
      /\ ends' = [ends EXCEPT ![t] = @ + 1] /\ UNCHANGED <<stored, exchanges, lineages, cookie>> /\ Rests
  BY DEF End, Rests, server, history
<1>3. Adopted(t) \in Envelope /\ Adopted(t) \in Envelopes
  BY <1>1, Adopting DEF Envelopes
<1>4. /\ next \in Call /\ next.tab = t /\ next.op = "end" /\ next.pc = "wait" /\ ~next.current
      /\ next.captured = Adopted(t) /\ next.token = None /\ next.reply = None
  <2>1. (exchanges[t] > 0) \in BOOLEAN
    BY <1>1 DEF Typed
  <2> QED
    BY <1>3, <2>1 DEF Idle, Call, Ops, Pcs
<1> HIDE DEF next
<1>5. /\ call'[c] = next
      /\ \A d \in Callers \ {c} : Same(d) /\ (call[d].tab = t => ~call'[d].current)
  BY <1>1, <1>2, <1>4, GoesAs
<1>6. Locked' /\ ahead' \in [Callers -> SUBSET Callers]
  BY <1>1, <1>2, <1>4, <1>5, LockJoined, Quiet DEF Same, InLine
<1>7. Counted' /\ ends' \in [Tabs -> Nat]
  BY <1>1, <1>2, <1>4, <1>5, CountUp, Quiet, BrowserAssumption DEF Same
<1>8. Shaped(c)' /\ Attended(c)' /\ Sent(c)'
  BY <1>3, <1>4, <1>5, EnvelopeFields, BrowserAssumption DEF Shaped, Attended, Sent, Begun
<1>9. KeepsCookie(c)
  BY <1>2, CookieTaken DEF Rests
<1>10. \A d \in Callers \ {c} : call[d].current /\ call'[d].current =>
           env'[call[d].tab] = env[call[d].tab] /\ ends'[call[d].tab] = ends[call[d].tab]
  BY <1>2, <1>5, <1>1 DEF Typed
<1> QED
  BY <1>2, <1>3, <1>4, <1>6, <1>7, <1>8, <1>9, <1>10, GoesOn DEF MayAdopt

\* While a tab signs out, none of its calls is of its generation.
LEMMA NoneAttends ==
    ASSUME IInv, NEW t \in Tabs, ends[t] > 0
    PROVE  \A d \in Callers : call[d].current => call[d].tab # t
<1>1. \A d \in Callers : Attended(d)
  BY DEF IInv
<1> QED
  BY <1>1 DEF Attended

LEMMA SettlesStep ==
    ASSUME IInv, NEW c \in Callers, call[c].op = "end", Settles(c),
           UNCHANGED <<stored, lineages, exchanges>>, Rests, KeepsCookie(c)
    PROVE  IInv'
<1> DEFINE t == call[c].tab
           adopts == ends[t] = 1 /\ stored.revision > env[t].revision
<1>1. Typed /\ Locked /\ Counted /\ Shaped(c)
  BY DEF IInv
<1>2. t \in Tabs
  BY <1>1, BrowserAssumption DEF Shaped
<1>3. /\ Releases(c) /\ ends' = [ends EXCEPT ![t] = @ - 1]
      /\ env' = [env EXCEPT ![t] = IF adopts THEN stored ELSE @] /\ Goes(c, Idle, t, adopts)
  BY DEF Settles
<1>4. adopts \in BOOLEAN
  OBVIOUS
<1>5. env \in [Tabs -> Envelope]
  BY <1>1 DEF Typed
<1>6. env' = env \/ env' = [env EXCEPT ![t] = stored]
  BY <1>2, <1>3, <1>5
<1> HIDE DEF adopts
<1>7. call'[c] = Idle /\ \A d \in Callers \ {c} : Same(d)
  BY <1>1, <1>3, <1>4, Quiet, Going
<1>8. Locked' /\ ahead' \in [Callers -> SUBSET Callers]
  BY <1>1, <1>3, <1>7, LockReleased, Quiet DEF Same
<1>9. Counted' /\ ends' \in [Tabs -> Nat] /\ ends[t] > 0
  <2>1. call'[c].op = None /\ \A d \in Callers \ {c} : call'[d].op = call[d].op /\ call'[d].tab = call[d].tab
    BY <1>7, Quiet DEF Same
  <2> QED
    BY <1>1, <1>2, <1>3, <2>1, CountDown
<1>10. \A d \in Callers \ {c} : call[d].current => call[d].tab # t
  BY <1>2, <1>9, NoneAttends
<1>11. \A d \in Callers \ {c} : call[d].current /\ call'[d].current =>
           env'[call[d].tab] = env[call[d].tab] /\ ends'[call[d].tab] = ends[call[d].tab]
  <2> TAKE d \in Callers \ {c}
  <2>1. SUFFICES ASSUME call[d].current
                 PROVE  env'[call[d].tab] = env[call[d].tab] /\ ends'[call[d].tab] = ends[call[d].tab]
    OBVIOUS
  <2>2. call[d].tab # t /\ ends \in [Tabs -> Nat] /\ call[d].tab \in Tabs
    BY <1>1, <1>10, <2>1, BrowserAssumption DEF Typed, IInv, Shaped, Attended
  <2> QED
    BY <1>3, <1>5, <1>6, <2>2
<1>12. Shaped(c)' /\ Attended(c)' /\ Sent(c)'
  BY <1>7, IdleIsGood
<1>13. MayAdopt
  BY <1>2, <1>6 DEF MayAdopt
<1>14. Goes(c, Idle, t, adopts)
  BY <1>3
<1>15. /\ Idle \in Call /\ Idle.captured \in Envelopes \cup {None} /\ Idle.reply = None
       /\ exchanges' = exchanges /\ UNCHANGED <<stored, lineages>>
  BY Quiet
<1> HIDE DEF t
<1> QED
  BY <1>4, <1>8, <1>9, <1>11, <1>12, <1>13, <1>14, <1>15, GoesOn

\* A sign-out persists its tombstone.
LEMMA SignedOutStep ==
    ASSUME IInv, NEW c \in Callers, call[c].op = "end", InLine(c), ahead[c] = {},
           NEW next \in {Idle, Sends(c, "refresh", None), Sends(c, "logout", stored.token)},
           next = Sends(c, "logout", stored.token) => stored.token # None,
           Publishes(c, stored.revision, NewLineage, None, next),
           ended' = IF stored.token = None THEN ended ELSE ended \cup {stored.token.session},
           IF next = Idle THEN Releases(c) /\ ends' = [ends EXCEPT ![call[c].tab] = @ - 1]
           ELSE UNCHANGED <<ahead, ends>>,
           UNCHANGED <<exchanges, owner, rotation, aged, cookie>>
    PROVE  IInv'
<1> DEFINE t == call[c].tab
<1>1. Typed /\ Locked /\ Counted /\ Shaped(c) /\ Kin /\ Signed
  BY DEF IInv
<1>2. t \in Tabs /\ call[c].captured # None /\ lineages \in Nat
  BY <1>1, BrowserAssumption DEF Shaped, Typed
<1>3. stored \in Envelope /\ stored \in Envelopes /\ stored.token \in Token \cup {None} /\ Begun(stored.token)
  BY <1>1, EnvelopeFields DEF Typed, Envelopes, Kin
<1>4. PICK token \in Token \cup {None} :
          /\ next \in {Idle, Sends(c, "refresh", None), Sends(c, "logout", token)}
          /\ next = Sends(c, "logout", token) => token # None
          /\ Begun(token)
  BY <1>3
<1>5. /\ next = Idle \/ /\ next \in Call /\ next.pc \in {"refresh", "logout"} /\ next.reply = None
                        /\ next.tab = t /\ next.op = "end" /\ next.captured = call[c].captured
                        /\ next.current = call[c].current
                        /\ next.token = None \/ next.token = token
                        /\ next.pc = "logout" => next.token # None
      /\ next \in Call
  <2>1. CASE next = Idle
    BY <2>1, Quiet
  <2>2. CASE next = Sends(c, "refresh", None)
    BY <1>1, <2>2, Sending DEF Pcs
  <2>3. CASE next = Sends(c, "logout", token)
    BY <1>1, <1>4, <2>3, Sending DEF Pcs
  <2> QED
    BY <1>4, <2>1, <2>2, <2>3
<1>6. Goes(c, next, t, TRUE) /\ stored'.token = None
  BY DEF Publishes
<1>7. /\ call'[c] = next
      /\ \A d \in Callers \ {c} : Same(d)
  BY <1>1, <1>5, <1>6, GoesAs
<1>8. Locked' /\ ahead' \in [Callers -> SUBSET Callers]
  <2>1. CASE next = Idle
    BY <1>1, <1>7, <2>1, LockReleased, Quiet DEF Same
  <2>2. CASE next # Idle
    BY <1>1, <1>5, <1>7, <2>2, LockKept DEF Same, InLine, Typed
  <2> QED
    BY <2>1, <2>2
<1>9. /\ Counted' /\ ends' \in [Tabs -> Nat]
      /\ \A u \in Tabs \ {t} : ends'[u] = ends[u]
  <2>1. CASE next = Idle
    <3>1. ends' = [ends EXCEPT ![t] = @ - 1] /\ ends \in [Tabs -> Nat]
      BY <1>1, <2>1 DEF Typed
    <3>2. call'[c].op = None /\ \A d \in Callers \ {c} : call'[d].op = call[d].op /\ call'[d].tab = call[d].tab
      BY <1>7, <2>1, Quiet DEF Same
    <3>3. Counted' /\ ends' \in [Tabs -> Nat]
      BY <1>1, <1>2, <3>1, <3>2, CountDown
    <3> QED
      BY <3>1, <3>3
  <2>2. CASE next # Idle
    <3>1. /\ call'[c].op = call[c].op /\ call'[c].tab = call[c].tab
          /\ \A d \in Callers \ {c} : call'[d].op = call[d].op /\ call'[d].tab = call[d].tab
      BY <1>5, <1>7, <2>2 DEF Same
    <3>2. ends' = ends /\ ends \in [Tabs -> Nat]
      BY <1>1, <2>2 DEF Typed
    <3> QED
      BY <1>1, <3>1, <3>2, CountKept
  <2> QED
    BY <2>1, <2>2
<1>10. Begun(call[c].token)'
  BY <1>4, <1>5, <1>7, Quiet DEF Begun
<1>11. ~call[c].current
  BY <1>1, BrowserAssumption DEF IInv, Attended
<1>12. Shaped(c)' /\ Attended(c)' /\ Sent(c)'
  <2>1. CASE next = Idle
    BY <1>7, <2>1, IdleIsGood
  <2>2. CASE next # Idle
    BY <1>2, <1>5, <1>7, <1>10, <1>11, <2>2, BrowserAssumption DEF Shaped, Attended, Sent
  <2> QED
    BY <2>1, <2>2
<1>13. ended' \subseteq DOMAIN owner
  BY <1>1, <1>3 DEF Typed, Begun
<1>14. Signed'
  <2>1. \A d \in Callers \ {c} : ~Holds(d)
    BY <1>1, HoldsAlone
  <2>2. \A d \in Callers \ {c} : call'[d].pc \notin {"refresh", "exchange"}
    BY <1>7, <2>1 DEF Same, Holds
  <2>3. call'[c].reply # "ok"
    BY <1>5, <1>7, Quiet, BrowserAssumption
  <2>4. Begun(cookie)'
    BY <1>1 DEF Signed, Begun
  <2> QED
    BY <1>6, <2>2, <2>3, <2>4 DEF Signed
<1>15. next.captured \in Envelopes \cup {None}
  BY <1>1, <1>2, <1>5, CapturedIsKin, Quiet
<1>16. NewLineage \in Nat /\ NewLineage > lineages /\ Begun(None)
  BY <1>2 DEF NewLineage, Begun
<1> QED
  BY <1>1, <1>2, <1>5, <1>8, <1>9, <1>12, <1>13, <1>14, <1>15, <1>16, Published DEF Typed

LEMMA LockedEndStep ==
    ASSUME IInv, NEW c \in Callers, LockedEnd(c)
    PROVE  IInv'
<1> DEFINE t == call[c].tab
           remote == call[c].cleanup \/ stored.token # None
           told == IF call[c].cleanup THEN Sends(c, "refresh", None)
                   ELSE Sends(c, "logout", stored.token)
<1>1. /\ call[c].op = "end" /\ call[c].pc = "wait" /\ ahead[c] = {} /\ InLine(c)
      /\ UNCHANGED <<exchanges, owner, rotation, aged, cookie>>
  BY DEF LockedEnd, HasLock, InLine, server
<1>2. CASE Settles(c) /\ UNCHANGED <<stored, lineages, ended>>
  <2>1. Rests /\ KeepsCookie(c)
    BY <1>1, <1>2, CookieTaken DEF Rests
  <2> QED
    BY <1>1, <1>2, <2>1, SettlesStep
<1>3. CASE /\ Publishes(c, stored.revision, NewLineage, None, IF remote THEN told ELSE Idle)
           /\ ended' = IF stored.token = None THEN ended ELSE ended \cup {stored.token.session}
           /\ IF remote THEN UNCHANGED <<ahead, ends>>
              ELSE Releases(c) /\ ends' = [ends EXCEPT ![t] = @ - 1]
  <2>1. Typed
    BY DEF IInv
  <2>2. stored.token \in Token \cup {None}
    BY <2>1, EnvelopeFields DEF Typed
  <2>3. Sends(c, "refresh", None).pc = "refresh" /\ Sends(c, "logout", stored.token).pc = "logout"
    BY <2>1, <2>2, Sending DEF Pcs
  <2>4. CASE ~remote
    BY <1>1, <1>3, <2>3, <2>4, SignedOutStep, Quiet
  <2>5. CASE remote /\ call[c].cleanup
    BY <1>1, <1>3, <2>3, <2>5, SignedOutStep, Quiet
  <2>6. CASE remote /\ ~call[c].cleanup
    BY <1>1, <1>3, <2>3, <2>6, SignedOutStep, Quiet
  <2> QED
    BY <2>4, <2>5, <2>6
<1> QED
  BY <1>2, <1>3 DEF LockedEnd

LEMMA ReceiveEndStep ==
    ASSUME IInv, NEW c \in Callers, ReceiveEnd(c)
    PROVE  IInv'
<1>1. Typed /\ Locked /\ Counted /\ Shaped(c) /\ Sent(c) /\ Kin
  BY DEF IInv
<1>2. /\ call[c].op = "end" /\ call[c].reply # None /\ TakesCookie(c)
      /\ UNCHANGED <<stored, exchanges, lineages>> /\ Rests
  BY DEF ReceiveEnd, Rests, server, history
<1>3. ~call[c].current /\ call[c].captured # None /\ call[c].tab \in Tabs
  BY <1>1, <1>2, BrowserAssumption DEF IInv, Attended, Shaped
<1>4. CASE Settles(c) /\ Holds(c)
  BY <1>2, <1>4, CookieTaken, SettlesStep DEF Rests
<1>5. ASSUME NEW pc \in {"refresh", "relogout"}, NEW token \in Token \cup {None}, Begun(token),
             pc = "relogout" => token # None,
             Goes(c, Sends(c, pc, token), None, FALSE), UNCHANGED <<env, ends, ahead>>, Holds(c)
      PROVE  IInv'
  <2> DEFINE next == Sends(c, pc, token)
  <2>1. /\ next \in Call /\ next.pc = pc /\ next.token = token /\ next.reply = None
        /\ next.tab = call[c].tab /\ next.op = "end" /\ next.captured = call[c].captured
        /\ ~next.current
    BY <1>1, <1>2, <1>3, <1>5, Sending DEF Pcs
  <2>2. Goes(c, next, None, FALSE)
    BY <1>5
  <2> HIDE DEF next
  <2>3. call'[c] = next /\ \A d \in Callers \ {c} : Same(d)
    BY <1>1, <2>1, <2>2, Going
  <2>4. Locked' /\ ahead' \in [Callers -> SUBSET Callers]
    <3>1. ahead' = ahead /\ ahead[c] = {} /\ InLine(c) /\ InLine(c)'
      BY <1>1, <1>5, <2>1, <2>3 DEF InLine, Holds, Locked
    <3>2. \A d \in Callers \ {c} : call'[d].pc = call[d].pc
      BY <2>3 DEF Same
    <3>3. Locked'
      BY <1>1, <3>1, <3>2, LockKept
    <3> QED
      BY <1>1, <3>1, <3>3 DEF Typed
  <2>5. Counted'
    BY <1>1, <1>2, <1>5, <2>1, <2>3, CountKept DEF Same
  <2>6. Shaped(c)' /\ Attended(c)' /\ Sent(c)'
    BY <1>2, <1>3, <1>5, <2>1, <2>3, BrowserAssumption DEF Shaped, Attended, Sent, Begun, Rests
  <2>7. KeepsCookie(c)
    BY <1>2, <1>5, CookieTaken DEF Rests
  <2>8. next.captured \in Envelopes
    BY <1>1, <1>3, <2>1, CapturedIsKin
  <2> QED
    BY <1>1, <1>2, <1>5, <2>1, <2>2, <2>4, <2>5, <2>6, <2>7, <2>8, GoesOn DEF Typed, MayAdopt
<1>6. CASE Holds(c)
  <2>1. call[c].pc = "refresh" /\ call[c].reply = "ok" =>
            call[c].token \in Token \cup {None} /\ call[c].token # None /\ Begun(call[c].token)
    BY <1>1, CallFields DEF Typed, Shaped, Sent
  <2>2. Begun(None)
    BY DEF Begun
  <2> QED
    BY <1>2, <1>4, <1>5, <1>6, <2>1, <2>2 DEF ReceiveEnd
<1> QED
  BY <1>1, <1>2, <1>6, CallFields DEF Shaped, Holds, Typed, Pcs
-----------------------------------------------------------------------------
(* The steps of no call. *)

LEMMA HearStep ==
    ASSUME IInv, NEW t \in Tabs, Hear(t)
    PROVE  IInv'
<1>1. Typed /\ Kin /\ Locked /\ Counted /\ Newest /\ Signed
  BY DEF IInv
<1>2. /\ env' = [env EXCEPT ![t] = Adopted(t)] /\ Goes(None, Idle, t, Moves(t))
      /\ UNCHANGED <<stored, ends, exchanges, ahead, lineages, owner, rotation, aged, cookie, ended>>
  BY DEF Hear, server, history
<1>3. None \notin Callers /\ Moves(t) \in BOOLEAN
  BY BrowserAssumption DEF Moves
<1>4. /\ call' \in [Callers -> Call]
      /\ \A d \in Callers : Same(d) /\ (Moves(t) /\ call[d].tab = t => ~call'[d].current)
  BY <1>1, <1>2, <1>3, Quiet, Going
<1>5. Newest' /\ env' \in [Tabs -> Envelope]
  BY <1>1, <1>2, NewestAdopted
<1>6. Typed'
  BY <1>1, <1>2, <1>4, <1>5 DEF Typed
<1>7. ASSUME NEW d \in Callers
      PROVE  Shaped(d)' /\ Attended(d)' /\ Sent(d)'
  <2>1. Shaped(d) /\ Attended(d) /\ Sent(d) /\ Same(d)
    BY <1>4 DEF IInv
  <2>2. ASSUME call[d].current, call'[d].current
        PROVE  env'[call[d].tab] = env[call[d].tab] /\ ends'[call[d].tab] = 0
    <3>1. call[d].tab \in Tabs /\ ends[call[d].tab] = 0
      BY <2>1, <2>2, BrowserAssumption DEF Shaped, Attended
    <3>2. env \in [Tabs -> Envelope]
      BY <1>1 DEF Typed
    <3>3. CASE call[d].tab = t
      BY <1>2, <1>4, <2>2, <3>1, <3>2, <3>3 DEF Moves
    <3>4. CASE call[d].tab # t
      BY <1>2, <3>1, <3>2, <3>4
    <3> QED
      BY <3>3, <3>4
  <2> QED
    BY <1>1, <1>2, <2>1, <2>2, Others DEF Begins
<1>8. Locked'
  BY <1>1, <1>2, <1>4 DEF Locked, Holds, InLine, Same
<1>9. Counted'
  <2>1. \A u \in Tabs : Ending(u)' = Ending(u)
    BY <1>4 DEF Ending, Same
  <2> QED
    BY <1>1, <1>2, <2>1 DEF Counted
<1>10. Kin'
  <2>1. \A u \in Tabs : env'[u] \in Envelopes
    BY <1>1, <1>2, Adopting DEF Envelopes, Typed
  <2>2. \A d \in Callers : call'[d].captured = call[d].captured
    BY <1>4 DEF Same
  <2>3. Envelopes' \subseteq Envelopes /\ stored \in Envelopes /\ lineages \in Nat
    BY <1>1, <1>2, <2>1, <2>2 DEF Envelopes, Typed
  <2> QED
    BY <1>1, <1>2, <2>3, KinGrows
<1>11. Signed'
  BY <1>1, <1>2, <1>4 DEF Signed, Same, Begun
<1> QED
  BY <1>5, <1>6, <1>7, <1>8, <1>9, <1>10, <1>11 DEF IInv

LEMMA ReloadStep ==
    ASSUME IInv, NEW t \in Tabs, Reload(t)
    PROVE  IInv'
<1>1. Typed /\ Kin /\ Locked /\ Counted /\ Newest /\ Signed
  BY DEF IInv
<1>2. /\ env' = [env EXCEPT ![t] = stored] /\ ends' = [ends EXCEPT ![t] = 0]
      /\ exchanges' = [exchanges EXCEPT ![t] = 0]
      /\ ahead' = [c \in Callers |-> IF call[c].tab = t THEN {} ELSE {d \in ahead[c] : call[d].tab # t}]
      /\ call' = [c \in Callers |-> IF call[c].tab = t THEN Idle ELSE call[c]]
      /\ UNCHANGED <<stored, lineages, owner, rotation, aged, cookie, ended>>
  BY DEF Reload, server, history
<1>3. \A c \in Callers : /\ call[c].tab = t => call'[c] = Idle
                         /\ call[c].tab # t => call'[c] = call[c]
  BY <1>2
<1>4. Newest' /\ env' \in [Tabs -> Envelope]
  BY <1>1, <1>2, NewestAdopted
<1>5. Typed'
  BY <1>1, <1>2, <1>4, Quiet DEF Typed
<1>6. ASSUME NEW d \in Callers
      PROVE  Shaped(d)' /\ Attended(d)' /\ Sent(d)'
  <2>1. CASE call[d].tab = t
    BY <1>3, <2>1, IdleIsGood
  <2>2. CASE call[d].tab # t
    <3>1. Shaped(d) /\ Attended(d) /\ Sent(d) /\ Same(d)
      BY <1>3, <2>2 DEF IInv, Same
    <3>2. call[d].current => /\ env'[call[d].tab] = env[call[d].tab]
                             /\ ends'[call[d].tab] = 0
      BY <1>1, <1>2, <2>2, <3>1, BrowserAssumption DEF Shaped, Attended, Typed
    <3> QED
      BY <1>1, <1>2, <3>1, <3>2, Others DEF Begins
  <2> QED
    BY <2>1, <2>2
<1>7. Locked'
  <2>1. \A c \in Callers : Holds(c)' \/ InLine(c)' => call[c].tab # t
    BY <1>3, Quiet DEF Holds, InLine
  <2>2. \A c \in Callers : call[c].tab # t => (Holds(c)' = Holds(c)) /\ (InLine(c)' = InLine(c))
    BY <1>3 DEF Holds, InLine
  <2>3. \A c \in Callers : call[c].tab # t => ahead'[c] = {d \in ahead[c] : call[d].tab # t}
    BY <1>2
  <2>4. \A c \in Callers : Holds(c)' => ahead'[c] = {}
    BY <1>1, <2>1, <2>2, <2>3 DEF Locked
  <2>5. \A c, d \in Callers : InLine(c)' /\ InLine(d)' /\ c # d => c \in ahead'[d] \/ d \in ahead'[c]
    BY <1>1, <2>1, <2>2, <2>3 DEF Locked
  <2> QED
    BY <2>4, <2>5 DEF Locked
<1>8. Counted'
  <2>1. \A u \in Tabs \ {t} : Ending(u)' = Ending(u)
    BY <1>3, Quiet, BrowserAssumption DEF Ending
  <2>2. Ending(t)' = {}
    BY <1>3, Quiet, BrowserAssumption DEF Ending
  <2>3. ends \in [Tabs -> Nat]
    BY <1>1 DEF Typed
  <2> QED
    BY <1>1, <1>2, <2>1, <2>2, <2>3, FS_EmptySet DEF Counted
<1>9. Kin'
  <2>1. \A u \in Tabs : env'[u] \in Envelopes
    BY <1>1, <1>2 DEF Envelopes, Typed
  <2>2. \A d \in Callers : call'[d].captured \in {call[d].captured, None}
    BY <1>3, Quiet
  <2>3. Envelopes' \subseteq Envelopes /\ stored \in Envelopes /\ lineages \in Nat
    BY <1>1, <1>2, <2>1, <2>2 DEF Envelopes, Typed
  <2> QED
    BY <1>1, <1>2, <2>3, KinGrows
<1>10. Signed'
  BY <1>1, <1>2, <1>3, Quiet, BrowserAssumption DEF Signed, Begun
<1> QED
  BY <1>4, <1>5, <1>6, <1>7, <1>8, <1>9, <1>10 DEF IInv

\* Nothing that the invariant speaks of changes, but when tokens expire.
LEMMA RestStep ==
    ASSUME IInv, UNCHANGED <<tabs, call, owner, rotation, cookie, ended>>,
           aged' \in [1 .. MaxSessions -> Nat]
    PROVE  IInv'
<1>1. /\ UNCHANGED <<stored, env, ends, exchanges, ahead, call, lineages, owner, rotation, cookie, ended>>
  BY DEF tabs
<1>2. Typed'
  BY <1>1 DEF IInv, Typed
<1>3. Envelopes' = Envelopes
  BY <1>1 DEF Envelopes
<1>4. Kin'
  BY <1>1, <1>3 DEF IInv, Kin, Begun, Alike, OtherMember, Owner
<1>5. \A c \in Callers : Shaped(c)' /\ Attended(c)' /\ Sent(c)'
  BY <1>1 DEF IInv, Shaped, Attended, Sent, Begun, Alike, OtherMember, Owner
<1>6. Locked' /\ Counted' /\ Newest' /\ Signed'
  BY <1>1 DEF IInv, Locked, Holds, InLine, Counted, Ending, Newest, Signed, Begun
<1> QED
  BY <1>2, <1>4, <1>5, <1>6 DEF IInv

LEMMA AgeSteps ==
    ASSUME IInv, NEW s \in 1 .. MaxSessions, Age(s) \/ Lapse(s)
    PROVE  IInv'
<1>1. aged \in [1 .. MaxSessions -> Nat] /\ rotation \in [1 .. MaxSessions -> 1 .. MaxRotations]
  BY DEF IInv, Typed
<1>2. rotation[s] \in Nat
  BY <1>1, BrowserAssumption
<1>3. aged' \in [1 .. MaxSessions -> Nat]
  BY <1>1, <1>2 DEF Age, Lapse
<1> QED
  BY <1>3, RestStep DEF Age, Lapse, history

-----------------------------------------------------------------------------
(* The theorems. *)

LEMMA Starts == Init => IInv
<1> SUFFICES ASSUME Init PROVE IInv
  OBVIOUS
<1>1. /\ \/ owner = << >> /\ cookie = None
         \/ \E m \in Members : owner = <<m>> /\ cookie = [session |-> 1, n |-> 1]
      /\ rotation = [s \in 1 .. MaxSessions |-> 1] /\ aged = [s \in 1 .. MaxSessions |-> 0]
      /\ stored = [revision |-> 1, lineage |-> 1, token |-> cookie]
      /\ env = [t \in Tabs |-> stored] /\ ends = [t \in Tabs |-> 0] /\ exchanges = [t \in Tabs |-> 0]
      /\ ahead = [c \in Callers |-> {}] /\ call = [c \in Callers |-> Idle]
      /\ lineages = 1 /\ ended = {}
  BY DEF Init
<1>2. 1 \in 1 .. MaxSessions /\ 1 \in 1 .. MaxRotations /\ 1 \in 1 .. MaxRevision /\ MaxSessions \in Nat
  BY BrowserAssumption
<1>3. [session |-> 1, n |-> 1] \in Token
  BY <1>2 DEF Token
<1>4. /\ owner \in Seq(Members) /\ Len(owner) <= MaxSessions /\ cookie \in Token \cup {None}
      /\ Begun(cookie)
  <2>1. CASE owner = << >> /\ cookie = None
    BY <1>2, <2>1 DEF Begun
  <2>2. ASSUME NEW m \in Members, owner = <<m>>, cookie = [session |-> 1, n |-> 1]
        PROVE  /\ owner \in Seq(Members) /\ Len(owner) <= MaxSessions
               /\ cookie \in Token \cup {None} /\ Begun(cookie)
    <3>1. owner \in Seq(Members) /\ Len(owner) = 1 /\ 1 \in DOMAIN owner
      BY <2>2
    <3> QED
      BY <1>2, <1>3, <2>2, <3>1 DEF Begun
  <2> QED
    BY <1>1, <2>1, <2>2
<1>5. stored \in Envelope /\ stored.lineage = 1 /\ stored.token = cookie /\ stored.revision = 1
  BY <1>1, <1>2, <1>4 DEF Envelope
<1>6. \A c \in Callers : call[c] = Idle
  BY <1>1
<1>7. Typed
  BY <1>1, <1>2, <1>4, <1>5, Quiet DEF Typed
<1>8. \A c \in Callers : Shaped(c) /\ Attended(c) /\ Sent(c)
  BY <1>6, Quiet, BrowserAssumption DEF Shaped, Attended, Sent, Begun
<1>9. Locked
  BY <1>6, Quiet DEF Locked, Holds, InLine
<1>10. Counted
  <2>1. \A t \in Tabs : Ending(t) = {}
    BY <1>6, Quiet, BrowserAssumption DEF Ending
  <2> QED
    BY <1>1, <2>1, FS_EmptySet DEF Counted
<1>11. Newest
  BY <1>1, <1>5 DEF Newest
<1>12. Kin
  <2>1. \A e \in Envelopes : e = stored
    BY <1>1, <1>6, Quiet DEF Envelopes
  <2> QED
    BY <1>1, <1>4, <1>5, <2>1 DEF Kin, Alike, OtherMember
<1>13. Signed
  BY <1>1, <1>4, <1>5, <1>6, Quiet, BrowserAssumption DEF Signed
<1> QED
  BY <1>7, <1>8, <1>9, <1>10, <1>11, <1>12, <1>13 DEF IInv

LEMMA Steps == IInv /\ Apart /\ [Next]_vars /\ Apart' => IInv'
<1> SUFFICES ASSUME IInv, Apart, [Next]_vars, Apart' PROVE IInv'
  OBVIOUS
<1>1. CASE UNCHANGED vars
  <2>1. aged' \in [1 .. MaxSessions -> Nat]
    BY <1>1 DEF IInv, Typed, vars, server
  <2> QED
    BY <1>1, <2>1, RestStep DEF vars, server, history
<1>2. ASSUME NEW c \in Callers, NEW t \in Tabs, Request(c, t) \/ Complete(c, t) \/ End(c, t)
      PROVE  IInv'
  BY <1>2, RequestStep, CompleteStep, EndStep
<1>3. ASSUME NEW c \in Callers,
             \/ DropData(c) \/ AnswerData(c) \/ AwaitRefresh(c) \/ LockedRefresh(c) \/ ReceiveRefresh(c)
             \/ DropRetry(c) \/ AnswerRetry(c) \/ ExpireRetry(c)
      PROVE  IInv'
  BY <1>3, AnswerSteps, AwaitRefreshStep, LockedRefreshStep, ReceiveRefreshStep, ExpireRetryStep
<1>4. ASSUME NEW c \in Callers,
             \/ LockedComplete(c) \/ ReceiveExchange(c) \/ LockedEnd(c) \/ ReceiveEnd(c)
             \/ ServeData(c) \/ ServeRefresh(c) \/ ServeExchange(c) \/ ServeLogout(c) \/ Lose(c)
      PROVE  IInv'
  BY <1>4, LockedCompleteStep, ReceiveExchangeStep, LockedEndStep, ReceiveEndStep, ServeSteps
<1>5. ASSUME NEW t \in Tabs, Hear(t) \/ Reload(t)
      PROVE  IInv'
  BY <1>5, HearStep, ReloadStep
<1>6. ASSUME NEW s \in 1 .. MaxSessions, Age(s) \/ Lapse(s)
      PROVE  IInv'
  BY <1>6, AgeSteps
<1>7. CASE Next
  BY <1>2, <1>3, <1>4, <1>5, <1>6, <1>7 DEF Next
<1> QED
  BY <1>1, <1>7

LEMMA Invariant == Spec /\ []Apart => []IInv
BY Starts, Steps, PTL DEF Spec

\* No refresh or sign-in under way in any tab brings back a session that a
\* sign-out has ended.
THEOREM SignedOutForGood == Spec /\ []Apart => []EndedStaysEnded
<1>1. IInv => EndedStaysEnded
  BY DEF IInv, Signed, EndedStaysEnded
<1> QED
  BY <1>1, Invariant, PTL

\* A request is answered in the session in which it was asked, and that is the
\* browser's when the answer comes.
THEOREM AskersAnswered == Spec /\ []Apart => AnswerIsTheAskers
<1> DEFINE Right(c) ==
        LET asked == call[c].captured
        IN /\ stored.lineage = asked.lineage
           /\ (call[c].token = None) = (asked.token = None)
           /\ ~OtherMember(call[c].token, asked.token)
<1>1. ASSUME IInv, NEW c \in Callers, AnswerData(c) \/ AnswerRetry(c)
      PROVE  Right(c)
  <2>1. Typed /\ Newest /\ Shaped(c) /\ Sent(c)
    BY <1>1 DEF IInv
  <2>2. /\ call[c].pc \in {"data", "retry"} /\ ~Departed(call[c].tab, call[c].captured)
        /\ call[c].tab \in Tabs
    BY <1>1, <2>1 DEF AnswerData, AnswerRetry, Shaped
  <2>3. ends[call[c].tab] = 0 /\ Adopted(call[c].tab).lineage = call[c].captured.lineage
    BY <2>1, <2>2, NotDeparted
  <2>4. stored.lineage = call[c].captured.lineage
    BY <2>1, <2>2, <2>3, Adopting
  <2> QED
    BY <2>1, <2>2, <2>4 DEF Sent, Alike
<1>2. IInv /\ [Next]_vars => [\A c \in Callers : AnswerData(c) \/ AnswerRetry(c) => Right(c)]_vars
  BY <1>1
<1> QED
  BY <1>2, Invariant, PTL DEF AnswerIsTheAskers, Spec
=============================================================================
