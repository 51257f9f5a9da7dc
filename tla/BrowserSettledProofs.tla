------------------------ MODULE BrowserSettledProofs ------------------------
(***************************************************************************)
(* What the tabs of one browser agree on once their calls have settled.    *)
(* The inductive invariant adds to IInv the order of what is persisted,    *)
(* the order of the tokens, and whom the refresh cookie belongs to.        *)
(***************************************************************************)
EXTENDS BrowserSessionProofs

-----------------------------------------------------------------------------
(* The order of the envelopes. *)

\* A tab that has nothing to hear of shows what is persisted, or signs out.
Heard == \A t \in Tabs \ unheard : env[t] = stored \/ ends[t] > 0

\* What is persisted is of the last lineage.
Last == stored.lineage = lineages

\* What a sign-out captured is persisted, or older.
Since(c) ==
    call[c].op = "end" => /\ call[c].captured.revision <= stored.revision
                          /\ call[c].captured.revision = stored.revision => call[c].captured = stored

\* What a request captured is no newer a lineage than what its tab shows, nor
\* than what a sign-out of its tab captured.
Older(c) ==
    call[c].op = "request" =>
        /\ call[c].captured.lineage <= env[call[c].tab].lineage
        /\ \A e \in Callers : call[e].op = "end" /\ call[e].tab = call[c].tab =>
              call[c].captured.lineage <= call[e].captured.lineage

\* A sign-in in flight is counted; its tab shows what is persisted, and only a
\* sign-out retires it, which will then end what it begins.
Cleans(e) == call[e].op = "end" /\ call[e].pc = "wait" /\ call[e].cleanup
Exchanges(t) == \E c \in Callers : call[c].pc = "exchange" /\ call[c].tab = t
InFlight == \A t \in Tabs : exchanges[t] = IF Exchanges(t) THEN 1 ELSE 0

Exchanging(c) ==
    call[c].pc = "exchange" =>
        /\ ends[call[c].tab] = 0 => env[call[c].tab] = stored
        /\ \/ call[c].current
           \/ \E e \in Callers : Cleans(e) /\ call[e].tab = call[c].tab /\ call[e].captured = stored

Order ==
    /\ Heard /\ Last /\ InFlight
    /\ \A c \in Callers : Since(c) /\ Older(c) /\ Exchanging(c)

-----------------------------------------------------------------------------
(* The order of the tokens. *)

Serial ==
    /\ live \subseteq DOMAIN owner
    /\ \A s \in 1 .. MaxSessions : /\ aged[s] <= rotation[s]
                                   /\ s \notin DOMAIN owner => rotation[s] = 1 /\ aged[s] = 0

\* No token is of a rotation that has not been.
Past(token) == token = None \/ token.n <= rotation[token.session]
Numbered == Past(stored.token) /\ Past(cookie) /\ \A c \in Callers : Past(call[c].token)

\* What the server has refused it would refuse again, what it has ended has
\* ended, and an answer is lost only by a fault.
Answered(c) ==
    /\ call[c].pc \in {"retry", "logout", "relogout"} /\ call[c].reply = "401" =>
          call[c].token # None /\ ~Accepts(call[c].token)
    /\ call[c].pc \in {"logout", "relogout"} /\ call[c].reply = "ok" =>
          call[c].token.session \notin live
    /\ call[c].reply = "lost" => faults > 0

\* A refresh or a sign-in answered brings the last token of its session, and a
\* refresh one that is newer than those in use.
NewerThan(token, other) ==
    token # None /\ other # None /\ other.session = token.session => other.n < token.n

Fresh(c) ==
    LET token == call[c].token
    IN call[c].pc \in {"refresh", "exchange"} /\ call[c].reply = "ok" =>
        /\ token.n = rotation[token.session] /\ token.n > aged[token.session]
        /\ call[c].pc = "refresh" =>
              /\ NewerThan(token, stored.token)
              /\ \A d \in Callers : call[d].pc = "data" => NewerThan(token, call[d].token)

Numbers == Serial /\ Numbered /\ \A c \in Callers : Answered(c) /\ Fresh(c)

-----------------------------------------------------------------------------
(* The age of what is persisted. *)

Young == stored.token = None \/ stored.token.n > aged[stored.token.session]

\* Another envelope of the lineage is persisted than the request goes on with.
Overtaken(c) ==
    LET t == call[c].tab
    IN /\ call[c].op = "request" /\ call[c].pc \in {"data", "wait", "refresh"}
       /\ ends[t] = 0 /\ stored.lineage = call[c].captured.lineage
       /\ ~(call[c].current /\ env[t] = stored)

\* What has been persisted since a call began has not expired.
Ripe(c) ==
    /\ Overtaken(c) => Young
    /\ Overtaken(c) /\ call[c].pc = "data" => NewerThan(stored.token, call[c].token)
    /\ call[c].op = "end" /\ call[c].captured.revision < stored.revision => Young
    /\ call[c].pc = "retry" => call[c].token = stored.token /\ Young
    /\ call[c].op = "end" /\ Holds(c) => stored.token = None
    /\ call[c].pc = "relogout" => call[c].token.n > aged[call[c].token.session]

RipeTabs == \A t \in Tabs : ends[t] > 0 /\ env[t].revision < stored.revision => Young

Ripeness == RipeTabs /\ \A c \in Callers : Ripe(c)

-----------------------------------------------------------------------------
(* The refresh cookie, if nothing was lost. *)

CookieLives == cookie # None /\ cookie.session \in live

\* The cookie of a session that has not ended is the last, unless its answer is
\* on the way.
Unspent ==
    CookieLives => \/ cookie.n = rotation[cookie.session]
                   \/ \E c \in Callers : call[c].pc = "refresh" /\ call[c].reply = "ok"

\* A sign-out under way will end the session of the cookie.
Dooms(e) ==
    LET asked == call[e].captured.token
    IN /\ call[e].op = "end" /\ Holds(e)
       /\ call[e].pc = "logout" => /\ call[e].token.session = cookie.session
                                   /\ asked = None => call[e].token.n > aged[cookie.session]
                                   /\ asked # None => Owner(asked) = Owner(cookie)
       /\ call[e].pc = "refresh" /\ ~call[e].cleanup => asked # None /\ Owner(asked) = Owner(cookie)
       /\ call[e].pc = "relogout" => call[e].token.session = cookie.session

\* The session of the cookie is the one persisted, or a sign-out waits to end
\* it, or is ending it.
Persists == stored.token # None /\ stored.token.session = cookie.session
Awaited == \E e \in Callers : Cleans(e) /\ ~OtherMember(call[e].captured.token, stored.token)
Paired == CookieLives => Persists \/ Awaited \/ \E e \in Callers : Dooms(e)

Faultless == faults \in Nat /\ (faults = 0 => replays = {} /\ Unspent /\ Paired)

AInv == Order /\ Numbers /\ Ripeness /\ Faultless

-----------------------------------------------------------------------------
(* Steps of the tabs. *)

ServerRests == UNCHANGED <<owner, live, rotation, aged, faults>>

\* What a step of a tab sends, keeps or persists it has from what there was.
LEMMA NumbersFollow ==
    ASSUME IInv, IInv', Numbers, NEW c, ServerRests,
           \A d \in Callers \ {c} : Same(d),
           c \in Callers => /\ call'[c].reply = None
                            /\ call'[c].token \in {None, stored.token, call[c].token}
                            /\ call'[c].pc = "data" => call'[c].token = stored.token,
           cookie' \in {None, cookie} \/ (c \in Callers /\ cookie' = call[c].token),
           \/ stored' = stored
           \/ /\ c \in Callers /\ \A d \in Callers \ {c} : ~Holds(d)
              /\ stored'.token \in {None, call[c].token}
    PROVE  Numbers'
<1>1. Serial'
  BY DEF Numbers, Serial, ServerRests
<1>2. \A token : Past(token)' = Past(token)
  BY DEF Past, ServerRests
<1>3. Past(None)
  BY DEF Past
<1>4. \A d \in Callers : Past(call'[d].token)
  <2>1. ASSUME NEW d \in Callers \ {c} PROVE Past(call'[d].token)
    BY <2>1 DEF Same, Numbers, Numbered
  <2>2. ASSUME c \in Callers PROVE Past(call'[c].token)
    BY <1>3, <2>2 DEF Numbers, Numbered
  <2> QED
    BY <2>1, <2>2
<1>5. Past(stored'.token) /\ Past(cookie')
  BY <1>3 DEF Numbers, Numbered
<1>6. Numbered'
  BY <1>2, <1>4, <1>5 DEF Numbered
<1>7. ASSUME NEW d \in Callers \ {c} PROVE Answered(d)' /\ Fresh(d)'
  <2>1. Answered(d) /\ Fresh(d) /\ Same(d)
    BY DEF Numbers
  <2>2. Answered(d)'
    BY <2>1 DEF Answered, Same, Accepts, ServerRests
  <2>3. Fresh(d)'
    <3>1. CASE ~(call[d].pc \in {"refresh", "exchange"} /\ call[d].reply = "ok")
      BY <2>1, <3>1 DEF Fresh, Same
    <3>2. CASE call[d].pc \in {"refresh", "exchange"} /\ call[d].reply = "ok"
      <4>1. stored' = stored
        BY <3>2 DEF Holds
      <4>2. \A e \in Callers : call'[e].pc = "data" =>
               call'[e].token = stored.token \/ (call[e].pc = "data" /\ call'[e].token = call[e].token)
        BY DEF Same
      <4> QED
        BY <2>1, <3>2, <4>1, <4>2 DEF Fresh, Same, ServerRests
    <3> QED
      BY <3>1, <3>2
  <2> QED
    BY <2>2, <2>3
<1>8. ASSUME c \in Callers PROVE Answered(c)' /\ Fresh(c)'
  BY <1>8, BrowserAssumption DEF Answered, Fresh
<1> QED
  BY <1>1, <1>6, <1>7, <1>8 DEF Numbers

\* What a step does to the calls that are not its own, in the tab of which it
\* may move the generation.
Beside(c, t, moved) == \A d \in Callers \ {c} :
    /\ Same(d)
    /\ moved /\ call[d].tab = t => ~call'[d].current
    /\ ~moved \/ call[d].tab # t => call'[d].current = call[d].current

LEMMA GoesBeside ==
    ASSUME Typed, NEW c \in Callers, NEW next \in Call, NEW t, NEW moved \in BOOLEAN,
           Goes(c, next, t, moved)
    PROVE  call'[c] = next /\ Beside(c, t, moved)
BY Going DEF Beside

\* One tab adopts, or none.
Adopts(t, moved) ==
    /\ \/ ~moved /\ env' = env
       \/ t \in Tabs /\ (moved <=> Moves(t)) /\ env' = [env EXCEPT ![t] = Adopted(t)]
    /\ UNCHANGED <<stored, ends, lineages>>

LEMMA WhatIsAdopted ==
    ASSUME IInv, NEW t, NEW moved \in BOOLEAN, Adopts(t, moved)
    PROVE  \A u \in Tabs : /\ env'[u] \in {env[u], stored}
                           /\ ends[u] # 0 => env'[u] = env[u]
                           /\ env[u] = stored => env'[u] = stored
                           /\ moved /\ u = t => env[u] # stored /\ env'[u] = stored /\ ends[u] = 0
<1>1. Typed /\ Newest
  BY DEF IInv
<1>2. env \in [Tabs -> Envelope]
  BY <1>1 DEF Typed
<1> SUFFICES ASSUME NEW u \in Tabs
             PROVE  /\ env'[u] \in {env[u], stored}
                    /\ ends[u] # 0 => env'[u] = env[u]
                    /\ env[u] = stored => env'[u] = stored
                    /\ moved /\ u = t => env[u] # stored /\ env'[u] = stored /\ ends[u] = 0
  OBVIOUS
<1>3. CASE ~moved /\ env' = env
  BY <1>3
<1>4. CASE t \in Tabs /\ (moved <=> Moves(t)) /\ env' = [env EXCEPT ![t] = Adopted(t)]
  <2>1. CASE u = t
    <3>1. env'[u] = Adopted(u)
      BY <1>2, <1>4, <2>1
    <3>2. /\ Adopted(u) \in {stored, env[u]} /\ (ends[u] = 0 => Adopted(u) = stored)
          /\ (ends[u] # 0 => Adopted(u) = env[u]) /\ (Moves(u) => ends[u] = 0)
      BY <1>1, Adopting
    <3> QED
      BY <1>4, <2>1, <3>1, <3>2 DEF Moves
  <2>2. CASE u # t
    BY <1>2, <1>4, <2>2
  <2> QED
    BY <2>1, <2>2
<1> QED
  BY <1>3, <1>4 DEF Adopts

\* The lineages there are.
LEMMA Lineages ==
    ASSUME IInv
    PROVE  /\ lineages \in Nat /\ stored.lineage \in Nat /\ stored.revision \in Nat
           /\ \A t \in Tabs : /\ env[t].lineage \in Nat /\ env[t].lineage <= lineages
                              /\ env[t].revision \in Nat /\ env[t].revision <= stored.revision
           /\ \A c \in Callers : call[c].op \in {"request", "end"} =>
                 /\ call[c].captured \in Envelope /\ call[c].captured.lineage \in Nat
                 /\ call[c].captured.revision \in Nat /\ call[c].captured.lineage <= lineages
                 /\ Begun(call[c].captured.token)
<1>1. Typed /\ Kin /\ Newest /\ \A c \in Callers : Shaped(c)
  BY DEF IInv
<1>2. \A t \in Tabs : env[t] \in Envelopes /\ env[t] \in Envelope
  BY <1>1 DEF Envelopes, Typed
<1>3. \A c \in Callers : call[c].op \in {"request", "end"} =>
         call[c].captured \in Envelopes /\ call[c].captured \in Envelope /\ Begun(call[c].captured.token)
  BY <1>1, CapturedIsKin DEF Shaped
<1> QED
  BY <1>1, <1>2, <1>3, EnvelopeFields DEF Typed, Kin, Newest

\* Where a sign-out is under way its tab counts it.
EndsCounted ==
    /\ \A t \in Tabs : ends[t] \in Nat
    /\ \A e \in Callers : call[e].op = "end" => ends[call[e].tab] > 0 /\ call[e].tab \in Tabs
    /\ \A t \in Tabs : ends[t] > 0 => \E e \in Callers : call[e].op = "end" /\ call[e].tab = t

LEMMA EndCounts == IInv => EndsCounted
<1> SUFFICES ASSUME IInv PROVE EndsCounted
  OBVIOUS
<1>1. Typed /\ Counted /\ \A c \in Callers : Shaped(c)
  BY DEF IInv
<1>2. \A t \in Tabs : ends[t] \in Nat
  BY <1>1 DEF Typed
<1>3. ASSUME NEW e \in Callers, call[e].op = "end" PROVE ends[call[e].tab] > 0 /\ call[e].tab \in Tabs
  <2>1. call[e].tab \in Tabs
    BY <1>1, <1>3, BrowserAssumption DEF Shaped
  <2>2. e \in Ending(call[e].tab)
    BY <1>3 DEF Ending
  <2>3. Cardinality(Ending(call[e].tab)) # 0
    BY <2>2, EndingIsFinite, FS_EmptySet
  <2> QED
    BY <1>1, <1>2, <2>1, <2>3 DEF Counted
<1>4. ASSUME NEW t \in Tabs, ends[t] > 0 PROVE \E e \in Callers : call[e].op = "end" /\ call[e].tab = t
  <2>1. Ending(t) # {}
    BY <1>1, <1>4, FS_EmptySet DEF Counted
  <2> QED
    BY <2>1 DEF Ending
<1> QED
  BY <1>2, <1>3, <1>4 DEF EndsCounted

LEMMA EndCountsNext == IInv' => EndsCounted'
BY EndCounts, PTL

\* The call is not of a sign-out, or one that goes on inside the lock.
EndsOn(c) ==
    \/ call[c].op # "end" /\ call'[c].op # "end"
    \/ /\ Holds(c) /\ call'[c].pc # "wait" /\ call[c].op = "end" /\ call'[c].op = "end"
       /\ call'[c].tab = call[c].tab /\ call'[c].captured = call[c].captured

\* What is under way stays in order when one tab adopts and one call goes on.
LEMMA OrderFollows ==
    ASSUME IInv, IInv', Order, NEW c, NEW t, NEW moved \in BOOLEAN,
           Beside(c, t, moved), Adopts(t, moved), InFlight',
           \/ unheard' = unheard
           \/ t \in Tabs /\ unheard' = unheard \ {t} /\ env' = [env EXCEPT ![t] = Adopted(t)],
           c \in Callers => EndsOn(c),
           c \in Callers /\ (call'[c].op = "request" \/ call'[c].pc = "exchange") =>
              ends[call'[c].tab] = 0 /\ env'[call'[c].tab] = stored,
           c \in Callers /\ call'[c].pc = "exchange" => call'[c].current
    PROVE  Order'
<1>1. /\ UNCHANGED <<stored, ends, lineages>>
      /\ \A u \in Tabs : /\ env'[u] \in {env[u], stored}
                         /\ ends[u] # 0 => env'[u] = env[u]
                         /\ env[u] = stored => env'[u] = stored
                         /\ moved /\ u = t => env[u] # stored /\ env'[u] = stored /\ ends[u] = 0
  BY WhatIsAdopted DEF Adopts
<1>2. Heard /\ Last /\ \A d \in Callers : Since(d) /\ Older(d) /\ Exchanging(d) /\ Shaped(d)
  BY DEF Order, IInv
<1>3. \A d \in Callers \ {c} : Same(d) /\ (call'[d].current = call[d].current \/ (moved /\ call[d].tab = t))
  BY DEF Beside
<1>4. Heard'
  <2>1. CASE unheard' = unheard
    BY <1>1, <1>2, <2>1 DEF Heard
  <2>2. CASE t \in Tabs /\ unheard' = unheard \ {t} /\ env' = [env EXCEPT ![t] = Adopted(t)]
    <3>1. env'[t] = stored \/ ends[t] > 0
      <4>1. Typed /\ Newest
        BY DEF IInv
      <4>2. ends[t] \in Nat /\ env'[t] = Adopted(t)
        BY <2>2, <4>1 DEF Typed
      <4> QED
        BY <2>2, <4>1, <4>2, Adopting
    <3> QED
      BY <1>1, <1>2, <2>2, <3>1 DEF Heard
  <2> QED
    BY <2>1, <2>2
<1>5. Last'
  BY <1>1, <1>2 DEF Last
<1>6. ASSUME NEW d \in Callers \ {c}
      PROVE  Since(d)' /\ Older(d)' /\ Exchanging(d)'
  <2>1. Since(d)'
    BY <1>1, <1>2, <1>3 DEF Since, Same
  <2>2. Older(d)'
    <3> SUFFICES ASSUME call[d].op = "request"
                 PROVE  /\ call[d].captured.lineage <= env'[call[d].tab].lineage
                        /\ \A e \in Callers : call'[e].op = "end" /\ call'[e].tab = call[d].tab =>
                              call[d].captured.lineage <= call'[e].captured.lineage
      BY <1>3 DEF Older, Same
    <3>1. call[d].tab \in Tabs
      BY <1>2, BrowserAssumption DEF Shaped
    <3>2. call[d].captured.lineage <= env'[call[d].tab].lineage
      BY <1>1, <1>2, <3>1, Lineages DEF Older, Last
    <3>3. \A e \in Callers : call'[e].op = "end" =>
             call[e].op = "end" /\ call'[e].tab = call[e].tab /\ call'[e].captured = call[e].captured
      BY <1>3 DEF Same, EndsOn
    <3> QED
      BY <1>2, <3>2, <3>3 DEF Older
  <2>3. Exchanging(d)'
    <3> SUFFICES ASSUME call[d].pc = "exchange"
                 PROVE  /\ ends[call[d].tab] = 0 => env'[call[d].tab] = stored
                        /\ \/ call'[d].current
                           \/ \E e \in Callers : /\ Cleans(e)' /\ call'[e].tab = call[d].tab
                                                 /\ call'[e].captured = stored
      BY <1>1, <1>3 DEF Exchanging, Same
    <3>1. call[d].tab \in Tabs
      BY <1>2 DEF Shaped
    <3>2. ends[call[d].tab] = 0 => env'[call[d].tab] = stored
      BY <1>1, <1>2, <3>1 DEF Exchanging
    <3>3. CASE call[d].current
      <4>1. ~(moved /\ call[d].tab = t)
        BY <1>1, <1>2, <3>1 DEF Exchanging
      <4> QED
        BY <1>3, <3>2, <3>3, <4>1
    <3>4. CASE ~call[d].current
      <4>1. PICK e \in Callers : Cleans(e) /\ call[e].tab = call[d].tab /\ call[e].captured = stored
        BY <1>2, <3>4 DEF Exchanging
      <4>2. e # c
        BY <4>1 DEF Cleans, EndsOn, Holds
      <4> QED
        BY <1>3, <3>2, <4>1, <4>2 DEF Cleans, Same
    <3> QED
      BY <3>3, <3>4
  <2> QED
    BY <2>1, <2>2, <2>3
<1>7. ASSUME c \in Callers
      PROVE  Since(c)' /\ Older(c)' /\ Exchanging(c)'
  <2>1. Since(c)'
    BY <1>1, <1>2, <1>7 DEF Since, EndsOn
  <2>2. Older(c)'
    <3> SUFFICES ASSUME call'[c].op = "request"
                 PROVE  /\ call'[c].captured.lineage <= env'[call'[c].tab].lineage
                        /\ \A e \in Callers : call'[e].op = "end" => call'[e].tab # call'[c].tab
      BY DEF Older
    <3>1. ends'[call'[c].tab] = 0 /\ env'[call'[c].tab] = stored
      BY <1>1, <1>7
    <3>2. call'[c].captured.lineage <= lineages'
      <4>2. (Typed /\ Kin /\ Shaped(c))'
        BY <1>7 DEF IInv
      <4>3. call'[c].captured # None
        BY <4>2 DEF Shaped
      <4>4. call'[c].captured \in Envelopes'
        BY <1>7, <4>3 DEF Envelopes
      <4> QED
        BY <4>2, <4>4 DEF Kin
    <3>3. \A e \in Callers : call'[e].op = "end" => ends'[call'[e].tab] > 0
      BY EndCountsNext DEF EndsCounted
    <3> QED
      BY <1>1, <1>2, <3>1, <3>2, <3>3 DEF Last
  <2>3. Exchanging(c)'
    BY <1>1, <1>7 DEF Exchanging
  <2> QED
    BY <2>1, <2>2, <2>3
<1> QED
  BY <1>4, <1>5, <1>6, <1>7 DEF Order

\* So does what the requests have to fear of the age of tokens.
LEMMA RipenessFollows ==
    ASSUME IInv, IInv', Ripeness, NEW c, NEW t, NEW moved \in BOOLEAN,
           Beside(c, t, moved), Adopts(t, moved), ServerRests,
           c \in Callers =>
              /\ EndsOn(c)
              /\ call'[c].op = "request" =>
                    /\ ends[call'[c].tab] = 0 /\ env'[call'[c].tab] = stored
                    /\ call'[c].pc # "retry" =>
                          call'[c].current \/ (Young /\ call'[c].pc # "data")
              /\ call'[c].pc = "retry" => call'[c].token = stored.token /\ Young
              /\ call'[c].pc = "relogout" => call'[c].token.n > aged[call'[c].token.session]
    PROVE  Ripeness'
<1>1. /\ UNCHANGED <<stored, ends, lineages>>
      /\ \A u \in Tabs : /\ env'[u] \in {env[u], stored}
                         /\ ends[u] # 0 => env'[u] = env[u]
                         /\ env[u] = stored => env'[u] = stored
                         /\ moved /\ u = t => env[u] # stored /\ env'[u] = stored /\ ends[u] = 0
  BY WhatIsAdopted DEF Adopts
<1>2. RipeTabs /\ \A d \in Callers : Ripe(d) /\ Shaped(d)
  BY DEF Ripeness, IInv
<1>3. \A d \in Callers \ {c} : Same(d) /\ (call'[d].current = call[d].current \/ (moved /\ call[d].tab = t))
  BY DEF Beside
<1>4. Young' = Young
  BY <1>1 DEF Young, ServerRests
<1>5. RipeTabs'
  BY <1>1, <1>2, <1>4, EndCounts DEF RipeTabs, EndsCounted
<1>6. ASSUME NEW d \in Callers \ {c} PROVE Ripe(d)'
  <2>1. Ripe(d) /\ Shaped(d) /\ Same(d)
    BY <1>2, <1>3
  <2>2. ASSUME Overtaken(d)' PROVE Overtaken(d)
    <3>1. /\ call[d].op = "request" /\ call[d].pc \in {"data", "wait", "refresh"}
          /\ ends[call[d].tab] = 0 /\ stored.lineage = call[d].captured.lineage
          /\ ~(call'[d].current /\ env'[call[d].tab] = stored)
      BY <1>1, <2>1, <2>2 DEF Overtaken, Same
    <3>2. call[d].tab \in Tabs
      BY <2>1, <3>1 DEF Shaped
    <3>3. ~(call[d].current /\ env[call[d].tab] = stored)
      BY <1>1, <1>3, <3>1, <3>2
    <3> QED
      BY <3>1, <3>3 DEF Overtaken
  <2>3. (Overtaken(d) => Young)' /\ (Overtaken(d)' /\ call'[d].pc = "data" => NewerThan(stored.token, call[d].token))
    BY <1>4, <2>1, <2>2 DEF Ripe, Same
  <2> QED
    BY <1>1, <1>4, <2>1, <2>3 DEF Ripe, Same, NewerThan, Holds, ServerRests
<1>7. ASSUME c \in Callers PROVE Ripe(c)'
  <2>1. Ripe(c) /\ EndsOn(c)
    BY <1>2, <1>7
  <2>2. Overtaken(c)' => Young' /\ call'[c].pc # "data"
    BY <1>1, <1>4, <1>7 DEF Overtaken
  <2>3. (call[c].op = "end" /\ call[c].captured.revision < stored.revision => Young)'
    BY <1>1, <1>4, <2>1 DEF Ripe, EndsOn
  <2>4. (call[c].op = "end" /\ Holds(c) => stored.token = None)'
    BY <1>1, <2>1 DEF Ripe, EndsOn
  <2> QED
    BY <1>1, <1>4, <1>7, <2>2, <2>3, <2>4 DEF Ripe, ServerRests
<1> QED
  BY <1>5, <1>6, <1>7 DEF Ripeness

\* The cookie stays with whom it belongs to, where no sign-out goes on.
LEMMA CookieFollows ==
    ASSUME IInv, Faultless, NEW c, \A d \in Callers \ {c} : Same(d),
           UNCHANGED <<stored, faults, replays>>, ServerRests,
           c \in Callers => call[c].op # "end",
           \/ cookie' = None
           \/ cookie' = cookie /\ (c \in Callers => call[c].pc # "refresh" \/ call[c].reply # "ok")
           \/ /\ c \in Callers /\ call[c].pc = "refresh" /\ call[c].reply = "ok"
              /\ cookie' = call[c].token /\ Fresh(c)
    PROVE  Faultless'
<1> SUFFICES ASSUME faults = 0, CookieLives' PROVE Unspent' /\ Paired'
  BY DEF Faultless, Unspent, Paired
<1>1. Unspent /\ Paired
  BY DEF Faultless
<1>2. CookieLives /\ cookie'.session = cookie.session
  BY DEF CookieLives, ServerRests, IInv, Signed
<1>3. \A d \in Callers \ {c} : Same(d)
  OBVIOUS
<1>4. Unspent'
  BY <1>1, <1>2, <1>3 DEF Unspent, Fresh, Same, ServerRests, CookieLives
<1>5. CASE Persists
  BY <1>2, <1>4, <1>5 DEF Paired, Persists
<1>6. CASE Awaited
  <2>1. PICK e \in Callers : Cleans(e) /\ ~OtherMember(call[e].captured.token, stored.token)
    BY <1>6 DEF Awaited
  <2>2. e # c
    BY <2>1 DEF Cleans
  <2>3. Cleans(e)' /\ ~OtherMember(call[e].captured.token, stored.token)'
    BY <1>3, <2>1, <2>2 DEF Cleans, Same, OtherMember, Owner, ServerRests
  <2> QED
    BY <1>4, <2>3 DEF Paired, Awaited
<1>7. CASE \E e \in Callers : Dooms(e)
  <2>1. PICK e \in Callers : Dooms(e)
    BY <1>7
  <2>2. e # c
    BY <2>1 DEF Dooms
  <2>3. Dooms(e)'
    BY <1>2, <1>3, <2>1, <2>2 DEF Dooms, Same, Holds, Owner, ServerRests
  <2> QED
    BY <1>4, <2>3 DEF Paired
<1> QED
  BY <1>1, <1>2, <1>5, <1>6, <1>7 DEF Paired

LEMMA InFlightKept ==
    ASSUME InFlight, NEW c, \A d \in Callers \ {c} : Same(d), exchanges' = exchanges,
           c \in Callers => call[c].pc # "exchange" /\ call'[c].pc # "exchange"
    PROVE  InFlight'
<1>1. \A t \in Tabs : Exchanges(t)' = Exchanges(t)
  BY DEF Exchanges, Same
<1> QED
  BY <1>1 DEF InFlight

\* A step in which the tab adopts and a call, not of a sign-out, goes on.
LEMMA Onwards ==
    ASSUME IInv, IInv', AInv, NEW c \in Callers, NEW t \in Tabs, NEW next \in Call,
           Goes(c, next, t, Moves(t)), env' = [env EXCEPT ![t] = Adopted(t)],
           UNCHANGED <<stored, ends, lineages, unheard>>, ServerRests,
           (call[c].pc # "exchange" /\ next.pc # "exchange" /\ exchanges' = exchanges) \/ InFlight',
           call[c].op # "end", next.op # "end", next.reply = None,
           next.token \in {None, stored.token, call[c].token},
           next.op = "request" \/ next.pc = "exchange" => next.tab = t /\ ends[t] = 0,
           next.pc = "data" => next.token = stored.token,
           next.pc = "exchange" => next.current,
           next.op = "request" /\ next.pc # "retry" => next.current \/ (Young /\ next.pc # "data"),
           next.pc = "retry" => next.token = stored.token /\ Young,
           cookie' \in {None, cookie, call[c].token}
    PROVE  Order' /\ Numbers' /\ Ripeness' /\ call'[c] = next /\ \A d \in Callers \ {c} : Same(d)
<1>1. Typed /\ Newest /\ (\A d \in Callers : Shaped(d))'
  BY DEF IInv
<1>2. call'[c] = next /\ Beside(c, t, Moves(t))
  <2>1. Moves(t) \in BOOLEAN
    BY DEF Moves
  <2> QED
    BY <1>1, <2>1, Going DEF Beside
<1>3. \A d \in Callers \ {c} : Same(d)
  BY <1>2 DEF Beside
<1>4. Adopts(t, Moves(t)) /\ Moves(t) \in BOOLEAN
  BY DEF Adopts, Moves
<1>5. ends[t] = 0 => env'[t] = stored
  BY <1>1, Adopting DEF Typed
<1>6. InFlight'
  BY <1>2, <1>3, InFlightKept DEF AInv, Order
<1>7. EndsOn(c)
  BY <1>2 DEF EndsOn
<1>8. Order'
  BY <1>2, <1>4, <1>5, <1>6, <1>7, OrderFollows DEF AInv
<1>9. Numbers'
  BY <1>2, <1>3, NumbersFollow DEF AInv
<1>10. (call[c].pc = "retry" => call[c].op = "request")' /\ (call[c].pc = "relogout" => call[c].op = "end")'
  BY <1>1 DEF Shaped
<1>11. Ripeness'
  BY <1>2, <1>4, <1>5, <1>7, <1>10, RipenessFollows DEF AInv
<1> QED
  BY <1>2, <1>3, <1>8, <1>9, <1>11

\* A call is dropped, and its tab has adopted.
LEMMA DropsOut ==
    ASSUME IInv, IInv', AInv, NEW c \in Callers, call[c].pc # "idle", call[c].op # "end",
           AdoptsAndGoes(c, Idle), ends' = ends, ServerRests,
           (call[c].pc # "exchange" /\ exchanges' = exchanges) \/ InFlight',
           cookie' \in {None, cookie, call[c].token}
    PROVE  Order' /\ Numbers' /\ Ripeness' /\ call'[c] = Idle /\ \A d \in Callers \ {c} : Same(d)
<1>1. call[c].tab \in Tabs
  BY DEF IInv, Shaped
<1> QED
  BY <1>1, Quiet, Onwards, BrowserAssumption DEF AdoptsAndGoes

\* What becomes of the cookie.
LEMMA CookieTakenBy ==
    ASSUME NEW c \in Callers, TakesCookie(c)
    PROVE  /\ cookie' \in {None, cookie, call[c].token}
           /\ call[c].pc = "refresh" /\ call[c].reply = "ok" => cookie' = call[c].token
           /\ call[c].pc = "refresh" /\ call[c].reply = "401" => cookie' = None
           /\ call[c].pc = "refresh" /\ call[c].reply = "lost" => cookie' = cookie
           /\ call[c].pc = "exchange" /\ call[c].reply = "ok" => cookie' = call[c].token
           /\ call[c].pc = "exchange" /\ call[c].reply # "ok" => cookie' = cookie
           /\ call[c].pc \in {"logout", "relogout"} =>
                 cookie' = IF call[c].reply = "ok" THEN None ELSE cookie
BY DEF TakesCookie

-----------------------------------------------------------------------------
(* The steps of a request that persist nothing. *)

LEMMA RequestSettles ==
    ASSUME IInv, IInv', AInv, NEW c \in Callers, NEW t \in Tabs, Request(c, t)
    PROVE  AInv'
<1> DEFINE new == [Idle EXCEPT !.tab = t, !.op = "request", !.pc = "data", !.captured = env[t],
                               !.current = TRUE, !.token = Adopted(t).token]
           next == IF Departed(t, env[t]) THEN Idle ELSE new
<1>1. Typed /\ Newest /\ call[c] = Idle
  BY DEF IInv, Request
<1>2. Adopted(t) \in Envelope /\ (ends[t] = 0 => Adopted(t) = stored) /\ env[t] \in Envelope
  BY <1>1, Adopting DEF Typed
<1>3. /\ new \in Call /\ new.tab = t /\ new.op = "request" /\ new.pc = "data" /\ new.current
      /\ new.token = Adopted(t).token /\ new.reply = None
  BY <1>2, Quiet, EnvelopeFields DEF Idle, Call, Ops, Pcs
<1>4. /\ Goes(c, next, t, Moves(t)) /\ env' = [env EXCEPT ![t] = Adopted(t)]
      /\ UNCHANGED <<stored, ends, exchanges, unheard, lineages, cookie, faults, replays>> /\ ServerRests
  BY DEF Request, server, history, ServerRests
<1> HIDE DEF new
<1>5. /\ next \in Call /\ next.op # "end" /\ next.pc # "exchange" /\ next.reply = None
      /\ next.token \in {None, stored.token} /\ next.pc # "retry"
      /\ next.op = "request" => next = new /\ ends[t] = 0
      /\ next.pc = "data" => next = new /\ ends[t] = 0
  <2>1. CASE Departed(t, env[t])
    BY <2>1, Quiet, BrowserAssumption
  <2>2. CASE ~Departed(t, env[t])
    BY <1>1, <1>2, <1>3, <2>2, NotDeparted
  <2> QED
    BY <2>1, <2>2
<1> HIDE DEF next
<1>6. call[c].pc # "exchange" /\ call[c].op # "end"
  BY <1>1, Quiet, BrowserAssumption
<1>7. Order' /\ Numbers' /\ Ripeness' /\ call'[c] = next /\ \A d \in Callers \ {c} : Same(d)
  BY <1>2, <1>3, <1>4, <1>5, <1>6, Onwards
<1>8. Faultless'
  BY <1>1, <1>4, <1>5, <1>6, <1>7, Quiet, CookieFollows DEF AInv
<1> QED
  BY <1>7, <1>8 DEF AInv

LEMMA AnswersSettle ==
    ASSUME IInv, IInv', AInv, NEW c \in Callers,
           DropData(c) \/ AnswerData(c) \/ DropRetry(c) \/ AnswerRetry(c)
    PROVE  AInv'
<1>1. /\ call[c].pc \in {"data", "retry"} /\ AdoptsAndGoes(c, Idle)
      /\ UNCHANGED <<stored, ends, exchanges, cookie, faults, replays>> /\ ServerRests
  BY DEF DropData, AnswerData, DropRetry, AnswerRetry, server, history, ServerRests, AdoptsAndGoes
<1>2. call[c].op = "request"
  BY <1>1 DEF IInv, Shaped
<1>3. Order' /\ Numbers' /\ Ripeness' /\ call'[c] = Idle /\ \A d \in Callers \ {c} : Same(d)
  BY <1>1, <1>2, DropsOut
<1>4. Faultless'
  BY <1>1, <1>2, <1>3, Quiet, CookieFollows, BrowserAssumption DEF AInv
<1> QED
  BY <1>3, <1>4 DEF AInv

\* A call is sent anew, as of a generation.
LEMMA SendingAs ==
    ASSUME Typed, NEW c \in Callers, NEW pc \in Pcs, NEW token \in Token \cup {None},
           NEW current \in BOOLEAN
    PROVE  LET next == [Sends(c, pc, token) EXCEPT !.current = current]
           IN /\ next \in Call /\ next.pc = pc /\ next.token = token /\ next.reply = None
              /\ next.tab = call[c].tab /\ next.op = call[c].op /\ next.current = current
              /\ next.captured = call[c].captured
<1> DEFINE s == Sends(c, pc, token)
<1>1. /\ s \in Call /\ s.pc = pc /\ s.token = token /\ s.reply = None /\ s.tab = call[c].tab
      /\ s.op = call[c].op /\ s.captured = call[c].captured
  BY Sending
<1> HIDE DEF s
<1>2. LET next == [s EXCEPT !.current = current]
      IN /\ next \in Call /\ next.pc = pc /\ next.token = token /\ next.reply = None
         /\ next.tab = call[c].tab /\ next.op = call[c].op /\ next.current = current
         /\ next.captured = call[c].captured
  BY <1>1 DEF Call
<1> QED
  BY <1>2 DEF s

\* A request that is not current, though of the lineage persisted, is overtaken.
LEMMA NotCurrent ==
    ASSUME IInv, Ripeness, NEW c \in Callers, call[c].op = "request",
           call[c].pc \in {"data", "wait", "refresh"},
           ~Departed(call[c].tab, call[c].captured), ~Current(c)
    PROVE  Young
<1> DEFINE t == call[c].tab
<1>1. Typed /\ Newest /\ Shaped(c)
  BY DEF IInv
<1>2. t \in Tabs
  BY <1>1 DEF Shaped
<1>3. ends[t] = 0 /\ Adopted(t) = stored /\ stored.lineage = call[c].captured.lineage
  BY <1>1, <1>2, NotDeparted, Adopting
<1>4. ~(call[c].current /\ env[t] = stored)
  BY <1>3 DEF Current, Moves
<1>5. Overtaken(c)
  BY <1>3, <1>4 DEF Overtaken
<1> QED
  BY <1>5 DEF Ripeness, Ripe

LEMMA AwaitRefreshSettles ==
    ASSUME IInv, IInv', AInv, NEW c \in Callers, AwaitRefresh(c)
    PROVE  AInv'
<1> DEFINE next == [Sends(c, "wait", None) EXCEPT !.current = Current(c)]
           t == call[c].tab
<1>1. Typed /\ Newest /\ Shaped(c)
  BY DEF IInv
<1>2. /\ call[c].pc = "data" /\ AdoptsAndGoes(c, next) /\ ~Departed(t, call[c].captured)
      /\ UNCHANGED <<stored, ends, exchanges, cookie, faults, replays>> /\ ServerRests
  BY DEF AwaitRefresh, server, history, ServerRests, AdoptsAndGoes
<1>3. call[c].op = "request" /\ t \in Tabs /\ Current(c) \in BOOLEAN
  BY <1>1, <1>2, CallFields DEF Shaped, Current, Typed
<1>4. /\ next \in Call /\ next.pc = "wait" /\ next.token = None /\ next.reply = None /\ next.tab = t
      /\ next.op = "request" /\ next.current = Current(c)
  <2>1. "wait" \in Pcs
    BY DEF Pcs
  <2> QED
    BY <1>1, <1>3, <2>1, SendingAs
<1>5. ends[t] = 0
  BY <1>1, <1>2, <1>3, NotDeparted
<1>6. Current(c) \/ Young
  BY <1>2, <1>3, NotCurrent DEF AInv
<1> HIDE DEF next
<1>7. Order' /\ Numbers' /\ Ripeness' /\ call'[c] = next /\ \A d \in Callers \ {c} : Same(d)
  BY <1>2, <1>3, <1>4, <1>5, <1>6, Onwards DEF AdoptsAndGoes
<1>8. Faultless'
  BY <1>2, <1>3, <1>4, <1>7, CookieFollows DEF AInv
<1> QED
  BY <1>7, <1>8 DEF AInv

\* The second attempt is with what is persisted, which has not expired.
LEMMA RetryAdoptedSettles ==
    ASSUME IInv, IInv', AInv, NEW c \in Callers, call[c].op = "request",
           call[c].pc \in {"wait", "refresh"}, ~Current(c), RetryAdopted(c),
           UNCHANGED <<ends, exchanges>>, ServerRests,
           cookie' \in {None, cookie, call[c].token}
    PROVE  Order' /\ Numbers' /\ Ripeness' /\ call'[c].op # "end" /\ stored' = stored
           /\ \A d \in Callers \ {c} : Same(d)
<1> DEFINE t == call[c].tab
<1>1. Typed /\ Newest /\ Shaped(c)
  BY DEF IInv
<1>2. t \in Tabs
  BY <1>1 DEF Shaped
<1>3. CASE ~Retriable(c)
  <2>1. AdoptsAndGoes(c, Idle)
    BY <1>3 DEF RetryAdopted
  <2> QED
    BY <2>1, DropsOut, Quiet, BrowserAssumption DEF AdoptsAndGoes
<1>4. CASE Retriable(c)
  <2> DEFINE next == [Sends(c, "retry", Adopted(t).token) EXCEPT !.captured = Adopted(t), !.current = TRUE]
  <2>1. ~Departed(t, call[c].captured) /\ AdoptsAndGoes(c, next)
    BY <1>4 DEF RetryAdopted, Retriable
  <2>2. /\ Adopted(t) \in Envelope /\ Adopted(t) = stored /\ ends[t] = 0
        /\ Adopted(t).token \in Token \cup {None}
    BY <1>1, <1>2, <2>1, Adopting, NotDeparted, EnvelopeFields
  <2>3. /\ next \in Call /\ next.pc = "retry" /\ next.token = Adopted(t).token /\ next.reply = None
        /\ next.tab = t /\ next.op = "request" /\ next.current
    <3> DEFINE s == Sends(c, "retry", Adopted(t).token)
    <3>1. /\ s \in Call /\ s.pc = "retry" /\ s.token = Adopted(t).token /\ s.reply = None
          /\ s.tab = t /\ s.op = "request"
      BY <1>1, <2>2, Sending DEF Pcs
    <3> HIDE DEF s
    <3>2. next = [s EXCEPT !.captured = Adopted(t), !.current = TRUE]
      BY DEF s
    <3> QED
      BY <2>2, <3>1, <3>2 DEF Call
  <2>4. Young
    BY <2>1, NotCurrent DEF AInv
  <2> HIDE DEF next
  <2>5. Goes(c, next, t, Moves(t)) /\ env' = [env EXCEPT ![t] = Adopted(t)] /\ UNCHANGED <<stored, unheard, lineages>>
    BY <2>1 DEF AdoptsAndGoes
  <2> QED
    BY <1>2, <2>2, <2>3, <2>4, <2>5, Onwards
<1> QED
  BY <1>3, <1>4

LEMMA LockedRefreshSettles ==
    ASSUME IInv, IInv', AInv, NEW c \in Callers, LockedRefresh(c)
    PROVE  AInv'
<1> DEFINE t == call[c].tab
           next == Sends(c, "refresh", None)
<1>1. Typed /\ Newest /\ Shaped(c)
  BY DEF IInv
<1>2. /\ call[c].pc = "wait" /\ call[c].op = "request" /\ ServerRests
      /\ UNCHANGED <<ends, exchanges, cookie, faults, replays>>
  BY DEF LockedRefresh, HasLock, server, history, ServerRests
<1>3. t \in Tabs
  BY <1>1, <1>2 DEF Shaped
<1>4. Order' /\ Numbers' /\ Ripeness' /\ call'[c].op # "end" /\ stored' = stored
      /\ \A d \in Callers \ {c} : Same(d)
  <2>1. CASE AdoptsAndGoes(c, Idle)
    BY <1>2, <2>1, DropsOut, Quiet, BrowserAssumption DEF AdoptsAndGoes
  <2>2. CASE ~Current(c) /\ RetryAdopted(c)
    BY <1>2, <2>2, RetryAdoptedSettles
  <2>3. CASE Current(c) /\ AdoptsAndGoes(c, next)
    <3>1. /\ next \in Call /\ next.pc = "refresh" /\ next.token = None /\ next.reply = None /\ next.tab = t
          /\ next.op = "request" /\ next.current
      BY <1>1, <1>2, <2>3, Sending, CurrentIsPersisted DEF Pcs
    <3>2. ends[t] = 0
      BY <2>3, CurrentIsPersisted
    <3> HIDE DEF next
    <3> QED
      BY <1>2, <1>3, <2>3, <3>1, <3>2, Onwards DEF AdoptsAndGoes
  <2> QED
    BY <2>1, <2>2, <2>3 DEF LockedRefresh
<1>5. Faultless'
  BY <1>2, <1>4, CookieFollows DEF AInv
<1> QED
  BY <1>4, <1>5 DEF AInv

-----------------------------------------------------------------------------
(* A sign-in, until it is answered. *)

LEMMA InFlightUp ==
    ASSUME Typed, InFlight, NEW c \in Callers, NEW t \in Tabs,
           \A d \in Callers \ {c} : ~Holds(d) /\ Same(d), call[c].pc = "wait",
           call'[c].pc = "exchange", call'[c].tab = t, exchanges' = [exchanges EXCEPT ![t] = @ + 1]
    PROVE  InFlight'
<1>1. \A u \in Tabs : ~Exchanges(u) /\ (Exchanges(u)' <=> u = t)
  BY DEF Exchanges, Holds, Same
<1>2. exchanges \in [Tabs -> Int]
  BY DEF Typed
<1> QED
  BY <1>1, <1>2 DEF InFlight

LEMMA InFlightDown ==
    ASSUME Typed, InFlight, NEW c \in Callers, call[c].tab \in Tabs,
           \A d \in Callers \ {c} : ~Holds(d) /\ Same(d), call[c].pc = "exchange",
           call'[c].pc = "idle", exchanges' = [exchanges EXCEPT ![call[c].tab] = @ - 1]
    PROVE  InFlight'
<1>1. \A u \in Tabs : ~Exchanges(u)' /\ (Exchanges(u) <=> u = call[c].tab)
  BY DEF Exchanges, Holds, Same
<1>2. exchanges \in [Tabs -> Int]
  BY DEF Typed
<1> QED
  BY <1>1, <1>2 DEF InFlight

\* Who has or is given the lock holds it alone.
LEMMA Alone ==
    ASSUME IInv, NEW c \in Callers, Holds(c) \/ (call[c].pc = "wait" /\ ahead[c] = {})
    PROVE  \A d \in Callers \ {c} : ~Holds(d)
<1>1. Locked /\ InLine(c) /\ ahead[c] = {}
  BY DEF IInv, Locked, Holds, InLine
<1> QED
  BY <1>1, HoldsAlone

LEMMA CompleteSettles ==
    ASSUME IInv, IInv', AInv, Apart', NEW c \in Callers, NEW t \in Tabs, Complete(c, t)
    PROVE  AInv'
<1> DEFINE next == [Idle EXCEPT !.tab = t, !.op = "complete", !.pc = "wait", !.current = TRUE,
                                !.waits = ends[t] > 0]
<1>1. Typed /\ call[c] = Idle
  BY DEF IInv, Complete
<1>2. /\ Goes(c, next, t, FALSE) /\ env' = env /\ ServerRests
      /\ UNCHANGED <<stored, ends, exchanges, unheard, lineages, cookie, faults, replays>>
  BY DEF Complete, server, history, ServerRests
<1>3. (ends[t] > 0) \in BOOLEAN
  BY <1>1 DEF Typed
<1>4. next \in Call /\ next.op = "complete" /\ next.pc = "wait" /\ next.token = None /\ next.reply = None
  BY <1>3 DEF Idle, Call, Ops, Pcs
<1> HIDE DEF next
<1>5. call'[c] = next /\ Beside(c, t, FALSE)
  BY <1>1, <1>2, <1>4, Going DEF Beside
<1>6. \A d \in Callers \ {c} : Same(d)
  BY <1>5 DEF Beside
<1>7. call[c].op # "end" /\ call[c].pc # "exchange" /\ call[c].pc # "refresh"
  BY <1>1, Quiet, BrowserAssumption
<1>8. EndsOn(c)
  BY <1>4, <1>5, <1>7 DEF EndsOn
<1>9. Adopts(t, FALSE)
  BY <1>2 DEF Adopts
<1>10. InFlight'
  BY <1>2, <1>4, <1>5, <1>6, <1>7, InFlightKept DEF AInv, Order
<1>11. Order'
  BY <1>2, <1>4, <1>5, <1>8, <1>9, <1>10, OrderFollows DEF AInv
<1>12. Numbers'
  BY <1>2, <1>4, <1>5, <1>6, NumbersFollow DEF AInv
<1>13. Ripeness'
  BY <1>2, <1>4, <1>5, <1>8, <1>9, RipenessFollows DEF AInv
<1>14. Faultless'
  BY <1>2, <1>4, <1>5, <1>6, <1>7, CookieFollows DEF AInv
<1> QED
  BY <1>11, <1>12, <1>13, <1>14 DEF AInv

LEMMA LockedCompleteSettles ==
    ASSUME IInv, IInv', AInv, Apart, NEW c \in Callers, LockedComplete(c)
    PROVE  AInv'
<1> DEFINE t == call[c].tab
           next == [Sends(c, "exchange", None) EXCEPT !.current = TRUE]
<1>1. Typed /\ Newest /\ Shaped(c)
  BY DEF IInv
<1>2. /\ call[c].pc = "wait" /\ ahead[c] = {} /\ call[c].op = "complete" /\ ServerRests
      /\ UNCHANGED <<ends, cookie, faults, replays>>
  BY DEF LockedComplete, HasLock, server, history, ServerRests
<1>3. t \in Tabs
  BY <1>1, <1>2 DEF Shaped
<1>4. Order' /\ Numbers' /\ Ripeness' /\ call'[c].op # "end" /\ stored' = stored
      /\ \A d \in Callers \ {c} : Same(d)
  <2>1. CASE AdoptsAndGoes(c, Idle) /\ exchanges' = exchanges
    BY <1>2, <2>1, DropsOut, Quiet, BrowserAssumption DEF AdoptsAndGoes
  <2>2. CASE Current(c) /\ AdoptsAndGoes(c, next) /\ exchanges' = [exchanges EXCEPT ![t] = @ + 1]
    <3>1. /\ next \in Call /\ next.pc = "exchange" /\ next.token = None /\ next.reply = None /\ next.tab = t
          /\ next.op = "complete" /\ next.current
      <4> DEFINE s == Sends(c, "exchange", None)
      <4>1. s \in Call /\ s.pc = "exchange" /\ s.token = None /\ s.reply = None /\ s.tab = t /\ s.op = "complete"
        BY <1>1, <1>2, Sending DEF Pcs
      <4> HIDE DEF s
      <4>2. next = [s EXCEPT !.current = TRUE]
        BY DEF s
      <4> QED
        BY <4>1, <4>2 DEF Call
    <3>2. ends[t] = 0
      BY <2>2, CurrentIsPersisted
    <3> HIDE DEF next
    <3>3. Goes(c, next, t, Moves(t)) /\ env' = [env EXCEPT ![t] = Adopted(t)] /\ UNCHANGED <<stored, unheard, lineages>>
      BY <2>2 DEF AdoptsAndGoes
    <3>4. call'[c] = next /\ \A d \in Callers \ {c} : Same(d)
      BY <1>1, <3>1, <3>3, Going DEF Moves
    <3>5. InFlight'
      BY <1>1, <1>2, <1>3, <2>2, <3>1, <3>4, Alone, InFlightUp DEF AInv, Order
    <3> QED
      BY <1>2, <1>3, <3>1, <3>2, <3>3, <3>5, Onwards
  <2> QED
    BY <2>1, <2>2 DEF LockedComplete, Apart
<1>5. Faultless'
  BY <1>2, <1>4, CookieFollows DEF AInv
<1> QED
  BY <1>4, <1>5 DEF AInv

\* A sign-in that was retired is ended by the sign-out that retired it.
LEMMA RetiredSettles ==
    ASSUME IInv, IInv', AInv, NEW c \in Callers, call[c].pc = "exchange", call[c].reply # None,
           TakesCookie(c), ~Current(c) \/ call[c].reply = "lost", AdoptsAndGoes(c, Idle),
           exchanges' = [exchanges EXCEPT ![call[c].tab] = @ - 1],
           UNCHANGED <<ends, faults, replays>>, ServerRests
    PROVE  AInv'
<1> DEFINE t == call[c].tab
<1>1. Typed /\ Newest /\ Shaped(c)
  BY DEF IInv
<1>2. t \in Tabs /\ call[c].op = "complete"
  BY <1>1 DEF Shaped
<1>3. call'[c] = Idle /\ \A d \in Callers \ {c} : Same(d)
  BY <1>1, Quiet, Going DEF AdoptsAndGoes, Moves
<1>4. InFlight'
  <2>1. \A d \in Callers \ {c} : ~Holds(d)
    BY Alone DEF Holds
  <2> QED
    BY <1>1, <1>2, <1>3, <2>1, Quiet, InFlightDown DEF AInv, Order
<1>5. Order' /\ Numbers' /\ Ripeness'
  BY <1>2, <1>4, DropsOut, CookieTakenBy
<1>6. Faultless'
  <2>1. CASE call[c].reply # "ok"
    <3>1. cookie' = cookie /\ stored' = stored
      BY <2>1, CookieTakenBy DEF AdoptsAndGoes
    <3> QED
      BY <1>2, <1>3, <3>1, Quiet, CookieFollows, BrowserAssumption DEF AInv
  <2>2. CASE call[c].reply = "ok"
    <3>1. cookie' = call[c].token /\ stored' = stored /\ Fresh(c) /\ Exchanging(c)
      BY <2>2, CookieTakenBy DEF AdoptsAndGoes, AInv, Order, Numbers
    <3>2. Moves(t) \/ ~call[c].current
      BY <2>2 DEF Current
    <3>3. ~call[c].current
      BY <1>1, <1>2, <3>1, <3>2, Adopting DEF Exchanging, Moves
    <3>4. PICK e \in Callers : Cleans(e) /\ call[e].captured = stored
      BY <3>1, <3>3 DEF Exchanging
    <3>5. e # c /\ Same(e)
      BY <1>2, <1>3, <3>4 DEF Cleans
    <3>6. Cleans(e)' /\ call'[e].captured = stored'
      BY <3>1, <3>4, <3>5 DEF Cleans, Same
    <3>7. Awaited'
      BY <3>6 DEF Awaited, OtherMember
    <3>8. Unspent'
      BY <2>2, <3>1 DEF Unspent, Fresh, ServerRests
    <3> QED
      BY <3>7, <3>8 DEF AInv, Faultless, Paired
  <2> QED
    BY <2>1, <2>2
<1> QED
  BY <1>5, <1>6 DEF AInv

LEMMA HearSettles ==
    ASSUME IInv, IInv', AInv, NEW t \in Tabs, Hear(t)
    PROVE  AInv'
<1>1. Typed
  BY DEF IInv
<1>2. /\ Goes(None, Idle, t, Moves(t)) /\ env' = [env EXCEPT ![t] = Adopted(t)] /\ ServerRests
      /\ UNCHANGED <<stored, ends, exchanges, lineages, cookie, faults, replays>>
      /\ unheard' = unheard \ {t}
  BY DEF Hear, server, history, ServerRests
<1>3. None \notin Callers /\ Moves(t) \in BOOLEAN
  BY BrowserAssumption DEF Moves
<1>4. Beside(None, t, Moves(t))
  BY <1>1, <1>2, <1>3, Quiet, Going DEF Beside
<1>5. \A d \in Callers \ {None} : Same(d)
  BY <1>4 DEF Beside
<1>6. Adopts(t, Moves(t))
  BY <1>2 DEF Adopts
<1>7. InFlight'
  BY <1>2, <1>3, <1>5, InFlightKept DEF AInv, Order
<1>8. Order'
  BY <1>2, <1>3, <1>4, <1>6, <1>7, OrderFollows DEF AInv
<1>9. Numbers'
  BY <1>2, <1>3, <1>5, NumbersFollow DEF AInv
<1>10. Ripeness'
  BY <1>2, <1>3, <1>4, <1>6, RipenessFollows DEF AInv
<1>11. Faultless'
  BY <1>2, <1>3, <1>5, CookieFollows DEF AInv
<1> QED
  BY <1>8, <1>9, <1>10, <1>11 DEF AInv

-----------------------------------------------------------------------------
(* The steps that persist an envelope. *)

\* What is persisted inside the lock is of the last lineage, and has not
\* expired.
LEMMA Publishing ==
    ASSUME IInv, IInv', AInv, NEW c \in Callers, call[c].tab \in Tabs, \A d \in Callers \ {c} : ~Holds(d),
           NEW lineage, NEW token, NEW next \in Call, NEW base, base = stored.revision,
           Publishes(c, base, lineage, token, next), ServerRests,
           \/ lineage = NewLineage
           \/ /\ lineage = stored.lineage /\ call[c].pc = "refresh" /\ call[c].reply = "ok"
              /\ token = call[c].token,
           token \in {None, call[c].token}, token = None \/ token.n > aged[token.session],
           \A u \in Tabs : ends'[u] = ends[u] \/ u = call[c].tab,
           (call[c].pc # "exchange" /\ exchanges' = exchanges) \/ InFlight',
           \/ next.op # "end"
           \/ /\ call[c].op = "end" /\ next.op = "end" /\ token = None
              /\ next.tab = call[c].tab /\ next.captured = call[c].captured,
           next.op = "request" => /\ call[c].op = "request" /\ next.pc = "retry" /\ next.token = token
                                  /\ next.tab = call[c].tab /\ next.captured = call[c].captured,
           next.pc \notin {"exchange", "relogout", "data"}, next.reply = None,
           next.token \in {None, stored.token, call[c].token},
           cookie' \in {None, cookie, call[c].token}
    PROVE  /\ Order' /\ Numbers' /\ Ripeness' /\ call'[c] = next /\ stored'.token = token
           /\ \A d \in Callers \ {c} : Same(d)
<1> DEFINE t == call[c].tab
<1>1. Typed /\ (\A d \in Callers : Shaped(d)) /\ (\A d \in Callers : Shaped(d))'
  BY DEF IInv
<1>2. /\ stored' = [revision |-> stored.revision + 1, lineage |-> lineage, token |-> token]
      /\ env' = [env EXCEPT ![t] = stored']
      /\ unheard' = (unheard \cup Tabs) \ {t}
      /\ lineages' = IF lineage > lineages THEN lineage ELSE lineages
      /\ Goes(c, next, t, TRUE)
  BY DEF Publishes
<1>3. call'[c] = next /\ \A d \in Callers \ {c} : Same(d) /\ (call[d].tab = t => ~call'[d].current)
  BY <1>1, <1>2, Going
<1>4. stored'.revision = stored.revision + 1 /\ stored'.lineage = lineage /\ stored'.token = token
  BY <1>2
<1>5. /\ lineages \in Nat /\ stored.lineage = lineages /\ stored.revision \in Nat
      /\ lineage \in Nat /\ lineages <= lineage /\ lineages' = lineage
  BY <1>2, Lineages DEF AInv, Order, Last, NewLineage
<1>6. env'[t] = stored' /\ \A u \in Tabs : u # t => env'[u] = env[u] /\ ends'[u] = ends[u]
  BY <1>1, <1>2 DEF Typed
<1>7. \A d \in Callers : Since(d) /\ Older(d) /\ Ripe(d)
  BY DEF AInv, Order, Ripeness
<1>8. Heard' /\ Last'
  BY <1>2, <1>4, <1>5, <1>6 DEF Heard, Last
<1>9. InFlight'
  BY <1>3, InFlightKept DEF AInv, Order
<1>10. \A d \in Callers : call'[d].op = "end" =>
          /\ call[d].op = "end" /\ call'[d].tab = call[d].tab /\ call'[d].captured = call[d].captured
          /\ call[d].captured.revision \in Nat /\ call[d].captured.revision <= stored.revision
  BY <1>3, <1>7, Lineages DEF Same, Since
<1>11. \A d \in Callers : call'[d].op = "request" =>
          /\ call[d].op = "request" /\ call'[d].tab = call[d].tab /\ call'[d].captured = call[d].captured
          /\ call[d].tab \in Tabs /\ call[d].captured.lineage \in Nat
          /\ call[d].captured.lineage <= lineages
  BY <1>1, <1>3, Lineages, BrowserAssumption DEF Same, Shaped
<1>12. \A d \in Callers : call'[d].pc # "exchange"
  BY <1>3 DEF Same, Holds
<1>13. Order'
  <2>1. \A d \in Callers : Since(d)'
    BY <1>4, <1>5, <1>10 DEF Since
  <2>2. \A d \in Callers : Older(d)'
    BY <1>4, <1>5, <1>6, <1>7, <1>10, <1>11 DEF Older
  <2>3. \A d \in Callers : Exchanging(d)'
    BY <1>12 DEF Exchanging
  <2> QED
    BY <1>8, <1>9, <2>1, <2>2, <2>3 DEF Order
<1>14. Numbers'
  BY <1>3, <1>4, NumbersFollow DEF AInv
<1>15. Young'
  BY <1>4 DEF Young, ServerRests
<1>16. ASSUME NEW d \in Callers \ {c} PROVE Ripe(d)'
  <2>1. Same(d) /\ ~Holds(d) /\ Ripe(d)
    BY <1>3, <1>7
  <2>2. ASSUME Overtaken(d)', call'[d].pc = "data" PROVE NewerThan(stored'.token, call'[d].token)
    <3>1. lineage = call[d].captured.lineage /\ call[d].captured.lineage <= lineages
      BY <1>4, <1>11, <2>2 DEF Overtaken
    <3>2. lineage # NewLineage
      BY <1>5, <3>1 DEF NewLineage
    <3>3. token = call[c].token /\ Fresh(c) /\ call[c].pc = "refresh" /\ call[c].reply = "ok"
      BY <3>2 DEF AInv, Numbers
    <3> QED
      BY <1>4, <2>1, <2>2, <3>3 DEF Fresh, Same
  <2>3. (Overtaken(d) /\ call[d].pc = "data" => NewerThan(stored.token, call[d].token))'
    BY <2>2
  <2> QED
    BY <1>1, <1>15, <2>1, <2>3 DEF Ripe, Same, Holds
<1>17. Ripe(c)'
  <2>1. call'[c].pc = "retry" => call'[c].op = "request"
    BY <1>1 DEF Shaped
  <2>2. (call[c].pc = "retry" => call[c].token = stored.token)'
    BY <1>3, <1>4, <2>1
  <2>3. (call[c].op = "end" => stored.token = None)'
    BY <1>3, <1>4
  <2>4. call'[c].pc # "data" /\ call'[c].pc # "relogout"
    BY <1>3
  <2> QED
    BY <1>15, <2>2, <2>3, <2>4 DEF Ripe
<1>18. Ripeness'
  BY <1>15, <1>16, <1>17 DEF Ripeness, RipeTabs
<1> QED
  BY <1>3, <1>4, <1>13, <1>14, <1>18

\* What an answer brings and is persisted is of one session with the cookie.
LEMMA CookiePersisted ==
    ASSUME Faultless, NEW c \in Callers, call[c].pc \in {"refresh", "exchange"}, call[c].reply = "ok",
           Fresh(c), call[c].token # None, cookie' = call[c].token, stored'.token = call[c].token,
           ServerRests, UNCHANGED <<faults, replays>>
    PROVE  Faultless'
<1>1. Unspent'
  BY DEF Unspent, Fresh, ServerRests
<1>2. Persists'
  BY DEF Persists
<1> QED
  BY <1>1, <1>2 DEF Faultless, Paired

\* A tombstone with which a request ends leaves no session but one that a
\* sign-out awaits.
LEMMA CookieForgotten ==
    ASSUME IInv, Faultless, NEW c \in Callers, call[c].op = "request", Holds(c),
           \A d \in Callers \ {c} : ~Holds(d) /\ Same(d),
           stored'.token = None, ServerRests, UNCHANGED <<faults, replays>>,
           \/ cookie' = None
           \/ call[c].pc # "refresh" /\ cookie' = cookie /\ (CookieLives => ~Persists)
           \/ /\ call[c].pc = "refresh" /\ call[c].reply = "ok" /\ cookie' = call[c].token
              /\ Fresh(c) /\ (CookieLives => ~Persists)
    PROVE  Faultless'
<1> SUFFICES ASSUME faults = 0, CookieLives' PROVE Unspent' /\ Paired'
  BY DEF Faultless, Unspent, Paired
<1>1. Unspent /\ Paired
  BY DEF Faultless
<1>2. CookieLives /\ cookie'.session = cookie.session
  BY DEF CookieLives, ServerRests, IInv, Signed
<1>3. Unspent'
  BY <1>1, <1>2 DEF Unspent, Fresh, ServerRests, Holds, CookieLives
<1>4. ~Persists /\ \A e \in Callers : ~Dooms(e)
  BY <1>2 DEF Dooms, CookieLives
<1>5. PICK e \in Callers : Cleans(e)
  BY <1>1, <1>2, <1>4 DEF Paired, Awaited
<1>6. e # c /\ Same(e)
  BY <1>5 DEF Cleans
<1>7. Cleans(e)'
  BY <1>5, <1>6 DEF Cleans, Same
<1>8. Awaited'
  BY <1>7 DEF Awaited, OtherMember
<1> QED
  BY <1>3, <1>8 DEF Paired

\* A request ends with a tombstone.
LEMMA TombstoneSettles ==
    ASSUME IInv, IInv', AInv, NEW c \in Callers, call[c].op = "request", Holds(c), Current(c),
           Tombstones(c), UNCHANGED <<ends, exchanges>>, ServerRests,
           cookie' \in {None, cookie, call[c].token}
    PROVE  /\ Order' /\ Numbers' /\ Ripeness' /\ stored'.token = None
           /\ \A d \in Callers \ {c} : ~Holds(d) /\ Same(d)
<1>1. call[c].tab \in Tabs /\ Adopted(call[c].tab) = stored
  BY CurrentIsPersisted
<1>2. Publishes(c, Adopted(call[c].tab).revision, NewLineage, None, Idle)
  BY DEF Tombstones
<1>3. \A d \in Callers \ {c} : ~Holds(d)
  BY Alone
<1>4. call[c].pc # "exchange"
  BY BrowserAssumption DEF IInv, Shaped
<1>5. /\ Idle \in Call /\ Idle.op \notin {"end", "request"} /\ Idle.reply = None /\ Idle.token = None
      /\ Idle.pc \notin {"exchange", "relogout", "data"}
  BY Quiet, BrowserAssumption
<1> HIDE DEF Idle
<1> QED
  BY <1>1, <1>2, <1>3, <1>4, <1>5, Publishing

LEMMA ExpireRetrySettles ==
    ASSUME IInv, IInv', AInv, NEW c \in Callers, ExpireRetry(c)
    PROVE  AInv'
<1>1. /\ call[c].pc = "retry" /\ call[c].reply = "401" /\ Current(c) /\ Tombstones(c)
      /\ UNCHANGED <<ends, exchanges, cookie, faults, replays>> /\ ServerRests
  BY DEF ExpireRetry, server, history, ServerRests
<1>2. call[c].op = "request" /\ Holds(c)
  BY <1>1 DEF IInv, Shaped, Holds
<1>3. /\ Order' /\ Numbers' /\ Ripeness' /\ stored'.token = None
      /\ \A d \in Callers \ {c} : ~Holds(d) /\ Same(d)
  BY <1>1, <1>2, TombstoneSettles
<1>4. Ripe(c) /\ Answered(c)
  BY DEF AInv, Ripeness, Numbers
<1>5. CookieLives => ~Persists
  <2>1. call[c].token = stored.token /\ stored.token # None /\ ~Accepts(stored.token)
    BY <1>1, <1>4 DEF Ripe, Answered
  <2>2. stored.token.n > aged[stored.token.session]
    BY <1>1, <1>4, <2>1 DEF Ripe, Young
  <2>3. stored.token.session \notin live
    BY <2>1, <2>2 DEF Accepts
  <2> QED
    BY <2>3 DEF CookieLives, Persists
<1>6. Faultless'
  BY <1>1, <1>2, <1>3, <1>5, CookieForgotten DEF AInv
<1> QED
  BY <1>3, <1>6 DEF AInv

\* A refresh that brings another member's session was of no session persisted.
LEMMA OthersCookie ==
    ASSUME IInv, NEW c \in Callers, call[c].op = "request", call[c].pc = "refresh",
           call[c].reply = "ok", Current(c), OtherMember(call[c].captured.token, call[c].token)
    PROVE  ~Persists
<1>1. Kin /\ Signed /\ Shaped(c) /\ Typed
  BY DEF IInv
<1>2. stored.lineage = call[c].captured.lineage
  BY CurrentIsPersisted
<1>3. call[c].captured \in Envelopes /\ stored \in Envelopes
  BY <1>1, CapturedIsKin DEF Shaped, Envelopes
<1>4. Alike(call[c].captured.token, stored.token)
  BY <1>1, <1>2, <1>3 DEF Kin
<1>5. call[c].token.session = cookie.session
  BY <1>1 DEF Signed
<1> QED
  BY <1>4, <1>5 DEF Persists, Alike, OtherMember, Owner

LEMMA ReceiveRefreshSettles ==
    ASSUME IInv, IInv', AInv, NEW c \in Callers, ReceiveRefresh(c)
    PROVE  AInv'
<1> DEFINE t == call[c].tab
           token == call[c].token
           same == ~OtherMember(call[c].captured.token, token)
           retry == [Sends(c, "retry", token) EXCEPT !.current = TRUE]
<1>1. /\ call[c].op = "request" /\ call[c].pc = "refresh" /\ call[c].reply # None /\ TakesCookie(c)
      /\ UNCHANGED <<ends, exchanges, faults, replays>> /\ ServerRests
  BY DEF ReceiveRefresh, server, history, ServerRests
<1>2. Typed /\ Shaped(c) /\ Fresh(c) /\ Holds(c) /\ call[c].reply \in {"ok", "401", "lost"}
  BY <1>1, CallFields DEF IInv, AInv, Numbers, Holds, Typed
<1>3. /\ cookie' \in {None, cookie, token}
      /\ call[c].reply = "ok" => cookie' = token
      /\ call[c].reply = "401" => cookie' = None
      /\ call[c].reply = "lost" => cookie' = cookie
  BY <1>1, CookieTakenBy
<1>4. CASE ~Current(c) /\ RetryAdopted(c)
  <2>1. /\ Order' /\ Numbers' /\ Ripeness' /\ call'[c].op # "end" /\ stored' = stored
        /\ \A d \in Callers \ {c} : Same(d)
    BY <1>1, <1>3, <1>4, RetryAdoptedSettles
  <2>2. Faultless'
    BY <1>1, <1>2, <1>3, <2>1, CookieFollows DEF AInv
  <2> QED
    BY <2>1, <2>2 DEF AInv
<1>5. CASE call[c].reply = "lost" /\ AdoptsAndGoes(c, Idle)
  <2>1. Order' /\ Numbers' /\ Ripeness' /\ call'[c] = Idle /\ \A d \in Callers \ {c} : Same(d)
    BY <1>1, <1>3, <1>5, DropsOut
  <2>2. Faultless'
    BY <1>1, <1>3, <1>5, <2>1, Quiet, CookieFollows, BrowserAssumption DEF AInv, AdoptsAndGoes
  <2> QED
    BY <2>1, <2>2 DEF AInv
<1>6. CASE /\ Current(c) /\ Tombstones(c)
           /\ call[c].reply = "401" \/ (call[c].reply = "ok" /\ ~same)
  <2>1. /\ Order' /\ Numbers' /\ Ripeness' /\ stored'.token = None
        /\ \A d \in Callers \ {c} : ~Holds(d) /\ Same(d)
    BY <1>1, <1>2, <1>3, <1>6, TombstoneSettles
  <2>2. call[c].reply = "ok" => ~Persists
    BY <1>1, <1>6, OthersCookie
  <2>3. Faultless'
    BY <1>1, <1>2, <1>3, <1>6, <2>1, <2>2, CookieForgotten DEF AInv
  <2> QED
    BY <2>1, <2>3 DEF AInv
<1>7. ASSUME NEW next \in {retry, Idle}, Current(c), call[c].reply = "ok", same,
             Publishes(c, env[t].revision, call[c].captured.lineage, token, next)
      PROVE  AInv'
  <2>1. t \in Tabs /\ env[t] = stored /\ ends[t] = 0 /\ stored.lineage = call[c].captured.lineage
    BY <1>1, <1>7, CurrentIsPersisted
  <2>2. token \in Token /\ token # None
    BY <1>1, <1>7, RefreshedIsKin
  <2>3. /\ retry \in Call /\ retry.pc = "retry" /\ retry.token = token /\ retry.reply = None
        /\ retry.tab = t /\ retry.op = "request" /\ retry.captured = call[c].captured
    <3> DEFINE s == Sends(c, "retry", token)
    <3>1. /\ s \in Call /\ s.pc = "retry" /\ s.token = token /\ s.reply = None /\ s.tab = t
          /\ s.op = "request" /\ s.captured = call[c].captured
      BY <1>1, <1>2, <2>2, Sending DEF Pcs
    <3> HIDE DEF s
    <3>2. retry = [s EXCEPT !.current = TRUE]
      BY DEF s
    <3> QED
      BY <3>1, <3>2 DEF Call
  <2>4. /\ next \in Call /\ next.op # "end" /\ next.reply = None /\ next.token \in {None, token}
        /\ next.pc \notin {"exchange", "relogout", "data"}
        /\ next.op = "request" => /\ next.pc = "retry" /\ next.token = token /\ next.tab = t
                                  /\ next.captured = call[c].captured
    BY <1>7, <2>3, Quiet, BrowserAssumption
  <2>5. token.n > aged[token.session]
    BY <1>1, <1>2, <1>7 DEF Fresh
  <2>6. \A d \in Callers \ {c} : ~Holds(d)
    BY <1>2, Alone
  <2>7. Publishes(c, stored.revision, call[c].captured.lineage, token, next)
    BY <1>7, <2>1
  <2>8. /\ Order' /\ Numbers' /\ Ripeness' /\ stored'.token = token
    BY <1>1, <1>3, <1>7, <2>1, <2>4, <2>5, <2>6, <2>7, Publishing
  <2>9. Faultless'
    BY <1>1, <1>2, <1>3, <1>7, <2>2, <2>8, CookiePersisted DEF AInv
  <2> QED
    BY <2>8, <2>9 DEF AInv
<1> QED
  BY <1>4, <1>5, <1>6, <1>7 DEF ReceiveRefresh

LEMMA ReceiveExchangeSettles ==
    ASSUME IInv, IInv', AInv, NEW c \in Callers, ReceiveExchange(c)
    PROVE  AInv'
<1> DEFINE t == call[c].tab
           token == call[c].token
<1>1. /\ call[c].pc = "exchange" /\ call[c].reply # None /\ TakesCookie(c)
      /\ exchanges' = [exchanges EXCEPT ![t] = @ - 1]
      /\ UNCHANGED <<ends, faults, replays>> /\ ServerRests
  BY DEF ReceiveExchange, server, history, ServerRests
<1>2. CASE (~Current(c) \/ call[c].reply = "lost") /\ AdoptsAndGoes(c, Idle)
  BY <1>1, <1>2, RetiredSettles
<1>3. CASE /\ Current(c) /\ call[c].reply = "ok"
           /\ Publishes(c, env[t].revision, NewLineage, token, Idle)
  <2>1. Typed /\ Shaped(c) /\ Fresh(c) /\ Holds(c) /\ InFlight
    BY <1>1 DEF IInv, AInv, Order, Numbers, Holds
  <2>2. t \in Tabs /\ env[t] = stored
    BY <1>3, CurrentIsPersisted
  <2>3. token # None /\ cookie' = token /\ token.n > aged[token.session]
    BY <1>1, <1>3, <2>1, CookieTakenBy DEF Shaped, Fresh
  <2>4. \A d \in Callers \ {c} : ~Holds(d)
    BY <2>1, Alone
  <2>5. Goes(c, Idle, t, TRUE)
    BY <1>3 DEF Publishes
  <2>6. call'[c] = Idle /\ \A d \in Callers \ {c} : Same(d)
    BY <2>1, <2>5, Quiet, Going
  <2>7. InFlight'
    BY <1>1, <2>1, <2>2, <2>4, <2>6, Quiet, InFlightDown
  <2>8. Publishes(c, stored.revision, NewLineage, token, Idle)
    BY <1>3, <2>2
  <2>9. /\ Idle \in Call /\ Idle.op \notin {"end", "request"} /\ Idle.reply = None /\ Idle.token = None
        /\ Idle.pc \notin {"exchange", "relogout", "data"}
    BY Quiet, BrowserAssumption
  <2> HIDE DEF Idle
  <2>10. Order' /\ Numbers' /\ Ripeness' /\ stored'.token = token
    BY <1>1, <2>2, <2>3, <2>4, <2>7, <2>8, <2>9, Publishing
  <2>11. Faultless'
    BY <1>1, <1>3, <2>1, <2>3, <2>10, CookiePersisted DEF AInv
  <2> QED
    BY <2>10, <2>11 DEF AInv
<1> QED
  BY <1>2, <1>3 DEF ReceiveExchange

-----------------------------------------------------------------------------
(* The steps of a sign-out. *)

LEMMA EndSettles ==
    ASSUME IInv, IInv', AInv, NEW c \in Callers, NEW t \in Tabs, End(c, t)
    PROVE  AInv'
<1> DEFINE next == [Idle EXCEPT !.tab = t, !.op = "end", !.pc = "wait", !.captured = Adopted(t),
                                !.cleanup = exchanges[t] > 0]
<1>1. /\ Typed /\ Newest /\ call[c] = Idle
      /\ \A d \in Callers : Shaped(d) /\ Attended(d) /\ Since(d) /\ Older(d) /\ Exchanging(d) /\ Ripe(d)
  BY DEF IInv, End, AInv, Order, Ripeness
<1>2. /\ Goes(c, next, t, TRUE) /\ env' = [env EXCEPT ![t] = Adopted(t)] /\ ends' = [ends EXCEPT ![t] = @ + 1]
      /\ UNCHANGED <<stored, exchanges, unheard, lineages, cookie, faults, replays>> /\ ServerRests
  BY DEF End, server, history, ServerRests
<1>3. /\ Adopted(t) \in Envelope /\ Adopted(t) \in {stored, env[t]} /\ (ends[t] = 0 => Adopted(t) = stored)
      /\ (ends[t] # 0 => Adopted(t) = env[t])
  BY <1>1, Adopting
<1>4. (exchanges[t] > 0) \in BOOLEAN
  BY <1>1 DEF Typed
<1>5. /\ next \in Call /\ next.tab = t /\ next.op = "end" /\ next.pc = "wait" /\ next.captured = Adopted(t)
      /\ (next.cleanup <=> exchanges[t] > 0) /\ next.token = None /\ next.reply = None
  BY <1>3, <1>4 DEF Idle, Call, Ops, Pcs
<1> HIDE DEF next
<1>6. /\ call'[c] = next
      /\ \A d \in Callers \ {c} : Same(d) /\ (call[d].tab # t => call'[d].current = call[d].current)
  <2>1. call'[c] = next /\ Beside(c, t, TRUE)
    BY <1>1, <1>2, <1>5, GoesBeside
  <2> QED
    BY <2>1 DEF Beside
<1>7. call[c].op \notin {"end", "request"} /\ call[c].pc \notin {"exchange", "refresh"}
  BY <1>1, Quiet, BrowserAssumption
<1>8. \A u \in Tabs : ends[u] \in Nat /\ (u # t => ends'[u] = ends[u] /\ env'[u] = env[u])
  BY <1>1, <1>2 DEF Typed
<1>9. ends'[t] = ends[t] + 1 /\ env'[t] = Adopted(t)
  BY <1>1, <1>2 DEF Typed
<1>10. Order'
  <2>1. Heard'
    BY <1>2, <1>8, <1>9 DEF Heard, AInv, Order
  <2>2. Last'
    BY <1>2 DEF Last, AInv, Order
  <2>3. InFlight'
    BY <1>2, <1>5, <1>6, <1>7, InFlightKept DEF AInv, Order
  <2>4. Adopted(t).revision <= stored.revision /\ (Adopted(t).revision = stored.revision => Adopted(t) = stored)
    BY <1>1, <1>3, Lineages DEF Newest
  <2>5. ASSUME NEW d \in Callers PROVE Since(d)'
    BY <1>1, <1>2, <1>5, <1>6, <2>4 DEF Since, Same
  <2>6. ASSUME NEW d \in Callers PROVE Older(d)'
    <3> SUFFICES ASSUME call'[d].op = "request"
                 PROVE  /\ call'[d].captured.lineage <= env'[call'[d].tab].lineage
                        /\ \A e \in Callers : call'[e].op = "end" /\ call'[e].tab = call'[d].tab =>
                              call'[d].captured.lineage <= call'[e].captured.lineage
      BY DEF Older
    <3>1. /\ d # c /\ call[d].op = "request" /\ call'[d].tab = call[d].tab /\ call[d].tab \in Tabs
          /\ call'[d].captured = call[d].captured
      BY <1>1, <1>5, <1>6, BrowserAssumption DEF Same, Shaped
    <3>2. call[d].captured.lineage <= env'[call[d].tab].lineage
      <4>1. CASE call[d].tab = t
        <5>1. env[t].lineage <= Adopted(t).lineage
          BY <1>3, Lineages DEF AInv, Order, Last
        <5>2. Adopted(t).lineage \in Nat /\ env[t].lineage \in Nat /\ call[d].captured.lineage \in Nat
          BY <1>3, <3>1, Lineages, EnvelopeFields
        <5> QED
          BY <1>1, <1>9, <3>1, <4>1, <5>1, <5>2 DEF Older
      <4>2. CASE call[d].tab # t
        BY <1>1, <1>8, <3>1, <4>2 DEF Older
      <4> QED
        BY <4>1, <4>2
    <3>3. ASSUME NEW e \in Callers, call'[e].op = "end", call'[e].tab = call[d].tab
          PROVE  call[d].captured.lineage <= call'[e].captured.lineage
      <4>1. CASE e = c
        BY <1>5, <1>6, <1>9, <3>2, <3>3, <4>1
      <4>2. CASE e # c
        BY <1>1, <1>6, <3>1, <3>3, <4>2 DEF Older, Same
      <4> QED
        BY <4>1, <4>2
    <3> QED
      BY <3>1, <3>2, <3>3
  <2>7. ASSUME NEW d \in Callers PROVE Exchanging(d)'
    <3> SUFFICES ASSUME call'[d].pc = "exchange" PROVE Exchanging(d)'
      BY DEF Exchanging
    <3>1. /\ d # c /\ call[d].pc = "exchange" /\ call'[d].tab = call[d].tab /\ call[d].tab \in Tabs
      BY <1>1, <1>5, <1>6 DEF Same, Shaped
    <3>2. (ends[call[d].tab] = 0)' => (env[call[d].tab] = stored)'
      BY <1>1, <1>2, <1>8, <1>9, <3>1 DEF Exchanging
    <3>3. CASE call[d].current /\ call[d].tab # t
      BY <1>6, <3>1, <3>2, <3>3 DEF Exchanging
    <3>4. CASE call[d].current /\ call[d].tab = t
      <4>1. ends[t] = 0 /\ Adopted(t) = stored
        BY <1>1, <1>3, <3>4 DEF Attended
      <4>2. exchanges[t] = 1
        BY <3>1, <3>4 DEF AInv, Order, InFlight, Exchanges
      <4>3. Cleans(c)' /\ call'[c].tab = t /\ call'[c].captured = stored'
        BY <1>2, <1>5, <1>6, <4>1, <4>2 DEF Cleans
      <4> QED
        BY <3>1, <3>2, <3>4, <4>3 DEF Exchanging
    <3>5. CASE ~call[d].current
      <4>1. PICK e \in Callers : Cleans(e) /\ call[e].tab = call[d].tab /\ call[e].captured = stored
        BY <1>1, <3>1, <3>5 DEF Exchanging
      <4>2. e # c /\ Same(e)
        BY <1>6, <1>7, <4>1 DEF Cleans
      <4>3. Cleans(e)' /\ call'[e].tab = call'[d].tab /\ call'[e].captured = stored'
        BY <1>2, <3>1, <4>1, <4>2 DEF Cleans, Same
      <4> QED
        BY <3>2, <4>3 DEF Exchanging
    <3> QED
      BY <3>3, <3>4, <3>5
  <2> QED
    BY <2>1, <2>2, <2>3, <2>5, <2>6, <2>7 DEF Order
<1>11. Numbers'
  BY <1>2, <1>5, <1>6, NumbersFollow DEF AInv
<1>12. Young' = Young
  BY <1>2 DEF Young, ServerRests
<1>13. Adopted(t).revision < stored.revision => Young
  BY <1>3, <1>8, Lineages DEF AInv, Ripeness, RipeTabs
<1>14. RipeTabs'
  BY <1>2, <1>8, <1>9, <1>12, <1>13 DEF AInv, Ripeness, RipeTabs
<1>15. ASSUME NEW d \in Callers \ {c} PROVE Ripe(d)'
  <2>1. Same(d) /\ Ripe(d) /\ Shaped(d)
    BY <1>1, <1>6
  <2>2. ASSUME Overtaken(d)' PROVE Overtaken(d)
    <3>1. call[d].tab \in Tabs /\ call[d].tab # t
      BY <1>8, <1>9, <2>1, <2>2, BrowserAssumption DEF Overtaken, Same, Shaped
    <3> QED
      BY <1>2, <1>6, <1>8, <2>1, <2>2, <3>1 DEF Overtaken, Same
  <2>3. (Overtaken(d) => Young)' /\ (Overtaken(d)' /\ call'[d].pc = "data" => NewerThan(stored.token, call[d].token))
    BY <1>12, <2>1, <2>2 DEF Ripe, Same
  <2> QED
    BY <1>2, <1>12, <2>1, <2>3 DEF Ripe, Same, NewerThan, Holds, ServerRests
<1>16. Ripe(c)'
  BY <1>2, <1>5, <1>6, <1>12, <1>13 DEF Ripe, Overtaken, Holds
<1>17. Ripeness'
  BY <1>14, <1>15, <1>16 DEF Ripeness
<1>18. Faultless'
  BY <1>2, <1>6, <1>7, CookieFollows DEF AInv
<1> QED
  BY <1>10, <1>11, <1>17, <1>18 DEF AInv

\* A sign-out is done, in this tab: what it leaves persisted is a tombstone, or
\* of another lineage than anything that the tab still does.
LEMMA Settling ==
    ASSUME IInv, IInv', AInv, NEW c \in Callers, call[c].op = "end", Settles(c),
           \A d \in Callers \ {c} : ~Holds(d),
           UNCHANGED <<stored, exchanges, unheard, lineages>>, ServerRests,
           stored.token = None \/ OtherMember(call[c].captured.token, stored.token),
           cookie' \in {None, cookie, call[c].token}
    PROVE  Order' /\ Numbers' /\ Ripeness' /\ call'[c] = Idle /\ \A d \in Callers \ {c} : Same(d)
<1> DEFINE t == call[c].tab
           adopts == ends[t] = 1 /\ stored.revision > env[t].revision
<1>1. /\ Typed /\ Newest /\ Kin
      /\ \A d \in Callers : Shaped(d) /\ Since(d) /\ Older(d) /\ Ripe(d)
  BY DEF IInv, AInv, Order, Ripeness
<1>2. /\ ends' = [ends EXCEPT ![t] = @ - 1] /\ env' = [env EXCEPT ![t] = IF adopts THEN stored ELSE @]
      /\ Goes(c, Idle, t, adopts)
  BY DEF Settles
<1>3. t \in Tabs /\ ends[t] \in Nat /\ ends[t] > 0
  BY EndCounts DEF EndsCounted
<1>4. adopts \in BOOLEAN
  OBVIOUS
<1>5. /\ call'[c] = Idle
      /\ \A d \in Callers \ {c} : Same(d) /\ (call[d].tab # t => call'[d].current = call[d].current)
  <2>1. Typed
    BY <1>1
  <2>2. call'[c] = Idle /\ Beside(c, t, adopts)
    BY <1>2, <1>4, <2>1, Quiet, Going DEF Beside
  <2> QED
    BY <2>2 DEF Beside
<1>6. \A u \in Tabs : u # t => ends'[u] = ends[u] /\ env'[u] = env[u]
  BY <1>1, <1>2 DEF Typed
<1>7. ends'[t] = ends[t] - 1 /\ env'[t] = IF adopts THEN stored ELSE env[t]
  BY <1>1, <1>2, <1>3 DEF Typed
<1>8. (ends'[t] = 0 => env'[t] = stored) /\ (ends'[t] > 0 => env'[t] = env[t])
  BY <1>1, <1>3, <1>7, Lineages DEF Newest
<1>9. Idle.op \notin {"end", "request"} /\ Idle.pc = "idle" /\ Idle.reply = None /\ Idle.token = None
  BY Quiet, BrowserAssumption
<1> HIDE DEF adopts, Idle
<1>10. Order'
  <2>1. Heard'
    BY <1>3, <1>6, <1>7, <1>8 DEF Heard, AInv, Order
  <2>2. Last'
    BY DEF Last, AInv, Order
  <2>3. call[c].pc # "exchange"
    BY <1>1 DEF Shaped
  <2>4. InFlight'
    BY <1>5, <1>9, <2>3, InFlightKept DEF AInv, Order
  <2>5. \A d \in Callers : Since(d)'
    BY <1>1, <1>5, <1>9 DEF Since, Same
  <2>6. ASSUME NEW d \in Callers PROVE Older(d)'
    <3> SUFFICES ASSUME call'[d].op = "request"
                 PROVE  /\ call'[d].captured.lineage <= env'[call'[d].tab].lineage
                        /\ \A e \in Callers : call'[e].op = "end" /\ call'[e].tab = call'[d].tab =>
                              call'[d].captured.lineage <= call'[e].captured.lineage
      BY DEF Older
    <3>1. /\ d # c /\ call[d].op = "request" /\ call'[d].tab = call[d].tab /\ call[d].tab \in Tabs
          /\ call'[d].captured = call[d].captured
      BY <1>1, <1>5, <1>9, BrowserAssumption DEF Same, Shaped
    <3>2. call[d].captured.lineage <= env'[call[d].tab].lineage
      BY <1>1, <1>6, <1>7, <3>1, Lineages DEF Older, AInv, Order, Last
    <3>3. \A e \in Callers : call'[e].op = "end" =>
             call[e].op = "end" /\ call'[e].tab = call[e].tab /\ call'[e].captured = call[e].captured
      BY <1>5, <1>9 DEF Same
    <3> QED
      BY <1>1, <3>1, <3>2, <3>3 DEF Older
  <2>7. \A d \in Callers : Exchanging(d)'
    BY <1>5, <1>9 DEF Exchanging, Same, Holds
  <2> QED
    BY <2>1, <2>2, <2>4, <2>5, <2>6, <2>7 DEF Order
<1>11. Numbers'
  BY <1>5, <1>9, NumbersFollow DEF AInv
<1>12. Young' = Young
  BY DEF Young, ServerRests
<1>13. RipeTabs'
  BY <1>3, <1>6, <1>7, <1>8, <1>12 DEF AInv, Ripeness, RipeTabs
<1>14. ASSUME NEW d \in Callers, call[d].op = "request", call[d].tab = t, stored.token # None
       PROVE  stored.lineage # call[d].captured.lineage
  <2>1. call[d].captured.lineage <= call[c].captured.lineage /\ call[c].captured.lineage <= stored.lineage
    BY <1>1, <1>14, Lineages DEF Older, AInv, Order, Last
  <2>2. /\ call[d].captured.lineage \in Nat /\ call[c].captured.lineage \in Nat /\ stored.lineage \in Nat
    BY <1>14, Lineages
  <2>3. call[c].captured \in Envelopes /\ stored \in Envelopes
    BY <1>1, CapturedIsKin DEF Shaped, Envelopes
  <2>4. call[c].captured.lineage # stored.lineage
    BY <1>1, <1>14, <2>3 DEF Kin, Alike
  <2> QED
    BY <2>1, <2>2, <2>4
<1>15. ASSUME NEW d \in Callers \ {c} PROVE Ripe(d)'
  <2>1. Same(d) /\ Ripe(d) /\ Shaped(d)
    BY <1>1, <1>5
  <2>2. ASSUME Overtaken(d)' PROVE stored.token = None \/ Overtaken(d)
    <3>1. call[d].op = "request" /\ call[d].tab \in Tabs /\ stored.lineage = call[d].captured.lineage
      BY <2>1, <2>2, BrowserAssumption DEF Overtaken, Same, Shaped
    <3>2. CASE call[d].tab = t
      BY <1>14, <3>1, <3>2
    <3>3. CASE call[d].tab # t
      BY <1>5, <1>6, <2>1, <2>2, <3>1, <3>3 DEF Overtaken, Same
    <3> QED
      BY <3>2, <3>3
  <2>3. (Overtaken(d) => Young)' /\ (Overtaken(d)' /\ call'[d].pc = "data" => NewerThan(stored.token, call[d].token))
    BY <1>12, <2>1, <2>2 DEF Ripe, Same, Young, NewerThan
  <2> QED
    BY <1>12, <2>1, <2>3 DEF Ripe, Same, NewerThan, Holds, ServerRests
<1>16. Ripe(c)'
  BY <1>5, <1>9 DEF Ripe, Overtaken
<1>17. Ripeness'
  BY <1>13, <1>15, <1>16 DEF Ripeness
<1> QED
  BY <1>5, <1>10, <1>11, <1>17

\* Inside the lock a sign-out will end the session of the cookie, if that is
\* the one persisted.
LEMMA DoomedBy ==
    ASSUME IInv, AInv, NEW c \in Callers, call[c].op = "end", call[c].pc = "wait",
           ~OtherMember(call[c].captured.token, stored.token), Persists,
           call'[c].op = "end", call'[c].captured = call[c].captured, call'[c].pc = "logout",
           call'[c].token = stored.token, cookie' = cookie, ServerRests
    PROVE  Dooms(c)'
<1> DEFINE asked == call[c].captured.token
<1>1. Since(c) /\ Ripe(c)
  BY DEF AInv, Order, Ripeness
<1>2. stored.token # None /\ stored.token.session = cookie.session
  BY DEF Persists
<1>3. ASSUME asked = None PROVE stored.token.n > aged[cookie.session]
  <2>1. call[c].captured.revision \in Nat /\ stored.revision \in Nat
    BY Lineages
  <2>2. call[c].captured.revision < stored.revision
    BY <1>1, <1>2, <1>3, <2>1 DEF Since
  <2> QED
    BY <1>1, <1>2, <2>2 DEF Ripe, Young
<1>4. asked # None => Owner(asked) = Owner(cookie)
  BY <1>2 DEF OtherMember, Owner
<1>5. Owner(asked)' = Owner(asked) /\ Owner(cookie)' = Owner(cookie) /\ aged' = aged
  BY DEF Owner, ServerRests
<1> QED
  BY <1>2, <1>3, <1>4, <1>5 DEF Dooms, Holds

LEMMA LockedEndSettles ==
    ASSUME IInv, IInv', AInv, NEW c \in Callers, LockedEnd(c)
    PROVE  AInv'
<1> DEFINE t == call[c].tab
           asked == call[c].captured.token
           remote == call[c].cleanup \/ stored.token # None
           told == IF call[c].cleanup THEN Sends(c, "refresh", None)
                   ELSE Sends(c, "logout", stored.token)
           next == IF remote THEN told ELSE Idle
<1>1. Typed /\ Shaped(c)
  BY DEF IInv
<1>2. /\ call[c].op = "end" /\ call[c].pc = "wait" /\ ahead[c] = {} /\ ServerRests
      /\ UNCHANGED <<exchanges, cookie, faults, replays>>
  BY DEF LockedEnd, HasLock, server, ServerRests
<1>3. /\ \A d \in Callers : ~Holds(d)
      /\ \A d \in Callers : call[d].pc # "refresh"
  BY <1>2, Alone DEF Holds
<1>4. CookieLives' = CookieLives /\ cookie'.session = cookie.session
  BY <1>2 DEF CookieLives, ServerRests
<1>5. faults = 0 => replays = {} /\ Unspent' /\ faults \in Nat
  BY <1>2, <1>3 DEF AInv, Faultless, Unspent, CookieLives, ServerRests
<1>6. faults = 0 /\ CookieLives => Persists \/ Awaited
  BY <1>3 DEF AInv, Faultless, Paired, Dooms
<1>7. ASSUME \A e \in Callers \ {c} : Same(e),
             faults = 0 /\ CookieLives /\ Persists => Persists' \/ Dooms(c)',
             stored'.token \in {stored.token, None},
             call[c].cleanup => OtherMember(asked, stored.token) \/ Dooms(c)'
      PROVE  Faultless'
  <2>1. ASSUME Awaited PROVE Awaited' \/ Dooms(c)'
    <3>1. PICK e \in Callers : Cleans(e) /\ ~OtherMember(call[e].captured.token, stored.token)
      BY <2>1 DEF Awaited
    <3>2. CASE e = c
      BY <1>7, <3>1, <3>2 DEF Cleans
    <3>3. CASE e # c
      <4>1. Cleans(e)' /\ call'[e].captured = call[e].captured
        BY <1>7, <3>1, <3>3 DEF Cleans, Same
      <4>2. ~OtherMember(call[e].captured.token, stored.token)'
        BY <1>2, <1>7, <3>1, <4>1 DEF OtherMember, Owner, ServerRests
      <4> QED
        BY <4>1, <4>2 DEF Awaited
    <3> QED
      BY <3>2, <3>3
  <2> QED
    BY <1>2, <1>4, <1>5, <1>6, <1>7, <2>1 DEF AInv, Faultless, Paired, ServerRests
<1>8. CASE OtherMember(asked, stored.token) /\ Settles(c) /\ UNCHANGED <<stored, unheard, lineages>>
  <2>1. Order' /\ Numbers' /\ Ripeness' /\ call'[c] = Idle /\ \A d \in Callers \ {c} : Same(d)
    BY <1>2, <1>3, <1>8, Settling
  <2>2. Persists => Persists'
    BY <1>2, <1>8 DEF Persists
  <2>3. Faultless'
    BY <1>7, <1>8, <2>1, <2>2
  <2> QED
    BY <2>1, <2>3 DEF AInv
<1>9. CASE /\ ~OtherMember(asked, stored.token)
           /\ Publishes(c, stored.revision, NewLineage, None, next)
           /\ IF remote THEN UNCHANGED <<ahead, ends>>
              ELSE Releases(c) /\ ends' = [ends EXCEPT ![t] = @ - 1]
  <2>1. t \in Tabs /\ stored.token \in Token \cup {None} /\ ends \in [Tabs -> Nat]
    BY <1>1, <1>2, EnvelopeFields, BrowserAssumption DEF Shaped, Typed
  <2>2. /\ next \in Call /\ next.reply = None /\ next.token \in {None, stored.token}
        /\ next.pc \in {"idle", "refresh", "logout"} /\ next.op # "request"
        /\ next.op = "end" => next.tab = t /\ next.captured = call[c].captured
        /\ remote => /\ next.op = "end" /\ next.cleanup = call[c].cleanup
                     /\ next.pc = IF call[c].cleanup THEN "refresh" ELSE "logout"
        /\ remote /\ ~call[c].cleanup => next.token = stored.token
    <3>1. CASE ~remote
      BY <3>1, Quiet, BrowserAssumption
    <3>2. CASE remote /\ call[c].cleanup
      <4>1. "refresh" \in Pcs /\ next = Sends(c, "refresh", None)
        BY <3>2 DEF Pcs
      <4> HIDE DEF next
      <4>2. /\ next \in Call /\ next.pc = "refresh" /\ next.token = None /\ next.reply = None
            /\ next.tab = t /\ next.op = "end" /\ next.captured = call[c].captured
            /\ next.cleanup = call[c].cleanup
        BY <1>1, <1>2, <4>1, Sending
      <4> QED
        BY <3>2, <4>2
    <3>3. CASE remote /\ ~call[c].cleanup
      BY <1>1, <1>2, <2>1, <3>3, Sending, BrowserAssumption DEF Pcs
    <3> QED
      BY <3>1, <3>2, <3>3
  <2>3. \A u \in Tabs : ends'[u] = ends[u] \/ u = t
    BY <1>9, <2>1
  <2>4. Publishes(c, stored.revision, NewLineage, None, next)
    BY <1>9
  <2> HIDE DEF next
  <2>5. /\ Order' /\ Numbers' /\ Ripeness' /\ call'[c] = next /\ stored'.token = None
        /\ \A d \in Callers \ {c} : Same(d)
    BY <1>2, <1>3, <2>1, <2>2, <2>3, <2>4, Publishing
  <2>6. call[c].cleanup => Dooms(c)'
    BY <2>2, <2>5 DEF Dooms, Holds
  <2>7. Persists => Dooms(c)'
    <3>1. CASE call[c].cleanup
      BY <2>6, <3>1
    <3>2. CASE ~call[c].cleanup /\ Persists
      BY <1>2, <1>9, <2>2, <2>5, <3>2, DoomedBy DEF Persists
    <3> QED
      BY <3>1, <3>2
  <2>8. Faultless'
    BY <1>7, <2>5, <2>6, <2>7
  <2> QED
    BY <2>5, <2>8 DEF AInv
<1> QED
  BY <1>8, <1>9 DEF LockedEnd

\* A sign-out goes on inside the lock.
LEMMA EndGoesOn ==
    ASSUME IInv, IInv', AInv, NEW c \in Callers, call[c].op = "end", Holds(c),
           NEW pc \in {"refresh", "relogout"}, NEW token \in {None, call[c].token},
           Goes(c, Sends(c, pc, token), None, FALSE),
           UNCHANGED <<stored, env, ends, exchanges, unheard, lineages>>, ServerRests,
           cookie' \in {None, cookie, call[c].token},
           pc = "relogout" => token.n > aged[token.session]
    PROVE  /\ Order' /\ Numbers' /\ Ripeness' /\ \A d \in Callers \ {c} : Same(d)
           /\ call'[c].pc = pc /\ call'[c].token = token /\ call'[c].op = "end" /\ call'[c].reply = None
           /\ call'[c].captured = call[c].captured /\ call'[c].cleanup = call[c].cleanup
<1> DEFINE next == Sends(c, pc, token)
<1>1. Typed /\ Shaped(c) /\ pc \in Pcs
  BY DEF IInv, Pcs
<1>2. token \in Token \cup {None}
  BY <1>1, CallFields DEF Typed
<1>3. /\ next \in Call /\ next.pc = pc /\ next.token = token /\ next.reply = None
      /\ next.tab = call[c].tab /\ next.op = call[c].op /\ next.captured = call[c].captured
      /\ next.cleanup = call[c].cleanup
  BY <1>1, <1>2, Sending
<1>4. Goes(c, next, None, FALSE)
  OBVIOUS
<1> HIDE DEF next
<1>5. call'[c] = next /\ Beside(c, None, FALSE)
  BY <1>1, <1>3, <1>4, GoesBeside
<1>6. \A d \in Callers \ {c} : Same(d)
  BY <1>5 DEF Beside
<1>7. Adopts(None, FALSE)
  BY DEF Adopts
<1>8. InFlight'
  <2>1. call[c].pc # "exchange"
    BY <1>1 DEF Shaped
  <2> QED
    BY <1>3, <1>5, <1>6, <2>1, InFlightKept DEF AInv, Order
<1>9. EndsOn(c)
  BY <1>3, <1>5 DEF EndsOn
<1>10. Order'
  BY <1>3, <1>5, <1>7, <1>8, <1>9, OrderFollows DEF AInv
<1>11. Numbers'
  BY <1>3, <1>5, <1>6, NumbersFollow DEF AInv
<1>12. Ripeness'
  BY <1>3, <1>5, <1>7, <1>9, RipenessFollows DEF AInv
<1> QED
  BY <1>3, <1>5, <1>6, <1>10, <1>11, <1>12

LEMMA ReceiveEndSettles ==
    ASSUME IInv, IInv', AInv, NEW c \in Callers, ReceiveEnd(c)
    PROVE  AInv'
<1> DEFINE token == call[c].token
           asked == call[c].captured.token
           same == asked # None /\ ~OtherMember(asked, token)
           again == call[c].pc = "logout" /\ call[c].reply = "401"
           renewed == call[c].pc = "refresh" /\ call[c].reply = "ok" /\ (call[c].cleanup \/ same)
           goesOn(pc, k) == Goes(c, Sends(c, pc, k), None, FALSE) /\ UNCHANGED <<env, ends, ahead>>
<1>1. Typed /\ Shaped(c) /\ Signed
  BY DEF IInv
<1>2. /\ call[c].op = "end" /\ call[c].reply # None /\ TakesCookie(c) /\ ServerRests
      /\ UNCHANGED <<stored, exchanges, unheard, lineages, faults, replays>>
  BY DEF ReceiveEnd, server, history, ServerRests
<1>3. /\ call[c].pc \in {"refresh", "logout", "relogout"} /\ call[c].reply \in {"ok", "401", "lost"}
      /\ Holds(c)
  <2>1. call[c].pc \in Pcs /\ call[c].reply \in {None, "ok", "401", "lost"}
    BY <1>1, CallFields DEF Typed
  <2> QED
    BY <1>1, <1>2, <2>1 DEF Shaped, Pcs, Holds
<1>4. /\ stored.token = None /\ Answered(c) /\ Fresh(c) /\ Ripe(c)
      /\ \A d \in Callers \ {c} : ~Holds(d)
  BY <1>2, <1>3, Alone DEF AInv, Ripeness, Ripe, Numbers
<1>5. /\ cookie' \in {None, cookie, token}
      /\ call[c].pc = "refresh" => cookie' = IF call[c].reply = "ok" THEN token
                                             ELSE IF call[c].reply = "401" THEN None ELSE cookie
      /\ call[c].pc \in {"logout", "relogout"} => cookie' = IF call[c].reply = "ok" THEN None ELSE cookie
  BY <1>2, <1>3, CookieTakenBy
<1>6. /\ call[c].pc = "refresh" /\ call[c].reply = "ok" => cookie # None /\ token.session = cookie.session
      /\ token # None => aged[token.session] \in Nat /\ token.n \in Nat
  <2>1. token \in Token \cup {None} /\ aged \in [1 .. MaxSessions -> Nat]
    BY <1>1, CallFields DEF Typed
  <2>2. 1 .. MaxRotations \subseteq Nat
    BY BrowserAssumption
  <2> QED
    BY <1>1, <2>1, <2>2, TokenFields DEF Signed
<1>7. /\ CookieLives' => CookieLives /\ cookie'.session = cookie.session
      /\ CookieLives' => call[c].reply # "lost" \/ faults # 0
  BY <1>2, <1>3, <1>4, <1>5, <1>6 DEF CookieLives, ServerRests, Answered, AInv, Faultless
<1>8. ASSUME faults = 0, CookieLives' PROVE Unspent'
  <2>1. CASE call[c].pc = "refresh" /\ call[c].reply = "ok"
    BY <1>2, <1>4, <1>5, <2>1 DEF Unspent, Fresh, ServerRests
  <2>2. CASE ~(call[c].pc = "refresh" /\ call[c].reply = "ok")
    <3>1. cookie' = cookie
      BY <1>3, <1>5, <1>8, <2>2 DEF CookieLives
    <3>2. cookie.n = rotation[cookie.session]
      BY <1>4, <1>7, <1>8, <2>2 DEF AInv, Faultless, Unspent, Holds
    <3> QED
      BY <1>2, <3>1, <3>2 DEF Unspent, ServerRests
  <2> QED
    BY <2>1, <2>2
<1>9. ASSUME \A d \in Callers \ {c} : Same(d),
             faults = 0 /\ CookieLives' /\ Dooms(c) => Dooms(c)'
      PROVE  Faultless'
  <2> SUFFICES ASSUME faults = 0, CookieLives' PROVE Paired'
    BY <1>2, <1>8 DEF AInv, Faultless, Unspent, Paired
  <2>1. Awaited \/ Dooms(c)
    BY <1>4, <1>7 DEF AInv, Faultless, Paired, Persists, Dooms
  <2>2. CASE Awaited
    <3>1. PICK e \in Callers : Cleans(e)
      BY <2>2 DEF Awaited
    <3>2. e # c
      BY <1>3, <3>1 DEF Cleans
    <3>3. Cleans(e)' /\ stored'.token = None
      BY <1>2, <1>4, <1>9, <3>1, <3>2 DEF Cleans, Same
    <3> QED
      BY <3>3 DEF Paired, Awaited, OtherMember
  <2>3. CASE Dooms(c)
    BY <1>9, <2>3 DEF Paired
  <2> QED
    BY <2>1, <2>2, <2>3
<1>10. ASSUME again, goesOn("refresh", None) PROVE AInv'
  <2>1. /\ Order' /\ Numbers' /\ Ripeness' /\ \A d \in Callers \ {c} : Same(d)
        /\ call'[c].pc = "refresh" /\ call'[c].op = "end"
        /\ call'[c].captured = call[c].captured /\ call'[c].cleanup = call[c].cleanup
    BY <1>2, <1>3, <1>5, <1>10, EndGoesOn
  <2>2. ASSUME CookieLives', Dooms(c) PROVE Dooms(c)'
    <3>1. /\ token # None /\ ~Accepts(token) /\ token.session = cookie.session /\ CookieLives
          /\ asked = None => token.n > aged[cookie.session]
          /\ asked # None => Owner(asked) = Owner(cookie)
          /\ cookie'.session = cookie.session
      BY <1>4, <1>7, <1>10, <2>2 DEF Answered, Dooms
    <3>2. asked # None
      BY <3>1 DEF Accepts, CookieLives
    <3> QED
      BY <1>2, <2>1, <3>1, <3>2 DEF Dooms, Holds, Owner, ServerRests
  <2>3. Faultless'
    BY <1>9, <2>1, <2>2
  <2> QED
    BY <2>1, <2>3 DEF AInv
<1>11. ASSUME renewed, goesOn("relogout", token) PROVE AInv'
  <2>1. token.n > aged[token.session] /\ cookie' = token
    BY <1>4, <1>5, <1>11 DEF Fresh
  <2>2. /\ Order' /\ Numbers' /\ Ripeness' /\ \A d \in Callers \ {c} : Same(d)
        /\ call'[c].pc = "relogout" /\ call'[c].op = "end" /\ call'[c].token = token
    BY <1>2, <1>3, <1>5, <1>11, <2>1, EndGoesOn
  <2>3. Dooms(c)'
    BY <2>1, <2>2 DEF Dooms, Holds
  <2>4. Faultless'
    BY <1>9, <2>2, <2>3
  <2> QED
    BY <2>2, <2>4 DEF AInv
<1>12. ASSUME ~again, ~renewed, Settles(c) PROVE AInv'
  <2>1. Order' /\ Numbers' /\ Ripeness' /\ call'[c] = Idle /\ \A d \in Callers \ {c} : Same(d)
    BY <1>2, <1>4, <1>5, <1>12, Settling
  <2>2. ASSUME faults = 0, CookieLives', Dooms(c) PROVE FALSE
    <3>1. CookieLives /\ call[c].reply # "lost" /\ (cookie' # None)
      BY <1>7, <2>2 DEF CookieLives
    <3>2. CASE call[c].pc = "refresh"
      <4>1. call[c].reply = "ok" /\ ~call[c].cleanup /\ ~same
        BY <1>3, <1>5, <1>12, <3>1, <3>2
      <4> QED
        BY <1>6, <2>2, <3>2, <4>1 DEF Dooms, OtherMember, Owner
    <3>3. CASE call[c].pc = "relogout"
      <4>1. call[c].reply = "401"
        BY <1>3, <1>5, <3>1, <3>3
      <4> QED
        BY <1>4, <1>6, <2>2, <3>1, <3>3, <4>1 DEF Answered, Ripe, Dooms, Accepts, CookieLives
    <3>4. CASE call[c].pc = "logout"
      BY <1>3, <1>5, <1>12, <3>1, <3>4
    <3> QED
      BY <1>3, <3>2, <3>3, <3>4
  <2>3. Faultless'
    BY <1>9, <2>1, <2>2
  <2> QED
    BY <2>1, <2>3 DEF AInv
<1> QED
  BY <1>10, <1>11, <1>12 DEF ReceiveEnd

-----------------------------------------------------------------------------
(* The server's steps. *)

\* What an answer leaves of a call as it was.
Stays(d) ==
    /\ call'[d].tab = call[d].tab /\ call'[d].op = call[d].op /\ call'[d].pc = call[d].pc
    /\ call'[d].captured = call[d].captured /\ call'[d].current = call[d].current
    /\ call'[d].cleanup = call[d].cleanup
    /\ call[d].pc \in {"data", "retry", "logout", "relogout"} => call'[d].token = call[d].token

\* The sessions that have begun are those of before, or have ended.
Wanes == \A s \in DOMAIN owner : s \in live' => s \in live

LEMMA OrderStays ==
    ASSUME Order, UNCHANGED tabs, \A d \in Callers : Stays(d)
    PROVE  Order'
<1>1. UNCHANGED <<stored, env, ends, exchanges, unheard, lineages>>
  BY DEF tabs
<1>2. \A t \in Tabs : Exchanges(t)' = Exchanges(t)
  BY DEF Exchanges, Stays
<1>3. \A e \in Callers : Cleans(e)' = Cleans(e)
  BY DEF Cleans, Stays
<1>4. Heard' /\ Last' /\ InFlight'
  BY <1>1, <1>2 DEF Order, Heard, Last, InFlight
<1>5. \A d \in Callers : Since(d)' /\ Older(d)'
  BY <1>1 DEF Order, Since, Older, Stays
<1>6. \A d \in Callers : Exchanging(d)'
  BY <1>1, <1>3 DEF Order, Exchanging, Stays
<1> QED
  BY <1>4, <1>5, <1>6 DEF Order

LEMMA RipenessStays ==
    ASSUME Ripeness, UNCHANGED tabs, aged' = aged, \A d \in Callers : Stays(d)
    PROVE  Ripeness'
<1>1. UNCHANGED <<stored, env, ends>> /\ Young' = Young
  BY DEF tabs, Young
<1>2. RipeTabs'
  BY <1>1 DEF Ripeness, RipeTabs
<1>3. ASSUME NEW d \in Callers PROVE Ripe(d)'
  <2>1. Ripe(d) /\ Stays(d)
    BY DEF Ripeness
  <2>2. Overtaken(d)' = Overtaken(d) /\ Holds(d)' = Holds(d)
    BY <1>1, <2>1 DEF Overtaken, Holds, Stays
  <2> QED
    BY <1>1, <2>1, <2>2 DEF Ripe, Stays, NewerThan
<1> QED
  BY <1>2, <1>3 DEF Ripeness

\* The numbers stay in order for the calls that are not answered.
LEMMA NumbersStay ==
    ASSUME IInv, Numbers, NEW c \in Callers, \A d \in Callers \ {c} : call'[d] = call[d],
           call[c].pc # "idle", Stays(c), UNCHANGED tabs, cookie' = cookie, aged' = aged,
           faults' \in Nat, faults \in Nat, faults <= faults', Wanes, Serial',
           rotation' = rotation \/ (call[c].pc = "refresh" /\ \A s \in 1 .. MaxSessions : rotation[s] <= rotation'[s]),
           rotation' \in [1 .. MaxSessions -> Nat],
           Past(call[c].token)', Answered(c)', Fresh(c)'
    PROVE  Numbers'
<1>1. Typed /\ Kin /\ Signed /\ \A d \in Callers : Sent(d)
  BY DEF IInv
<1>2. stored' = stored /\ stored.token \in Token \cup {None}
  BY <1>1, EnvelopeFields DEF tabs, Typed
<1>3. \A d \in Callers : call[d].token \in Token \cup {None} /\ Begun(call[d].token)
  BY <1>1, CallFields DEF Typed, Sent
<1>4. \A token \in Token \cup {None} : Past(token) => Past(token)'
  <2>1. \A token \in Token : token.n \in Nat /\ token.session \in 1 .. MaxSessions
    BY TokenFields, BrowserAssumption
  <2>2. rotation \in [1 .. MaxSessions -> Nat]
    BY <1>1, BrowserAssumption DEF Typed
  <2> QED
    BY <2>1, <2>2 DEF Past
<1>5. Numbered'
  BY <1>1, <1>2, <1>3, <1>4 DEF Numbers, Numbered, Typed
<1>6. ASSUME NEW d \in Callers \ {c} PROVE Answered(d)' /\ Fresh(d)'
  <2>1. Answered(d) /\ Fresh(d) /\ call'[d] = call[d]
    BY DEF Numbers
  <2>2. call[d].token # None => call[d].token.session \in DOMAIN owner
    BY <1>3 DEF Begun
  <2>3. call[d].pc \in {"logout", "relogout"} => call[d].token # None
    BY DEF IInv, Shaped
  <2>4. Answered(d)'
    BY <2>1, <2>2, <2>3 DEF Answered, Accepts, Wanes
  <2>5. Fresh(d)'
    <3>1. CASE ~(call[d].pc \in {"refresh", "exchange"} /\ call[d].reply = "ok")
      BY <2>1, <3>1 DEF Fresh
    <3>2. CASE call[d].pc \in {"refresh", "exchange"} /\ call[d].reply = "ok"
      <4>1. rotation' = rotation
        BY <3>2, Alone DEF Holds
      <4>2. \A e \in Callers : call'[e].pc = "data" => call[e].pc = "data" /\ call'[e].token = call[e].token
        BY DEF Stays
      <4> QED
        BY <1>2, <2>1, <3>2, <4>1, <4>2 DEF Fresh
    <3> QED
      BY <3>1, <3>2
  <2> QED
    BY <2>4, <2>5
<1> QED
  BY <1>5, <1>6 DEF Numbers

\* Whom the cookie belongs to does not change.
LEMMA FaultlessStays ==
    ASSUME IInv, Faultless, UNCHANGED tabs, cookie' = cookie, aged' = aged, Begins, Wanes,
           UNCHANGED <<faults, replays>>, \A d \in Callers : Stays(d),
           \/ rotation' = rotation /\ \A d \in Callers : call[d].pc = "refresh" /\ call[d].reply = "ok" =>
                                                            call'[d].reply = "ok"
           \/ \E d \in Callers : call[d].pc = "refresh" /\ call'[d].reply = "ok"
    PROVE  Faultless'
<1> SUFFICES ASSUME faults = 0, CookieLives' PROVE Unspent' /\ Paired'
  BY DEF Faultless, Unspent, Paired
<1>1. Unspent /\ Paired /\ stored' = stored
  BY DEF Faultless, tabs
<1>2. Typed /\ Kin /\ Signed
  BY DEF IInv
<1>3. Begun(cookie) /\ Begun(stored.token)
  BY <1>2 DEF Signed, Kin, Envelopes
<1>4. CookieLives
  BY <1>3 DEF CookieLives, Wanes, Begun
<1>5. \A k : k # None /\ Begun(k) => Owner(k)' = Owner(k)
  <2>1. owner \in Seq(Members)
    BY <1>2 DEF Typed
  <2>2. \A s \in DOMAIN owner : owner'[s] = owner[s]
    BY <2>1 DEF Begins
  <2> QED
    BY <2>2 DEF Begun, Owner
<1>6. Unspent'
  BY <1>1, <1>4 DEF Unspent, Stays
<1>7. CASE Persists
  BY <1>1, <1>6, <1>7 DEF Paired, Persists
<1>8. CASE Awaited
  <2>1. PICK e \in Callers : Cleans(e) /\ ~OtherMember(call[e].captured.token, stored.token)
    BY <1>8 DEF Awaited
  <2>2. Begun(call[e].captured.token)
    BY <2>1, Lineages DEF Cleans
  <2>3. Cleans(e)' /\ ~OtherMember(call[e].captured.token, stored.token)'
    BY <1>1, <1>3, <1>5, <2>1, <2>2 DEF Cleans, Stays, OtherMember
  <2> QED
    BY <1>6, <2>3 DEF Paired, Awaited
<1>9. CASE \E e \in Callers : Dooms(e)
  <2>1. PICK e \in Callers : Dooms(e)
    BY <1>9
  <2>2. Begun(call[e].captured.token)
    BY <2>1, Lineages DEF Dooms
  <2>3. Dooms(e)'
    BY <1>3, <1>4, <1>5, <2>1, <2>2 DEF Dooms, Stays, Holds, CookieLives
  <2> QED
    BY <1>6, <2>3 DEF Paired
<1> QED
  BY <1>1, <1>4, <1>7, <1>8, <1>9 DEF Paired

\* An answer that brings no token.
LEMMA AnswerStays ==
    ASSUME IInv, AInv, NEW c \in Callers, call[c].pc # "idle",
           NEW reply \in {"ok", "401", "lost"}, Replies(c, reply),
           UNCHANGED <<tabs, cookie, owner, rotation, aged>>, live' \subseteq live,
           faults' = faults \/ faults' = faults + 1,
           reply = "ok" => call[c].pc \notin {"refresh", "exchange"}, Answered(c)'
    PROVE  /\ Order' /\ Numbers' /\ Ripeness' /\ \A d \in Callers : Stays(d)
           /\ call'[c].reply = reply /\ \A d \in Callers \ {c} : call'[d] = call[d]
<1>1. Typed /\ Numbers /\ Order /\ Ripeness /\ faults \in Nat
  BY DEF IInv, AInv, Faultless
<1>2. /\ \A d \in Callers \ {c} : call'[d] = call[d]
      /\ call'[c].reply = reply /\ call'[c].token = call[c].token /\ call'[c].pc = call[c].pc
      /\ Stays(c)
  BY <1>1, Replying DEF Stays
<1>3. \A d \in Callers : Stays(d)
  BY <1>2 DEF Stays
<1>4. Order' /\ Ripeness'
  BY <1>1, <1>3, OrderStays, RipenessStays
<1>5. Wanes /\ Serial'
  BY <1>1 DEF Wanes, Numbers, Serial
<1>6. Past(call[c].token)' /\ Fresh(c)'
  BY <1>1, <1>2, BrowserAssumption DEF Numbers, Numbered, Past, Fresh
<1>7. rotation' \in [1 .. MaxSessions -> Nat] /\ faults' \in Nat /\ faults <= faults'
  BY <1>1, BrowserAssumption DEF Typed
<1>8. Numbers'
  BY <1>1, <1>2, <1>5, <1>6, <1>7, NumbersStay
<1> QED
  BY <1>2, <1>3, <1>4, <1>8

LEMMA ServeDataSettles ==
    ASSUME IInv, IInv', AInv, NEW c \in Callers, ServeData(c)
    PROVE  AInv'
<1> DEFINE reply == IF call[c].token = None \/ Accepts(call[c].token) THEN "ok" ELSE "401"
<1>1. /\ call[c].pc \in {"data", "retry"} /\ Replies(c, reply) /\ Begins /\ live' = live
      /\ UNCHANGED <<tabs, cookie, owner, rotation, aged, faults, replays>>
  BY DEF ServeData, Unanswered, server, history, Begins
<1>2. /\ Typed /\ reply \in {"ok", "401", "lost"}
      /\ reply = "401" => call[c].token # None /\ ~Accepts(call[c].token)
  BY DEF IInv
<1> HIDE DEF reply
<1>3. /\ call'[c].pc = call[c].pc /\ call'[c].reply = reply /\ call'[c].token = call[c].token
  BY <1>1, <1>2, Replying
<1>4. Answered(c)'
  <2>1. Accepts(call[c].token)' = Accepts(call[c].token)
    BY <1>1, <1>3 DEF Accepts
  <2>2. reply # "lost"
    BY DEF reply
  <2> QED
    BY <1>1, <1>2, <1>3, <2>1, <2>2 DEF Answered
<1>5. /\ Order' /\ Numbers' /\ Ripeness' /\ \A d \in Callers : Stays(d)
      /\ \A d \in Callers \ {c} : call'[d] = call[d]
  BY <1>1, <1>2, <1>4, AnswerStays
<1>6. Faultless'
  BY <1>1, <1>5, FaultlessStays DEF AInv, Wanes
<1> QED
  BY <1>5, <1>6 DEF AInv

LEMMA ServeLogoutSettles ==
    ASSUME IInv, IInv', AInv, NEW c \in Callers, ServeLogout(c)
    PROVE  AInv'
<1> DEFINE token == call[c].token
<1>1. /\ call[c].pc \in {"logout", "relogout"} /\ Begins
      /\ UNCHANGED <<tabs, cookie, owner, rotation, aged, faults, replays>>
  BY DEF ServeLogout, Unanswered, history, Begins
<1>2. Typed /\ Shaped(c)
  BY DEF IInv
<1>3. PICK reply \in {"ok", "401"} :
          /\ Replies(c, reply) /\ live' \subseteq live
          /\ reply = "ok" => token.session \notin live'
          /\ reply = "401" => ~Accepts(token) /\ live' = live
  <2>1. CASE ~Accepts(token) /\ Replies(c, "401") /\ UNCHANGED live
    BY <2>1
  <2>2. CASE /\ Accepts(token) /\ Replies(c, "ok")
             /\ \E gone \in {{token.session}, {s \in live : owner[s] = Owner(token)}} : live' = live \ gone
    <3>1. token.session \notin live' /\ live' \subseteq live
      BY <2>2 DEF Accepts, Owner
    <3> QED
      BY <2>2, <3>1
  <2> QED
    BY <2>1, <2>2 DEF ServeLogout
<1>4. /\ call'[c].pc = call[c].pc /\ call'[c].reply = reply /\ call'[c].token = call[c].token
  BY <1>2, <1>3, Replying
<1>5. Answered(c)'
  <2>1. reply = "401" => call[c].token # None /\ ~Accepts(call[c].token)'
    BY <1>1, <1>2, <1>3, <1>4 DEF Accepts, Shaped
  <2> QED
    BY <1>1, <1>3, <1>4, <2>1 DEF Answered
<1>6. /\ Order' /\ Numbers' /\ Ripeness' /\ \A d \in Callers : Stays(d)
      /\ \A d \in Callers \ {c} : call'[d] = call[d]
  BY <1>1, <1>3, <1>5, AnswerStays
<1>7. Faultless'
  BY <1>1, <1>3, <1>6, FaultlessStays DEF AInv, Wanes
<1> QED
  BY <1>6, <1>7 DEF AInv

LEMMA LoseSettles ==
    ASSUME IInv, IInv', AInv, NEW c \in Callers, Lose(c)
    PROVE  AInv'
<1>1. /\ call[c].pc \in {"refresh", "exchange", "logout", "relogout"} /\ Replies(c, "lost")
      /\ faults' = faults + 1 /\ live' = live
      /\ UNCHANGED <<tabs, cookie, owner, rotation, aged>>
  BY DEF Lose, server
<1>2. Typed /\ faults \in Nat
  BY DEF IInv, AInv, Faultless
<1>3. call'[c].reply = "lost" /\ faults' > 0
  BY <1>1, <1>2, Replying
<1>4. Answered(c)'
  BY <1>3 DEF Answered
<1>5. Order' /\ Numbers' /\ Ripeness'
  BY <1>1, <1>4, AnswerStays
<1>6. Faultless'
  BY <1>1, <1>2 DEF Faultless
<1> QED
  BY <1>5, <1>6 DEF AInv

LEMMA ServeRefreshSettles ==
    ASSUME IInv, IInv', AInv, NEW c \in Callers, ServeRefresh(c)
    PROVE  AInv'
<1> DEFINE s == cookie.session
           n == rotation[s] + 1
<1>1. /\ call[c].pc = "refresh" /\ call[c].reply = None /\ Begins
      /\ UNCHANGED <<tabs, cookie, owner, aged, faults>>
  BY DEF ServeRefresh, Unanswered, Begins
<1>2. /\ Typed /\ Numbers /\ Order /\ Ripeness /\ faults \in Nat
      /\ rotation \in [1 .. MaxSessions -> 1 .. MaxRotations]
      /\ aged \in [1 .. MaxSessions -> Nat] /\ MaxRotations \in Nat
  BY BrowserAssumption DEF IInv, AInv, Typed, Faultless
<1>3. ASSUME Replies(c, "401"), live' \subseteq live, rotation' = rotation
      PROVE  /\ Order' /\ Numbers' /\ Ripeness' /\ \A d \in Callers : Stays(d)
             /\ \A d \in Callers \ {c} : call'[d] = call[d]
  <2>1. Answered(c)'
    BY <1>1, <1>2, <1>3, Replying DEF Answered
  <2> QED
    BY <1>1, <1>3, <2>1, AnswerStays
<1>4. CASE Replies(c, "401") /\ UNCHANGED <<live, rotation, replays>>
  <2>1. /\ Order' /\ Numbers' /\ Ripeness' /\ \A d \in Callers : Stays(d)
        /\ \A d \in Callers \ {c} : call'[d] = call[d]
    BY <1>3, <1>4
  <2>2. Faultless'
    BY <1>1, <1>4, <2>1, FaultlessStays, BrowserAssumption DEF AInv, Wanes
  <2> QED
    BY <2>1, <2>2 DEF AInv
<1>5. CASE /\ cookie # None /\ s \in live /\ cookie.n # rotation[s]
           /\ live' = live \ {s} /\ Replies(c, "401") /\ rotation' = rotation
  <2>1. Order' /\ Numbers' /\ Ripeness'
    BY <1>3, <1>5
  <2>2. \A d \in Callers : ~(call[d].pc = "refresh" /\ call[d].reply = "ok")
    BY <1>1, Alone, BrowserAssumption DEF Holds
  <2>3. faults # 0
    BY <1>5, <2>2 DEF AInv, Faultless, Unspent, CookieLives
  <2>4. Faultless'
    BY <1>1, <1>2, <2>3 DEF Faultless
  <2> QED
    BY <2>1, <2>4 DEF AInv
<1>6. CASE /\ cookie # None /\ s \in live /\ rotation[s] < MaxRotations
           /\ rotation' = [rotation EXCEPT ![s] = @ + 1] /\ Grants(c, [session |-> s, n |-> n])
           /\ UNCHANGED <<live, replays>>
  <2>1. s \in 1 .. MaxSessions /\ s \in DOMAIN owner
    BY <1>2, <1>6, TokenFields DEF Typed, Numbers, Serial
  <2>2. /\ rotation[s] \in Nat /\ n \in 1 .. MaxRotations /\ rotation'[s] = n /\ n > rotation[s]
        /\ \A u \in 1 .. MaxSessions : rotation[u] \in Nat /\ (u # s => rotation'[u] = rotation[u])
    BY <1>2, <1>6, <2>1
  <2>3. PICK token \in Token : Grants(c, token) /\ token.session = s /\ token.n = n /\ token # None
    <3>1. [session |-> s, n |-> n] \in Token
      BY <2>1, <2>2 DEF Token
    <3> QED
      BY <1>6, <3>1, TokenFields
  <2>4. /\ \A d \in Callers \ {c} : call'[d] = call[d]
        /\ call'[c].reply = "ok" /\ call'[c].token = token /\ call'[c].pc = "refresh" /\ Stays(c)
    BY <1>1, <1>2, <2>3, Granting DEF Stays
  <2>5. \A d \in Callers : Stays(d)
    BY <2>4 DEF Stays
  <2>6. Order' /\ Ripeness'
    BY <1>1, <1>2, <2>5, OrderStays, RipenessStays
  <2>7. Wanes /\ Serial'
    <3>1. \A u \in 1 .. MaxSessions : aged[u] <= rotation'[u] /\ (u \notin DOMAIN owner => rotation'[u] = 1 /\ aged[u] = 0)
      BY <1>2, <2>1, <2>2 DEF Numbers, Serial
    <3> QED
      BY <1>1, <1>2, <1>6, <3>1 DEF Wanes, Numbers, Serial
  <2>8. Answered(c)' /\ Past(call[c].token)'
    BY <2>2, <2>3, <2>4 DEF Answered, Past
  <2>9. \A k \in Token \cup {None} : Past(k) => NewerThan(token, k)
    <3>1. \A k \in Token : k.n \in Nat /\ k.session \in 1 .. MaxSessions
      BY TokenFields, BrowserAssumption
    <3> QED
      BY <2>2, <2>3, <3>1 DEF Past, NewerThan
  <2>10. Fresh(c)'
    <3>1. stored' = stored /\ NewerThan(token, stored.token)
      BY <1>1, <1>2, <2>9, EnvelopeFields DEF tabs, Typed, Numbers, Numbered
    <3>2. \A d \in Callers : call'[d].pc = "data" => NewerThan(token, call'[d].token)
      BY <1>2, <2>4, <2>9, CallFields DEF Typed, Numbers, Numbered
    <3>3. n > aged[s]
      BY <1>2, <2>1, <2>2 DEF Numbers, Serial
    <3> QED
      BY <1>1, <2>2, <2>3, <2>4, <3>1, <3>2, <3>3 DEF Fresh
  <2>11. /\ rotation' \in [1 .. MaxSessions -> Nat]
         /\ \A u \in 1 .. MaxSessions : rotation[u] <= rotation'[u]
    BY <1>2, <1>6, <2>1, <2>2
  <2>12. Numbers'
    BY <1>1, <1>2, <2>4, <2>7, <2>8, <2>10, <2>11, NumbersStay
  <2>13. Faultless'
    BY <1>1, <1>6, <2>4, <2>5, <2>7, FaultlessStays DEF AInv
  <2> QED
    BY <2>6, <2>12, <2>13 DEF AInv
<1> QED
  BY <1>4, <1>5, <1>6 DEF ServeRefresh

LEMMA ServeExchangeSettles ==
    ASSUME IInv, IInv', AInv, NEW c \in Callers, ServeExchange(c)
    PROVE  AInv'
<1> DEFINE s == Len(owner) + 1
<1>1. /\ call[c].pc = "exchange" /\ call[c].reply = None /\ Begins /\ live' = live \cup {s}
      /\ Grants(c, [session |-> s, n |-> 1]) /\ Len(owner) < MaxSessions
      /\ UNCHANGED <<tabs, cookie, rotation, aged, faults, replays>>
  BY DEF ServeExchange, Unanswered, Begins, history
<1>2. /\ Typed /\ Numbers /\ Order /\ Ripeness /\ faults \in Nat /\ owner \in Seq(Members)
      /\ rotation \in [1 .. MaxSessions -> 1 .. MaxRotations] /\ MaxSessions \in Nat
      /\ aged \in [1 .. MaxSessions -> Nat] /\ MaxRotations \in Nat \ {0}
  BY BrowserAssumption DEF IInv, AInv, Typed, Faultless
<1>3. s \in 1 .. MaxSessions /\ s \notin DOMAIN owner
  BY <1>1, <1>2
<1>4. DOMAIN owner' = DOMAIN owner \cup {s}
  BY <1>2 DEF ServeExchange
<1>5. rotation[s] = 1 /\ aged[s] = 0
  BY <1>2, <1>3 DEF Numbers, Serial
<1>6. PICK token \in Token : Grants(c, token) /\ token.session = s /\ token.n = 1 /\ token # None
  <2>1. [session |-> s, n |-> 1] \in Token
    BY <1>2, <1>3 DEF Token
  <2> QED
    BY <1>1, <2>1, TokenFields
<1>7. /\ \A d \in Callers \ {c} : call'[d] = call[d]
      /\ call'[c].reply = "ok" /\ call'[c].token = token /\ call'[c].pc = "exchange" /\ Stays(c)
  BY <1>1, <1>2, <1>6, Granting DEF Stays
<1>8. \A d \in Callers : Stays(d)
  BY <1>7 DEF Stays
<1>9. Order' /\ Ripeness'
  BY <1>1, <1>2, <1>8, OrderStays, RipenessStays
<1>10. Wanes /\ Serial'
  BY <1>1, <1>2, <1>3, <1>4 DEF Wanes, Numbers, Serial
<1>11. Answered(c)' /\ Past(call[c].token)' /\ Fresh(c)'
  BY <1>1, <1>5, <1>6, <1>7 DEF Answered, Past, Fresh
<1>12. /\ rotation' \in [1 .. MaxSessions -> Nat] /\ rotation' = rotation
       /\ faults' \in Nat /\ faults <= faults' /\ call[c].pc # "idle"
       /\ UNCHANGED <<tabs, cookie, aged>>
  BY <1>1, <1>2
<1>13. Numbers'
  BY <1>2, <1>7, <1>10, <1>11, <1>12, NumbersStay
<1>14. Faultless'
  BY <1>1, <1>7, <1>8, <1>10, FaultlessStays, BrowserAssumption DEF AInv
<1> QED
  BY <1>9, <1>13, <1>14 DEF AInv

-----------------------------------------------------------------------------
(* The steps of no call. *)

\* A session ends by itself.
LEMMA LapseSettles ==
    ASSUME IInv, IInv', AInv, NEW s \in 1 .. MaxSessions, Lapse(s)
    PROVE  AInv'
<1>1. /\ UNCHANGED <<tabs, call, owner, rotation, aged, cookie, faults, replays>> /\ live' = live \ {s}
      /\ Begins /\ Wanes
  BY DEF Lapse, history, Begins, Wanes
<1>2. \A d \in Callers : Stays(d)
  BY <1>1 DEF Stays
<1>3. Order' /\ Ripeness'
  BY <1>1, <1>2, OrderStays, RipenessStays DEF AInv
<1>4. Faultless'
  BY <1>1, <1>2, FaultlessStays DEF AInv
<1>5. Numbers'
  <2>1. Numbers /\ stored' = stored
    BY <1>1 DEF AInv, tabs
  <2>2. Serial'
    BY <1>1, <2>1 DEF Numbers, Serial
  <2>3. Numbered'
    BY <1>1, <2>1 DEF Numbers, Numbered, Past
  <2>4. \A d \in Callers : Answered(d)'
    BY <1>1, <2>1 DEF Numbers, Answered, Accepts
  <2>5. \A d \in Callers : Fresh(d)'
    BY <1>1, <2>1 DEF Numbers, Fresh
  <2> QED
    BY <2>2, <2>3, <2>4, <2>5 DEF Numbers
<1> QED
  BY <1>3, <1>4, <1>5 DEF AInv

\* Tokens expire while the calls under way, if any, have just been sent with
\* the last of them: what is persisted in their lineage meanwhile is newer.
LEMMA AgeSettles ==
    ASSUME IInv, IInv', AInv, NEW s \in 1 .. MaxSessions, Age(s)
    PROVE  AInv'
<1>1. /\ UNCHANGED <<tabs, call, owner, live, rotation, cookie, faults, replays>>
      /\ aged' = [aged EXCEPT ![s] = rotation[s]] /\ s \in live
      /\ \A c \in Callers : call[c] # Idle =>
            /\ call[c].pc = "data" /\ call[c].reply = None
            /\ call[c].token = [session |-> s, n |-> rotation[s]]
  BY DEF Age, history, Unanswered
<1>2. /\ UNCHANGED <<stored, env, ends, exchanges, unheard, lineages>>
      /\ Typed /\ Numbers /\ Ripeness /\ \A c \in Callers : Shaped(c)
      /\ aged \in [1 .. MaxSessions -> Nat] /\ rotation \in [1 .. MaxSessions -> 1 .. MaxRotations]
  BY <1>1 DEF tabs, IInv, AInv, Typed
<1>3. /\ aged'[s] = rotation[s] /\ rotation[s] \in Nat
      /\ \A u \in 1 .. MaxSessions : u # s => aged'[u] = aged[u]
  BY <1>1, <1>2, BrowserAssumption
<1>4. \A c \in Callers : /\ call[c].pc \in {"idle", "data"} /\ call[c].op # "end"
                         /\ call[c].reply = None /\ ~Holds(c)
  BY <1>1, <1>2, Quiet, BrowserAssumption DEF Shaped, Holds
<1>5. Order'
  BY <1>1, OrderStays DEF AInv, Stays
<1>6. Numbers'
  <2>1. Serial'
    BY <1>1, <1>2, <1>3 DEF Numbers, Serial
  <2>2. Numbered'
    BY <1>1, <1>2 DEF Numbers, Numbered, Past
  <2>3. \A d \in Callers : Answered(d)' /\ Fresh(d)'
    BY <1>1, <1>4, BrowserAssumption DEF Answered, Fresh
  <2> QED
    BY <2>1, <2>2, <2>3 DEF Numbers
<1>7. ASSUME NEW d \in Callers, Overtaken(d), call[d].pc = "data"
      PROVE  NewerThan(stored.token, call[d].token) /\ Young'
  <2>1. Young /\ NewerThan(stored.token, call[d].token) /\ stored' = stored
    BY <1>2, <1>7 DEF Ripeness, Ripe
  <2>2. call[d].token = [session |-> s, n |-> rotation[s]] /\ call[d].token # None
    <3>1. call[d].token = [session |-> s, n |-> rotation[s]]
      BY <1>1, <1>7, Quiet
    <3>2. [session |-> s, n |-> rotation[s]] \in Token
      BY <1>2 DEF Token
    <3> QED
      BY <3>1, <3>2, TokenFields
  <2>3. stored.token \in Token \cup {None}
    BY <1>2, EnvelopeFields DEF Typed
  <2>4. CASE stored.token # None /\ stored.token.session = s
    BY <1>3, <2>1, <2>2, <2>4 DEF Young, NewerThan
  <2>5. CASE stored.token # None /\ stored.token.session # s
    BY <1>3, <2>1, <2>3, <2>5, TokenFields DEF Young
  <2>6. CASE stored.token = None
    BY <2>1, <2>6 DEF Young
  <2> QED
    BY <2>1, <2>4, <2>5, <2>6
<1>8. Ripeness'
  <2>1. \A t \in Tabs : ~(ends[t] > 0)
    BY <1>4, EndCounts DEF EndsCounted
  <2>2. RipeTabs'
    BY <1>2, <2>1 DEF RipeTabs
  <2>3. ASSUME NEW d \in Callers PROVE Ripe(d)'
    <3>1. Overtaken(d)' => Overtaken(d) /\ call[d].pc = "data"
      BY <1>1, <1>2, <1>4 DEF Overtaken
    <3>2. (Overtaken(d) => Young /\ NewerThan(stored.token, call[d].token))'
      BY <1>1, <1>2, <1>7, <3>1 DEF NewerThan
    <3> QED
      BY <1>1, <1>4, <3>2 DEF Ripe
  <2> QED
    BY <2>2, <2>3 DEF Ripeness
<1>9. Faultless'
  BY <1>1, <1>2, <1>4 DEF AInv, Faultless, CookieLives, Unspent, Paired, Persists, Awaited, Dooms,
                          Cleans, OtherMember, Owner
<1> QED
  BY <1>5, <1>6, <1>8, <1>9 DEF AInv

\* A tab is loaded anew, which is a fault.
LEMMA ReloadSettles ==
    ASSUME IInv, IInv', AInv, NEW t \in Tabs, Reload(t)
    PROVE  AInv'
<1>1. /\ faults' = faults + 1 /\ env' = [env EXCEPT ![t] = stored] /\ ends' = [ends EXCEPT ![t] = 0]
      /\ exchanges' = [exchanges EXCEPT ![t] = 0] /\ unheard' = unheard \ {t}
      /\ call' = [c \in Callers |-> IF call[c].tab = t THEN Idle ELSE call[c]]
      /\ UNCHANGED <<stored, lineages, owner, live, rotation, aged, cookie>>
  BY DEF Reload, server
<1>2. Typed /\ Order /\ Numbers /\ Ripeness /\ faults \in Nat /\ \A d \in Callers : Shaped(d)
  BY DEF IInv, AInv, Faultless
<1>3. \A c \in Callers : /\ call[c].tab = t => call'[c] = Idle
                         /\ call[c].tab # t => call'[c] = call[c]
  BY <1>1
<1>4. /\ env'[t] = stored /\ ends'[t] = 0 /\ exchanges'[t] = 0
      /\ \A u \in Tabs : u # t => env'[u] = env[u] /\ ends'[u] = ends[u] /\ exchanges'[u] = exchanges[u]
  BY <1>1, <1>2 DEF Typed
<1>5. Idle.op \notin {"end", "request"} /\ Idle.pc = "idle" /\ Idle.reply = None /\ Idle.token = None
  BY Quiet, BrowserAssumption
<1> HIDE DEF Idle
<1>6. Order'
  <2>1. Heard' /\ Last'
    BY <1>1, <1>2, <1>4 DEF Order, Heard, Last
  <2>2. InFlight'
    <3>1. ~Exchanges(t)' /\ \A u \in Tabs \ {t} : Exchanges(u)' = Exchanges(u)
      BY <1>2, <1>3, <1>5 DEF Exchanges, Shaped
    <3> QED
      BY <1>2, <1>4, <3>1 DEF Order, InFlight
  <2>3. ASSUME NEW d \in Callers PROVE Since(d)' /\ Older(d)'
    <3>1. CASE call[d].tab = t
      BY <1>3, <1>5, <3>1 DEF Since, Older
    <3>2. CASE call[d].tab # t
      <4>1. call'[d] = call[d] /\ Since(d) /\ Older(d)
        BY <1>2, <1>3, <3>2 DEF Order
      <4>2. Since(d)'
        BY <1>1, <4>1 DEF Since
      <4>3. call[d].op = "request" => call[d].tab \in Tabs
        BY <1>2, BrowserAssumption DEF Shaped
      <4>4. \A e \in Callers : call'[e].op = "end" => call'[e] = call[e]
        BY <1>3, <1>5
      <4>5. Older(d)'
        BY <1>4, <3>2, <4>1, <4>3, <4>4 DEF Older
      <4> QED
        BY <4>2, <4>5
    <3> QED
      BY <3>1, <3>2
  <2>4. ASSUME NEW d \in Callers, call'[d].pc = "exchange" PROVE Exchanging(d)'
    <3>1. call[d].tab # t /\ call'[d] = call[d] /\ call[d].tab \in Tabs /\ Exchanging(d)
      BY <1>2, <1>3, <1>5, <2>4 DEF Shaped, Order
    <3>2. \A e \in Callers : Cleans(e) /\ call[e].tab = call[d].tab => call'[e] = call[e] /\ Cleans(e)'
      BY <1>3, <3>1 DEF Cleans
    <3> QED
      BY <1>1, <1>4, <3>1, <3>2 DEF Exchanging
  <2> QED
    BY <2>1, <2>2, <2>3, <2>4 DEF Order, Exchanging
<1>7. Numbers'
  <2>1. Serial'
    BY <1>1, <1>2 DEF Numbers, Serial
  <2>2. Numbered'
    BY <1>1, <1>2, <1>3, <1>5 DEF Numbers, Numbered, Past
  <2>3. \A d \in Callers : Answered(d)'
    BY <1>1, <1>2, <1>3, <1>5 DEF Numbers, Answered, Accepts
  <2>4. \A d \in Callers : Fresh(d)'
    BY <1>1, <1>2, <1>3, <1>5 DEF Numbers, Fresh
  <2> QED
    BY <2>1, <2>2, <2>3, <2>4 DEF Numbers
<1>8. Young' = Young
  BY <1>1 DEF Young
<1>9. RipeTabs'
  BY <1>1, <1>2, <1>4, <1>8 DEF Ripeness, RipeTabs
<1>10. ASSUME NEW d \in Callers PROVE Ripe(d)'
  <2>1. CASE call[d].tab = t
    BY <1>3, <1>5, <2>1 DEF Ripe, Overtaken
  <2>2. CASE call[d].tab # t
    <3>1. call'[d] = call[d] /\ Ripe(d) /\ Holds(d)' = Holds(d)
      BY <1>2, <1>3, <2>2 DEF Ripeness, Holds
    <3>2. call[d].op = "request" => call[d].tab \in Tabs
      BY <1>2, BrowserAssumption DEF Shaped
    <3>3. Overtaken(d)' => Overtaken(d)
      BY <1>1, <1>4, <2>2, <3>1, <3>2 DEF Overtaken
    <3> QED
      BY <1>1, <1>8, <3>1, <3>3 DEF Ripe, NewerThan
  <2> QED
    BY <2>1, <2>2
<1>11. Ripeness'
  BY <1>9, <1>10 DEF Ripeness
<1>12. Faultless'
  BY <1>1, <1>2 DEF Faultless
<1> QED
  BY <1>6, <1>7, <1>11, <1>12 DEF AInv

-----------------------------------------------------------------------------
(* The theorem. *)

LEMMA SettledStarts == Init => AInv
<1> SUFFICES ASSUME Init PROVE AInv
  OBVIOUS
<1>1. /\ stored = [revision |-> 1, lineage |-> 1, token |-> cookie] /\ env = [t \in Tabs |-> stored]
      /\ ends = [t \in Tabs |-> 0] /\ exchanges = [t \in Tabs |-> 0] /\ lineages = 1
      /\ faults = 0 /\ replays = {} /\ live = DOMAIN owner
      /\ rotation = [s \in 1 .. MaxSessions |-> 1] /\ aged = [s \in 1 .. MaxSessions |-> 0]
      /\ \A c \in Callers : call[c] = Idle
  BY DEF Init
<1>2. stored.token = cookie /\ stored.lineage = 1
  BY <1>1
<1>3. 1 \in 1 .. MaxSessions
  BY BrowserAssumption
<1>4. DOMAIN owner \in {{}, {1}} /\ cookie \in {None, [session |-> 1, n |-> 1]}
  BY DEF Init
<1>5. \A c \in Callers : /\ call[c].op \notin {"end", "request"} /\ call[c].pc = "idle"
                         /\ call[c].reply = None /\ call[c].token = None
  BY <1>1, Quiet, BrowserAssumption
<1>6. Order
  BY <1>1, <1>2, <1>5 DEF Order, Heard, Last, InFlight, Exchanges, Since, Older, Exchanging
<1>7. Numbers
  BY <1>1, <1>2, <1>3, <1>4, <1>5, BrowserAssumption
     DEF Numbers, Serial, Numbered, Past, Answered, Fresh
<1>8. Ripeness
  BY <1>1, <1>5 DEF Ripeness, RipeTabs, Ripe, Overtaken
<1>9. Faultless
  BY <1>1, <1>2, <1>3, <1>4 DEF Faultless, Unspent, Paired, Persists, CookieLives
<1> QED
  BY <1>6, <1>7, <1>8, <1>9 DEF AInv

\* Nothing happens.
LEMMA SettledRests == AInv /\ UNCHANGED vars => AInv'
<1> SUFFICES ASSUME AInv, UNCHANGED vars PROVE AInv'
  OBVIOUS
<1>1. /\ UNCHANGED <<stored, env, ends, exchanges, unheard, lineages, call, owner, live, rotation, aged>>
      /\ UNCHANGED <<cookie, faults, replays>>
  BY DEF vars, tabs, server, history
<1>2. Order'
  BY <1>1 DEF AInv, Order, Heard, Last, InFlight, Exchanges, Since, Older, Exchanging, Cleans
<1>3. Numbers'
  BY <1>1 DEF AInv, Numbers, Serial, Numbered, Past, Answered, Accepts, Fresh, NewerThan
<1>4. Ripeness'
  BY <1>1 DEF AInv, Ripeness, RipeTabs, Ripe, Overtaken, Young, NewerThan, Holds
<1>5. Faultless'
  BY <1>1 DEF AInv, Faultless, CookieLives, Unspent, Paired, Persists, Awaited, Dooms, Cleans,
              OtherMember, Owner, Holds
<1> QED
  BY <1>2, <1>3, <1>4, <1>5 DEF AInv

LEMMA SettledSteps == AInv /\ IInv /\ Apart /\ [Next]_vars /\ Apart' => AInv'
<1> SUFFICES ASSUME AInv, IInv, Apart, [Next]_vars, Apart' PROVE AInv'
  OBVIOUS
<1>1. IInv'
  BY Steps
<1>2. ASSUME NEW c \in Callers, NEW t \in Tabs, Request(c, t) \/ Complete(c, t) \/ End(c, t)
      PROVE  AInv'
  BY <1>1, <1>2, RequestSettles, CompleteSettles, EndSettles
<1>3. ASSUME NEW c \in Callers,
             \/ DropData(c) \/ AnswerData(c) \/ AwaitRefresh(c) \/ LockedRefresh(c) \/ ReceiveRefresh(c)
             \/ DropRetry(c) \/ AnswerRetry(c) \/ ExpireRetry(c)
      PROVE  AInv'
  BY <1>1, <1>3, AnswersSettle, AwaitRefreshSettles, LockedRefreshSettles, ReceiveRefreshSettles,
     ExpireRetrySettles
<1>4. ASSUME NEW c \in Callers, LockedComplete(c) \/ ReceiveExchange(c) \/ LockedEnd(c) \/ ReceiveEnd(c)
      PROVE  AInv'
  BY <1>1, <1>4, LockedCompleteSettles, ReceiveExchangeSettles, LockedEndSettles, ReceiveEndSettles
<1>5. ASSUME NEW c \in Callers,
             ServeData(c) \/ ServeRefresh(c) \/ ServeExchange(c) \/ ServeLogout(c) \/ Lose(c)
      PROVE  AInv'
  BY <1>1, <1>5, ServeDataSettles, ServeRefreshSettles, ServeExchangeSettles, ServeLogoutSettles, LoseSettles
<1>6. ASSUME NEW t \in Tabs, Hear(t) \/ Reload(t)
      PROVE  AInv'
  BY <1>1, <1>6, HearSettles, ReloadSettles
<1>7. ASSUME NEW s \in 1 .. MaxSessions, Age(s) \/ Lapse(s)
      PROVE  AInv'
  BY <1>1, <1>7, AgeSettles, LapseSettles
<1>8. CASE Next
  BY <1>2, <1>3, <1>4, <1>5, <1>6, <1>7, <1>8 DEF Next
<1> QED
  BY <1>8, SettledRests

LEMMA SettledInvariant == Spec /\ []Apart => []AInv
BY SettledStarts, SettledSteps, Invariant, PTL DEF Spec

\* Once nothing is under way, every tab that has nothing to hear of shows what
\* is persisted; and if no answer was lost and no tab reloaded, no spent
\* cookie was presented and the cookie, if its session has not ended, is of
\* the session persisted and unspent: a sign-out or sign-in in one tab leaves
\* no session behind that another has replaced, however requests, sign-ins and
\* sign-outs of several tabs have met.
THEOREM TabsAgreeWhenSettled == Spec /\ []Apart => []AgreeWhenSettled
<1>1. AInv /\ IInv => AgreeWhenSettled
  <2> SUFFICES ASSUME AInv, IInv, \A c \in Callers : call[c] = Idle
               PROVE  /\ \A t \in Tabs \ unheard : env[t] = stored
                      /\ faults = 0 =>
                            /\ replays = {}
                            /\ CookieLives => Persists /\ cookie.n = rotation[cookie.session]
    BY DEF AgreeWhenSettled, CookieLives, Persists
  <2>1. \A c \in Callers : call[c].op # "end" /\ call[c].pc = "idle"
    BY Quiet, BrowserAssumption
  <2>2. \A t \in Tabs : ~(ends[t] > 0)
    BY <2>1, EndCounts DEF EndsCounted
  <2> QED
    BY <2>1, <2>2 DEF AInv, Order, Heard, Faultless, Unspent, Paired, Awaited, Cleans, Dooms
<1> QED
  BY <1>1, Invariant, SettledInvariant, PTL
=============================================================================
