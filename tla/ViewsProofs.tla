---------------------------- MODULE ViewsProofs ----------------------------
(***************************************************************************)
(* What the services that read Bungie and the manifest show, for any       *)
(* number of callers, players' refreshes, manifests installed and faults:  *)
(* each service's inductive invariant, and, at the end, the theorems.      *)
(***************************************************************************)
EXTENDS Views, Integers, FiniteSetTheorems, WellFoundedInduction, TLAPS

LEMMA ThePlayer == Rosters!player \in Members /\ Profiles!player \in Members
  BY PlayerAssumption DEF Rosters!player, Profiles!player

-----------------------------------------------------------------------------
(* The efficiency index. *)

Builds == [pc: {"idle", "begin", "version", "enter", "rows", "publish", "done"}, attempt: Nat,
           version: Nat \cup {None}, rows: Nat \cup {None}]
Indices == [buckets: Nat, version: Nat, published: Nat]

EngineShape ==
    /\ file \in Nat /\ version \in Nat
    /\ fence \in [generation: Nat, version: Nat \cup {None}]
    /\ builder \in [Callers -> Builds]
    /\ index \in Indices \cup {Engine!NoIndex}

\* A build has read a version no newer than the rows it reads after it: versions
\* are named after their file, and neither goes back.
Labelled(build) ==
    /\ build.pc \in {"enter", "rows", "publish"} => build.version \in Nat /\ build.version <= version
    /\ build.pc = "publish" =>
          build.rows \in Nat /\ build.rows <= file /\ build.version <= build.rows

EngineInv ==
    /\ EngineShape
    /\ version <= file
    /\ \A b \in Callers : Labelled(builder[b])
    /\ index # Engine!NoIndex => index.version <= index.buckets /\ index.buckets <= file

LEMMA EngineInit == Engine!Init => EngineInv
  BY DEF Engine!Init, EngineInv, EngineShape, Labelled, Builds, Indices, Engine!Found, Engine!NoBuild,
         Engine!NoIndex, Engine!Fences!NewFence, Engine!Fences!InertAttempt

\* A build of one goroutine takes a step, and the file is what it was.
LEMMA EngineBuilds ==
  ASSUME EngineInv, NEW b \in Callers, NEW next \in Builds, builder' = [builder EXCEPT ![b] = next],
         UNCHANGED <<file, version>>, fence' \in [generation: Nat, version: Nat \cup {None}],
         Labelled(next),
         index' # index =>
            index' \in Indices /\ index'.version <= index'.buckets /\ index'.buckets <= file
  PROVE  EngineInv'
<1>1. builder' \in [Callers -> Builds] /\ builder'[b] = next
      /\ \A d \in Callers \ {b} : builder'[d] = builder[d]
  BY DEF EngineInv, EngineShape
<1>2. index' \in Indices \cup {Engine!NoIndex}
  BY DEF EngineInv, EngineShape
<1>3. EngineShape' /\ (version <= file)'
  BY <1>1, <1>2 DEF EngineInv, EngineShape, Engine!NoIndex
<1>4. ASSUME NEW d \in Callers PROVE Labelled(builder[d])'
  BY <1>1, <1>4 DEF EngineInv, Labelled
<1>5. (index # Engine!NoIndex => index.version <= index.buckets /\ index.buckets <= file)'
  BY DEF EngineInv, Engine!NoIndex
<1> QED
  BY <1>3, <1>4, <1>5 DEF EngineInv

LEMMA EngineNext ==
  ASSUME EngineInv, Engine!Next
  PROVE  EngineInv'
<1>1. CASE Engine!Download /\ UNCHANGED <<fence, index, building, builder>>
  <2>1. file' \in Nat /\ version' \in Nat /\ file <= file' /\ version <= version' /\ version' <= file'
    BY <1>1 DEF EngineInv, EngineShape, Engine!Download, Engine!Close, Engine!Install, Engine!RollBack,
                Engine!Name, Engine!Reopen
  <2> QED
    BY <1>1, <2>1 DEF EngineInv, EngineShape, Labelled, Builds, Indices, Engine!NoIndex
<1>2. ASSUME NEW b \in Callers, Engine!OnVersionChanged(b) \/ Engine!EnsureIndex(b) PROVE EngineInv'
  <2> DEFINE next == [builder[b] EXCEPT !.pc = "begin"]
  <2>1. builder' = [builder EXCEPT ![b] = next] /\ next \in Builds /\ next.pc = "begin"
    BY <1>2 DEF Engine!OnVersionChanged, Engine!EnsureIndex, Engine!Starts, EngineInv, EngineShape, Builds
  <2>2. fence' \in [generation: Nat, version: Nat \cup {None}] /\ UNCHANGED <<file, version, index>>
    BY <1>2 DEF Engine!OnVersionChanged, Engine!EnsureIndex, EngineInv, EngineShape,
                Engine!Fences!Advanced, Engine!Fences!Retires
  <2> HIDE DEF next
  <2> QED
    BY <2>1, <2>2, EngineBuilds DEF Labelled
<1>3. ASSUME NEW b \in Callers,
             Engine!Begin(b) \/ Engine!ReadVersion(b) \/ Engine!Enter(b) \/ Engine!ReadRows(b)
               \/ Engine!ReadFails(b) \/ Engine!Publish(b) \/ Engine!Leave(b)
      PROVE  EngineInv'
  <2>1. UNCHANGED <<file, version, fence>>
    BY <1>3 DEF Engine!Begin, Engine!ReadVersion, Engine!Enter, Engine!ReadRows, Engine!ReadFails,
                Engine!Publish, Engine!Leave, Engine!Frame
  <2>2. builder[b] \in Builds /\ Labelled(builder[b]) /\ Engine!NoBuild \in Builds /\ Engine!NoBuild.pc = "idle"
    BY DEF EngineInv, EngineShape, Builds, Engine!NoBuild, Engine!Fences!InertAttempt
  <2>3. \E next \in Builds : builder' = [builder EXCEPT ![b] = next] /\ Labelled(next)
    <3>1. CASE Engine!Begin(b)
      <4> DEFINE next == [builder[b] EXCEPT !.pc = "version", !.attempt = fence.generation]
      <4>1. next \in Builds /\ next.pc = "version" /\ builder' = [builder EXCEPT ![b] = next]
        BY <2>2, <3>1 DEF Engine!Begin, Engine!Goes, Builds, EngineInv, EngineShape, Engine!Fences!Begin
      <4> HIDE DEF next
      <4> QED
        BY <4>1 DEF Labelled
    <3>2. CASE Engine!ReadVersion(b)
      <4> DEFINE next == [builder[b] EXCEPT !.pc = "enter", !.version = version]
      <4>1. next \in Builds /\ next.pc = "enter" /\ next.version = version
            /\ builder' = [builder EXCEPT ![b] = next]
        BY <2>2, <3>2 DEF Engine!ReadVersion, Engine!Goes, Builds, EngineInv, EngineShape
      <4> HIDE DEF next
      <4>2. version \in Nat /\ version <= version
        BY DEF EngineInv, EngineShape
      <4>3. Labelled(next)
        BY <4>1, <4>2 DEF Labelled
      <4> QED
        BY <4>1, <4>3
    <3>3. CASE Engine!Enter(b) \/ Engine!Leave(b)
      <4> DEFINE next == [builder[b] EXCEPT !.pc = "rows"]
      <4>1. next \in Builds /\ next.pc = "rows" /\ next.version = builder[b].version
        BY <2>2 DEF Builds
      <4>2. \/ builder' = [builder EXCEPT ![b] = Engine!NoBuild]
            \/ builder' = [builder EXCEPT ![b] = next] /\ builder[b].pc = "enter"
        BY <3>3 DEF Engine!Enter, Engine!Leave, Engine!Goes
      <4> HIDE DEF next
      <4> QED
        BY <2>2, <4>1, <4>2 DEF Labelled
    <3>4. CASE Engine!ReadRows(b)
      <4> DEFINE next == [builder[b] EXCEPT !.pc = "publish", !.rows = file]
      <4>1. next \in Builds /\ next.pc = "publish" /\ next.rows = file
            /\ next.version = builder[b].version
            /\ builder' = [builder EXCEPT ![b] = next] /\ builder[b].pc = "rows"
        BY <2>2, <3>4 DEF Engine!ReadRows, Engine!Goes, Builds, EngineInv, EngineShape
      <4> HIDE DEF next
      <4>2. file \in Nat /\ version \in Nat /\ version <= file
        BY DEF EngineInv, EngineShape
      <4>3. Labelled(next)
        BY <2>2, <4>1, <4>2 DEF Labelled
      <4> QED
        BY <4>1, <4>3
    <3>5. CASE Engine!ReadFails(b) \/ Engine!Publish(b)
      <4> DEFINE next == [builder[b] EXCEPT !.pc = "done"]
      <4>1. next \in Builds /\ next.pc = "done" /\ builder' = [builder EXCEPT ![b] = next]
        BY <2>2, <3>5 DEF Engine!ReadFails, Engine!Publish, Engine!Goes, Builds
      <4> HIDE DEF next
      <4> QED
        BY <4>1 DEF Labelled
    <3> QED
      BY <1>3, <3>1, <3>2, <3>3, <3>4, <3>5
  <2>4. index' # index =>
           index' \in Indices /\ index'.version <= index'.buckets /\ index'.buckets <= file
    <3>1. CASE Engine!Publish(b)
      BY <2>2, <3>1 DEF Engine!Publish, Engine!IndexOf, Labelled, Builds, Indices
    <3> QED
      BY <1>3, <3>1 DEF Engine!Begin, Engine!ReadVersion, Engine!Enter, Engine!ReadRows,
                        Engine!ReadFails, Engine!Leave
  <2>5. fence' \in [generation: Nat, version: Nat \cup {None}]
    BY <2>1 DEF EngineInv, EngineShape
  <2> QED
    BY <2>1, <2>3, <2>4, <2>5, EngineBuilds
<1> QED
  BY <1>1, <1>2, <1>3 DEF Engine!Next

-----------------------------------------------------------------------------
(* The characters. *)

Roster == [fetched: Nat, ids: SUBSET Guardians]
RosterCalls ==
    [pc: {"idle", "lookup", "fetch", "publish", "detail", "facts", "names", "mode", "answered"},
     kind: Rosters!Kinds, guardian: Guardians \cup {None}, asked: Nat,
     roster: Roster \cup {None}, outcome: Rosters!Outcomes]

RostersShape ==
    /\ refresh \in [Members -> Nat]
    /\ guardians \in SUBSET Guardians
    /\ roster \in Roster \cup {None}
    /\ call \in [Callers -> RosterCalls]

\* A request has asked under no refresh yet to come, and what it was given was
\* fetched since it asked.
Since(asking) ==
    /\ asking.asked <= refresh[Rosters!player]
    /\ asking.roster # None => asking.roster.fetched >= asking.asked

RostersInv ==
    /\ RostersShape
    /\ roster # None => roster.fetched >= refresh[Rosters!player]
    /\ \A c \in Callers : Since(call[c])

LEMMA RostersInit == Rosters!Init => RostersInv
  BY ThePlayer DEF Rosters!Init, Rosters!NewRefreshFence, Rosters!NoCall, Rosters!Kinds, Rosters!Outcomes,
         RostersInv, RostersShape, Since, RosterCalls, Roster

\* A request takes a step; the roster it may keep has seen the last refresh.
LEMMA RosterStep ==
  ASSUME RostersInv, NEW c \in Callers, NEW next \in RosterCalls, call' = [call EXCEPT ![c] = next],
         Since(next), UNCHANGED <<refresh, guardians>>, roster' \in Roster \cup {None},
         roster' \notin {roster, None} => roster'.fetched >= refresh[Rosters!player]
  PROVE  RostersInv'
<1>1. call' \in [Callers -> RosterCalls] /\ call'[c] = next /\ \A d \in Callers \ {c} : call'[d] = call[d]
  BY DEF RostersInv, RostersShape
<1>2. ASSUME NEW d \in Callers PROVE Since(call[d])'
  BY <1>1 DEF RostersInv, Since
<1> QED
  BY <1>1, <1>2 DEF RostersInv, RostersShape

\* What a request becomes with the roster in hand.
LEMMA WithRoster ==
  ASSUME RostersInv, NEW c \in Callers, NEW found \in Roster \cup {None}, Rosters!With(c, found),
         found # None => found.fetched >= call[c].asked
  PROVE  \E next \in RosterCalls : call' = [call EXCEPT ![c] = next] /\ Since(next)
<1>1. call[c] \in RosterCalls /\ Since(call[c])
  BY DEF RostersInv, RostersShape
<1> DEFINE told(outcome) == [Rosters!Answer(c, outcome) EXCEPT !.roster = found]
           detail == [call[c] EXCEPT !.pc = "detail", !.roster = found]
<1>2. \A outcome \in {"roster", "notFound"} :
         told(outcome) \in RosterCalls /\ told(outcome).asked = call[c].asked /\ told(outcome).roster = found
  BY <1>1 DEF Rosters!Answer, Rosters!NoCall, Rosters!Outcomes, Rosters!Kinds, RosterCalls
<1>3. detail \in RosterCalls /\ detail.asked = call[c].asked /\ detail.roster = found
  BY <1>1 DEF RosterCalls
<1>4. \E next \in {told("roster"), told("notFound"), detail} : call' = [call EXCEPT ![c] = next]
  BY DEF Rosters!With, Rosters!Goes
<1> HIDE DEF told, detail
<1>5. \A next \in {told("roster"), told("notFound"), detail} : next \in RosterCalls /\ Since(next)
  BY <1>1, <1>2, <1>3 DEF Since
<1> QED
  BY <1>4, <1>5

LEMMA RostersNext ==
  ASSUME RostersInv, Rosters!Next
  PROVE  RostersInv'
<1>1. CASE UNCHANGED <<roster, refresh, guardians, call>>
  BY <1>1 DEF RostersInv, RostersShape, Since
<1>2. CASE Rosters!Delete \/ Rosters!Expire
  BY <1>2 DEF Rosters!Delete, Rosters!Expire, RostersInv, RostersShape, Since
<1>3. CASE Rosters!InvalidateCache
  <2>1. refresh' \in [Members -> Nat] /\ refresh'[Rosters!player] = refresh[Rosters!player] + 1
        /\ roster' = None /\ UNCHANGED <<guardians, call>>
    BY <1>3, ThePlayer DEF Rosters!InvalidateCache, Rosters!Refreshed, RostersInv, RostersShape
  <2>2. refresh[Rosters!player] \in Nat
    BY ThePlayer DEF RostersInv, RostersShape
  <2>3. \A c \in Callers : Since(call[c])'
    BY <2>1, <2>2 DEF RostersInv, RostersShape, RosterCalls, Since
  <2> QED
    BY <2>1, <2>3 DEF RostersInv, RostersShape
<1>4. ASSUME NEW c \in Callers, Rosters!Frame,
             \E next \in RosterCalls : call' = [call EXCEPT ![c] = next] /\ Since(next),
             roster' \in Roster \cup {None},
             roster' \notin {roster, None} => roster'.fetched >= refresh[Rosters!player]
      PROVE  RostersInv'
  BY <1>4, RosterStep DEF Rosters!Frame
<1>5. roster \in Roster \cup {None} /\ refresh[Rosters!player] \in Nat /\ guardians \in SUBSET Guardians
      /\ \A c \in Callers : call[c] \in RosterCalls /\ Since(call[c])
  BY ThePlayer DEF RostersInv, RostersShape
\* Answers and steps that keep the request's roster.
<1>6. ASSUME NEW c \in Callers,
             \/ \E outcome \in Rosters!Outcomes : Rosters!Answers(c, outcome)
             \/ \E pc \in {"fetch", "names"} : Rosters!GoesTo(c, pc)
             \/ \E outcome \in {"ready", "unknown"} :
                   Rosters!Goes(c, [call[c] EXCEPT !.pc = "mode", !.outcome = outcome])
      PROVE  \E next \in RosterCalls : call' = [call EXCEPT ![c] = next] /\ Since(next)
  <2> DEFINE answer(outcome) == Rosters!Answer(c, outcome)
             at(pc) == [call[c] EXCEPT !.pc = pc]
             mode(outcome) == [call[c] EXCEPT !.pc = "mode", !.outcome = outcome]
  <2>1. \A outcome \in Rosters!Outcomes :
           answer(outcome) \in RosterCalls /\ answer(outcome).asked = call[c].asked
           /\ answer(outcome).roster = call[c].roster
    BY <1>5 DEF Rosters!Answer, Rosters!NoCall, Rosters!Outcomes, Rosters!Kinds, RosterCalls
  <2>2. \A pc \in {"fetch", "names"} :
           at(pc) \in RosterCalls /\ at(pc).asked = call[c].asked /\ at(pc).roster = call[c].roster
    BY <1>5 DEF RosterCalls
  <2>3. \A outcome \in {"ready", "unknown"} :
           mode(outcome) \in RosterCalls /\ mode(outcome).asked = call[c].asked
           /\ mode(outcome).roster = call[c].roster
    BY <1>5 DEF RosterCalls, Rosters!Outcomes
  <2>4. \/ \E outcome \in Rosters!Outcomes : call' = [call EXCEPT ![c] = answer(outcome)]
        \/ \E pc \in {"fetch", "names"} : call' = [call EXCEPT ![c] = at(pc)]
        \/ \E outcome \in {"ready", "unknown"} : call' = [call EXCEPT ![c] = mode(outcome)]
    BY <1>6 DEF Rosters!Answers, Rosters!GoesTo, Rosters!Goes
  <2> HIDE DEF answer, at, mode
  <2>5. \A next \in RosterCalls : next.asked = call[c].asked /\ next.roster = call[c].roster => Since(next)
    BY <1>5 DEF Since
  <2> QED
    BY <2>1, <2>2, <2>3, <2>4, <2>5
<1>7. ASSUME NEW c \in Callers, NEW kind \in Rosters!Kinds, NEW g \in Guardians, Rosters!GetCharacters(c, kind, g)
      PROVE  RostersInv'
  <2> DEFINE next == [Rosters!NoCall EXCEPT !.pc = "lookup", !.kind = kind, !.guardian = g,
                                            !.asked = refresh[Rosters!player]]
  <2>1. next \in RosterCalls /\ next.asked = refresh[Rosters!player] /\ next.roster = None
        /\ call' = [call EXCEPT ![c] = next] /\ Rosters!Frame /\ roster' = roster
    BY <1>5, <1>7 DEF Rosters!GetCharacters, Rosters!Goes, Rosters!NoCall, Rosters!BeginRefresh, RosterCalls,
                      Rosters!Outcomes
  <2> HIDE DEF next
  <2>2. Since(next)
    BY <1>5, <2>1 DEF Since
  <2> QED
    BY <1>4, <1>5, <2>1, <2>2
<1>8. ASSUME NEW c \in Callers, Rosters!LookUp(c) PROVE RostersInv'
  <2>1. CASE roster # None
    <3>1. roster.fetched >= call[c].asked
      BY <1>5, <2>1 DEF RostersInv, Since, Roster, RosterCalls
    <3> QED
      BY <1>4, <1>5, <1>8, <2>1, <3>1, WithRoster DEF Rosters!LookUp
  <2>2. CASE roster = None
    BY <1>4, <1>5, <1>6, <1>8, <2>2 DEF Rosters!LookUp
  <2> QED
    BY <2>1, <2>2
<1>9. ASSUME NEW c \in Callers, Rosters!FetchRoster(c) PROVE RostersInv'
  <2> DEFINE got == [fetched |-> refresh[Rosters!player], ids |-> guardians]
             next == [call[c] EXCEPT !.pc = "publish", !.roster = got]
  <2>1. got \in Roster /\ got.fetched = refresh[Rosters!player]
    BY <1>5 DEF Roster
  <2>2. next \in RosterCalls /\ next.asked = call[c].asked /\ next.roster = got
    BY <1>5, <2>1 DEF RosterCalls
  <2>3. Rosters!Answers(c, "error") \/ call' = [call EXCEPT ![c] = next]
    BY <1>9 DEF Rosters!FetchRoster, Rosters!Goes
  <2> HIDE DEF got, next
  <2>4. Since(next)
    BY <1>5, <2>1, <2>2 DEF Since, RosterCalls
  <2>5. "error" \in Rosters!Outcomes
    BY DEF Rosters!Outcomes
  <2> QED
    BY <1>4, <1>5, <1>6, <1>9, <2>2, <2>3, <2>4, <2>5 DEF Rosters!FetchRoster
<1>10. ASSUME NEW c \in Callers, Rosters!Publish(c) PROVE RostersInv'
  <2>1. call[c].roster \in Roster \cup {None} /\ call[c].asked \in Nat
        /\ (call[c].roster # None => call[c].roster.fetched >= call[c].asked)
    BY <1>5 DEF RosterCalls, Since
  <2>2. roster' \notin {roster, None} => roster'.fetched >= refresh[Rosters!player]
    BY <1>10, <2>1 DEF Rosters!Publish, Rosters!IsUnrefreshed
  <2> QED
    BY <1>4, <1>5, <1>10, <2>1, <2>2, WithRoster DEF Rosters!Publish
<1>11. ASSUME NEW c \in Callers, NEW g \in Guardians, Rosters!GetEquipment(c, g) PROVE RostersInv'
  <2> DEFINE tells(outcome) == [Rosters!NoCall EXCEPT !.pc = "answered", !.outcome = outcome]
             facts0 == [Rosters!NoCall EXCEPT !.pc = "facts", !.kind = "equipment", !.guardian = g]
             outcomes == {"ready", "notFound", "unavailable", "error"}
  <2>1. \A outcome \in outcomes :
           tells(outcome) \in RosterCalls /\ tells(outcome).asked = 0 /\ tells(outcome).roster = None
    BY DEF Rosters!NoCall, RosterCalls, Rosters!Outcomes, Rosters!Kinds
  <2>2. facts0 \in RosterCalls /\ facts0.asked = 0 /\ facts0.roster = None
    BY DEF Rosters!NoCall, RosterCalls, Rosters!Outcomes, Rosters!Kinds
  <2>3. \/ \E outcome \in outcomes : call' = [call EXCEPT ![c] = tells(outcome)]
        \/ call' = [call EXCEPT ![c] = facts0]
    BY <1>11 DEF Rosters!GetEquipment, Rosters!Goes
  <2> HIDE DEF tells, facts0, outcomes
  <2>4. \A next \in RosterCalls : next.asked = 0 /\ next.roster = None => Since(next)
    BY <1>5 DEF Since
  <2> QED
    BY <1>4, <1>5, <1>11, <2>1, <2>2, <2>3, <2>4 DEF Rosters!GetEquipment
<1>12. ASSUME NEW c \in Callers,
              Rosters!ResolveEquipment(c) \/ Rosters!GetActivity(c) \/ Rosters!NameActivities(c)
                \/ Rosters!NameMode(c)
       PROVE  RostersInv'
  <2>1. {"ready", "error", "unavailable", "idle", "unknown", call[c].outcome} \subseteq Rosters!Outcomes
    BY <1>5 DEF Rosters!Outcomes, RosterCalls
  <2>2. Rosters!Frame /\ roster' = roster
    BY <1>12 DEF Rosters!ResolveEquipment, Rosters!GetActivity, Rosters!NameActivities, Rosters!NameMode
  <2>3. \/ \E outcome \in Rosters!Outcomes : Rosters!Answers(c, outcome)
        \/ \E pc \in {"fetch", "names"} : Rosters!GoesTo(c, pc)
        \/ \E outcome \in {"ready", "unknown"} :
              Rosters!Goes(c, [call[c] EXCEPT !.pc = "mode", !.outcome = outcome])
    BY <1>12, <2>1
       DEF Rosters!ResolveEquipment, Rosters!GetActivity, Rosters!NameActivities, Rosters!NameMode
  <2> QED
    BY <1>4, <1>5, <1>6, <2>2, <2>3
<1> QED
  BY <1>1, <1>2, <1>3, <1>7, <1>8, <1>9, <1>10, <1>11, <1>12 DEF Rosters!Next

-----------------------------------------------------------------------------
(* The records of a profile. *)

ProfileKeys == [refresh: Nat, credential: Credentials]
ProfileCalls ==
    [pc: {"idle", "lookup", "drop", "join", "waiting", "answered"}, key: ProfileKeys \cup {None},
     flight: Flights \cup {None}, answer: Nat \cup {None}]
ProfileLoads ==
    [pc: {"free", "lookup", "drop", "fetch", "publish", "finish", "exited"},
     key: ProfileKeys \cup {None}, waiters: Int, ctx: {"live", "deadline", "cancelled"},
     result: Nat \cup {None}]
Entry == [fetched: Nat, expired: BOOLEAN]

ProfilesShape ==
    /\ refresh \in [Members -> Nat]
    /\ cache \in Entry \cup {None}
    /\ registry \in SUBSET Flights
    /\ flight \in [Flights -> ProfileLoads]
    /\ call \in [Callers -> ProfileCalls]

\* A call has its key from a refresh no later than the last, and an answer
\* fetched since.
Asked(x) ==
    /\ x.pc # "idle" => x.key \in ProfileKeys /\ x.key.refresh <= refresh[Profiles!player]
    /\ x.answer # None => x.pc # "idle" /\ x.answer >= x.key.refresh

\* So has a load, whose result may be stored.
Loads(x) ==
    /\ x.pc # "free" => x.key \in ProfileKeys /\ x.key.refresh <= refresh[Profiles!player]
    /\ x.result # None => x.pc # "free" /\ x.result >= x.key.refresh
    /\ x.pc = "publish" => x.result # None

\* A caller waits for a load of its own key.
Shares(x) ==
    x.pc = "waiting" => /\ x.flight \in Flights /\ flight[x.flight].pc # "free"
                        /\ flight[x.flight].key = x.key

ProfilesInv ==
    /\ ProfilesShape
    /\ cache # None => cache.fetched >= refresh[Profiles!player]
    /\ \A f \in Flights : Loads(flight[f])
    /\ \A f \in registry : flight[f].pc \notin {"free", "exited"}
    /\ \A c \in Callers : Asked(call[c]) /\ Shares(call[c])

LEMMA ProfilesInit == Profiles!Init => ProfilesInv
  BY ThePlayer DEF Profiles!Init, Profiles!NewRefreshFence, Profiles!NoCall, Profiles!Free, ProfilesInv,
         ProfilesShape, Asked, Loads, Shares, ProfileCalls, ProfileLoads, ProfileKeys, Entry

\* A call takes a step of its own.
LEMMA CallStep ==
  ASSUME ProfilesInv, NEW c \in Callers, NEW next \in ProfileCalls, call' = [call EXCEPT ![c] = next],
         Asked(next), Shares(next), UNCHANGED <<refresh, registry, flight>>, cache' \in {cache, None}
  PROVE  ProfilesInv'
<1>1. call' \in [Callers -> ProfileCalls] /\ call'[c] = next /\ \A d \in Callers \ {c} : call'[d] = call[d]
  BY DEF ProfilesInv, ProfilesShape
<1>2. ASSUME NEW d \in Callers PROVE Asked(call[d])' /\ Shares(call[d])'
  BY <1>1 DEF ProfilesInv, Asked, Shares
<1> QED
  BY <1>1, <1>2 DEF ProfilesInv, ProfilesShape, Loads

\* So does a load, which stays a load of its key; what it stores has seen the
\* last refresh.
LEMMA LoadStep ==
  ASSUME ProfilesInv, NEW f \in Flights, NEW next \in ProfileLoads, flight' = [flight EXCEPT ![f] = next],
         Loads(next), flight[f].pc \notin {"free", "exited"}, next.key = flight[f].key,
         next.pc \notin {"free", "exited"}, UNCHANGED <<refresh, registry, call>>,
         cache' \in Entry \cup {None},
         cache' \notin {cache, None} => cache'.fetched >= refresh[Profiles!player]
  PROVE  ProfilesInv'
<1>1. flight' \in [Flights -> ProfileLoads] /\ flight'[f] = next
      /\ \A g \in Flights \ {f} : flight'[g] = flight[g]
  BY DEF ProfilesInv, ProfilesShape
<1>2. ASSUME NEW g \in Flights PROVE Loads(flight[g])'
  BY <1>1 DEF ProfilesInv, Loads
<1>3. ASSUME NEW d \in Callers PROVE Asked(call[d])' /\ Shares(call[d])'
  BY <1>1 DEF ProfilesInv, Asked, Shares
<1> QED
  BY <1>1, <1>2, <1>3 DEF ProfilesInv, ProfilesShape

\* Flights that are freed are those nobody waits on.
LEMMA FreedFlights ==
  ASSUME NEW flights \in [Flights -> ProfileLoads], NEW calls
  PROVE  /\ Profiles!Freed(flights, calls) \in [Flights -> ProfileLoads]
         /\ \A f \in Flights : \/ Profiles!Freed(flights, calls)[f] = flights[f]
                               \/ /\ Profiles!Freed(flights, calls)[f] = Profiles!Free
                                  /\ flights[f].pc = "exited"
                                  /\ \A c \in Callers : calls[c].flight # f
  BY DEF Profiles!Freed, Profiles!Free, ProfileLoads

LEMMA FreeLoads == Profiles!Free \in ProfileLoads /\ Loads(Profiles!Free)
  BY DEF Profiles!Free, ProfileLoads, Loads

LEMMA ProfilesNext ==
  ASSUME ProfilesInv, Profiles!Next
  PROVE  ProfilesInv'
<1>1. /\ refresh[Profiles!player] \in Nat /\ cache \in Entry \cup {None}
      /\ \A c \in Callers : call[c] \in ProfileCalls /\ Asked(call[c]) /\ Shares(call[c])
      /\ \A f \in Flights : flight[f] \in ProfileLoads /\ Loads(flight[f])
  BY ThePlayer DEF ProfilesInv, ProfilesShape
<1>2. CASE Profiles!Expire \/ Profiles!CleanUp
  <2>1. cache' \in Entry \cup {None} /\ (cache' # None => cache # None /\ cache'.fetched = cache.fetched)
    BY <1>1, <1>2, NoneAssumption DEF Profiles!Expire, Profiles!CleanUp, Profiles!Hit, Profiles!Stale, Entry
  <2> QED
    BY <1>2, <2>1 DEF Profiles!Expire, Profiles!CleanUp, ProfilesInv, ProfilesShape, Asked, Loads, Shares
<1>3. CASE Profiles!InvalidateCache
  <2>1. refresh' \in [Members -> Nat] /\ refresh'[Profiles!player] = refresh[Profiles!player] + 1
        /\ cache' = None /\ UNCHANGED <<registry, flight, call>>
    BY <1>3, ThePlayer DEF Profiles!InvalidateCache, Profiles!Refreshed, ProfilesInv, ProfilesShape
  <2>2. ASSUME NEW x, NEW n \in Nat, n <= refresh[Profiles!player] PROVE n <= refresh[Profiles!player]'
    BY <1>1, <2>1, <2>2
  <2>3. (\A c \in Callers : Asked(call[c]) /\ Shares(call[c]))'
    BY <1>1, <2>1, <2>2 DEF Asked, Shares, ProfileKeys
  <2>4. (\A f \in Flights : Loads(flight[f]))'
    BY <1>1, <2>1, <2>2 DEF Loads, ProfileKeys
  <2> QED
    BY <2>1, <2>3, <2>4 DEF ProfilesInv, ProfilesShape
<1>4. ASSUME NEW c \in Callers, NEW credential \in Credentials, Profiles!GetProfileRecords(c, credential)
      PROVE  ProfilesInv'
  <2> DEFINE key == [refresh |-> refresh[Profiles!player], credential |-> credential]
             next == [Profiles!NoCall EXCEPT !.pc = "lookup", !.key = key]
  <2>1. key \in ProfileKeys /\ key.refresh = refresh[Profiles!player]
    BY <1>1 DEF ProfileKeys
  <2>2. next \in ProfileCalls /\ next.pc = "lookup" /\ next.key = key /\ next.answer = None
    BY <2>1 DEF Profiles!NoCall, ProfileCalls
  <2>3. call' = [call EXCEPT ![c] = next] /\ UNCHANGED <<refresh, registry, flight, cache>>
    BY <1>4 DEF Profiles!GetProfileRecords, Profiles!Goes, Profiles!BeginRefresh
  <2> HIDE DEF key, next
  <2>4. Asked(next) /\ Shares(next)
    BY <1>1, <2>1, <2>2 DEF Asked, Shares
  <2> QED
    BY <2>2, <2>3, <2>4, CallStep
<1>5. ASSUME NEW c \in Callers,
             Profiles!LookUp(c) \/ Profiles!Drop(c) \/ Profiles!GiveUp(c)
      PROVE  ProfilesInv'
  <2> DEFINE at(pc) == [call[c] EXCEPT !.pc = pc]
             hit == [Profiles!NoCall EXCEPT !.pc = "answered", !.answer = cache.fetched, !.key = call[c].key]
  <2>1. /\ Profiles!NoCall \in ProfileCalls /\ Asked(Profiles!NoCall) /\ Shares(Profiles!NoCall)
    BY DEF Profiles!NoCall, ProfileCalls, Asked, Shares
  <2>2. \A pc \in {"drop", "join"} :
           at(pc) \in ProfileCalls /\ at(pc).pc = pc /\ at(pc).key = call[c].key
           /\ at(pc).answer = call[c].answer
    BY <1>1 DEF ProfileCalls
  <2>3. cache # None => hit \in ProfileCalls /\ hit.pc = "answered" /\ hit.key = call[c].key
                        /\ hit.answer = cache.fetched
    BY <1>1 DEF ProfileCalls, Profiles!NoCall, Entry
  <2>4. /\ call[c].pc # "idle"
        /\ \/ call' = [call EXCEPT ![c] = Profiles!NoCall]
           \/ \E pc \in {"drop", "join"} : call' = [call EXCEPT ![c] = at(pc)]
           \/ cache # None /\ call' = [call EXCEPT ![c] = hit]
    BY <1>5 DEF Profiles!LookUp, Profiles!Drop, Profiles!GiveUp, Profiles!Goes, Profiles!Returns, Profiles!Hit
  <2>5. cache' \in {cache, None} /\ UNCHANGED <<refresh, registry, flight>>
    BY <1>5 DEF Profiles!LookUp, Profiles!Drop, Profiles!GiveUp, Profiles!Dropped
  <2> HIDE DEF at, hit
  <2>6. call[c].key \in ProfileKeys /\ call[c].key.refresh <= refresh[Profiles!player]
        /\ (call[c].answer # None => call[c].answer >= call[c].key.refresh)
    BY <1>1, <2>4 DEF Asked
  <2>7. \A pc \in {"drop", "join"} : Asked(at(pc)) /\ Shares(at(pc))
    BY <2>2, <2>6 DEF Asked, Shares
  <2>8. cache # None => Asked(hit) /\ Shares(hit)
    BY <1>1, <2>3, <2>6 DEF Asked, Shares, ProfilesInv, ProfileKeys, Entry
  <2> QED
    BY <2>1, <2>2, <2>3, <2>4, <2>5, <2>7, <2>8, CallStep
<1>6. ASSUME NEW c \in Callers, Profiles!Join(c) PROVE ProfilesInv'
  <2>1. call[c].pc = "join" /\ call[c].key \in ProfileKeys
        /\ call[c].key.refresh <= refresh[Profiles!player]
        /\ (call[c].answer # None => call[c].answer >= call[c].key.refresh)
        /\ UNCHANGED <<cache, refresh>>
    BY <1>1, <1>6 DEF Profiles!Join, Asked
  <2>2. PICK f \in Flights :
           /\ Profiles!Waits(c, f)
           /\ \/ /\ f \in registry /\ flight[f].key = call[c].key /\ registry' = registry
                 /\ flight' = [flight EXCEPT ![f].waiters = @ + 1]
              \/ /\ flight[f].pc = "free" /\ registry' \subseteq registry \cup {f}
                 /\ flight' = [flight EXCEPT ![f] = [Profiles!Free EXCEPT !.pc = "lookup",
                                                            !.key = call[c].key, !.waiters = 1]]
    BY <1>6 DEF Profiles!Join, Profiles!Found, ProfilesInv, ProfilesShape
  <2> DEFINE next == [call[c] EXCEPT !.pc = "waiting", !.flight = f]
             joined == [flight[f] EXCEPT !.waiters = @ + 1]
             begun == [Profiles!Free EXCEPT !.pc = "lookup", !.key = call[c].key, !.waiters = 1]
  <2>3. /\ next \in ProfileCalls /\ next.pc = "waiting" /\ next.flight = f /\ next.key = call[c].key
        /\ next.answer = call[c].answer /\ call' = [call EXCEPT ![c] = next]
    BY <1>1, <2>2 DEF Profiles!Waits, Profiles!Goes, ProfileCalls
  <2>4. joined \in ProfileLoads /\ joined.pc = flight[f].pc /\ joined.key = flight[f].key
        /\ joined.result = flight[f].result
    BY <1>1 DEF ProfileLoads
  <2>5. begun \in ProfileLoads /\ begun.pc = "lookup" /\ begun.key = call[c].key /\ begun.result = None
    <3>1. ASSUME NEW key \in ProfileKeys
          PROVE  [Profiles!Free EXCEPT !.pc = "lookup", !.key = key, !.waiters = 1] \in ProfileLoads
      <4> DEFINE one == [Profiles!Free EXCEPT !.waiters = 1]
      <4>1. one \in ProfileLoads
        BY FreeLoads DEF ProfileLoads
      <4>2. [one EXCEPT !.pc = "lookup", !.key = key] \in ProfileLoads
        <5> HIDE DEF one
        <5> QED
          BY <4>1 DEF ProfileLoads
      <4>3. [Profiles!Free EXCEPT !.pc = "lookup", !.key = key, !.waiters = 1]
            = [one EXCEPT !.pc = "lookup", !.key = key]
        BY DEF Profiles!Free
      <4> QED
        BY <4>2, <4>3
    <3>2. begun \in ProfileLoads
      BY <2>1, <3>1
    <3>3. begun.pc = "lookup" /\ begun.key = call[c].key /\ begun.result = None
      BY DEF Profiles!Free
    <3> QED
      BY <3>2, <3>3
  <2>6. PICK load \in ProfileLoads :
           /\ flight' = [flight EXCEPT ![f] = load] /\ Loads(load)
           /\ load.pc \notin {"free", "exited"} /\ load.key = call[c].key
           /\ flight[f].pc # "free" => load.key = flight[f].key
    <3>1. CASE f \in registry /\ flight[f].key = call[c].key /\ flight' = [flight EXCEPT ![f] = joined]
      <4> HIDE DEF joined
      <4>1. Loads(joined) /\ joined.pc \notin {"free", "exited"}
        BY <1>1, <2>4, <3>1 DEF Loads, ProfilesInv
      <4> QED
        BY <2>4, <3>1, <4>1
    <3>2. CASE flight[f].pc = "free" /\ flight' = [flight EXCEPT ![f] = begun]
      <4> HIDE DEF begun
      <4>1. Loads(begun)
        BY <2>1, <2>5 DEF Loads
      <4> QED
        BY <2>5, <3>2, <4>1
    <3>3. flight' = [flight EXCEPT ![f].waiters = @ + 1] => flight' = [flight EXCEPT ![f] = joined]
      OBVIOUS
    <3> QED
      BY <2>2, <3>1, <3>2, <3>3
  <2> HIDE DEF next, joined, begun
  <2>7. /\ flight' \in [Flights -> ProfileLoads] /\ flight'[f] = load
        /\ \A g \in Flights \ {f} : flight'[g] = flight[g]
        /\ call' \in [Callers -> ProfileCalls] /\ call'[c] = next
        /\ \A d \in Callers \ {c} : call'[d] = call[d]
        /\ registry' \in SUBSET Flights /\ registry' \subseteq registry \cup {f}
    BY <2>2, <2>3, <2>6 DEF ProfilesInv, ProfilesShape
  <2>8. ASSUME NEW g \in Flights PROVE Loads(flight[g])'
    BY <1>1, <2>1, <2>6, <2>7 DEF Loads
  <2>9. ASSUME NEW d \in Callers PROVE Asked(call[d])' /\ Shares(call[d])'
    <3>1. CASE d = c
      BY <2>1, <2>3, <2>6, <2>7, <3>1 DEF Asked, Shares
    <3>2. CASE d # c
      BY <1>1, <2>1, <2>6, <2>7, <3>2 DEF Asked, Shares
    <3> QED
      BY <3>1, <3>2
  <2>10. (\A g \in registry : flight[g].pc \notin {"free", "exited"})'
    BY <2>6, <2>7 DEF ProfilesInv
  <2> QED
    BY <2>1, <2>7, <2>8, <2>9, <2>10 DEF ProfilesInv, ProfilesShape
<1>7. ASSUME NEW c \in Callers, Profiles!Answered(c) PROVE ProfilesInv'
  <2> DEFINE f == call[c].flight
             next == [Profiles!NoCall EXCEPT !.pc = "answered", !.answer = flight[f].result,
                                             !.key = call[c].key]
  <2>1. f \in Flights /\ flight[f].key = call[c].key /\ flight[f].pc # "free"
        /\ call[c].key \in ProfileKeys /\ call[c].key.refresh <= refresh[Profiles!player]
    BY <1>1, <1>7 DEF Profiles!Answered, Asked, Shares
  <2>2. next \in ProfileCalls /\ next.pc = "answered" /\ next.answer = flight[f].result
        /\ next.key = call[c].key
    BY <1>1, <2>1 DEF ProfileCalls, ProfileLoads, Profiles!NoCall
  <2>3. call' = [call EXCEPT ![c] = next] /\ flight' = Profiles!Freed(flight, call')
        /\ UNCHANGED <<cache, refresh, registry>>
    BY <1>7 DEF Profiles!Answered, Profiles!Returns, Profiles!Goes
  <2>4. Loads(flight[f])
    BY <1>1, <2>1
  <2>5. Asked(next) /\ next.pc # "waiting"
    BY <2>1, <2>2, <2>4 DEF Asked, Loads
  <2> HIDE DEF f, next
  <2>6. call' \in [Callers -> ProfileCalls] /\ call'[c] = next
        /\ \A d \in Callers \ {c} : call'[d] = call[d]
    BY <2>2, <2>3 DEF ProfilesInv, ProfilesShape
  <2>7. /\ flight' \in [Flights -> ProfileLoads]
        /\ \A g \in Flights : \/ flight'[g] = flight[g]
                              \/ /\ flight'[g] = Profiles!Free /\ flight[g].pc = "exited"
                                 /\ \A d \in Callers : call'[d].flight # g
    BY <2>3 DEF Profiles!Freed, Profiles!Free, ProfileLoads, ProfilesInv, ProfilesShape
  <2>8. ASSUME NEW g \in Flights PROVE Loads(flight[g])'
    BY <1>1, <2>3, <2>7, FreeLoads DEF Loads
  <2>9. ASSUME NEW d \in Callers PROVE Asked(call[d])' /\ Shares(call[d])'
    <3>1. CASE d = c
      BY <2>3, <2>5, <2>6, <3>1 DEF Asked, Shares
    <3>2. CASE d # c
      <4>1. call'[d] = call[d] /\ Asked(call[d]) /\ Shares(call[d])
        BY <1>1, <2>6, <3>2
      <4>2. call[d].pc = "waiting" => flight'[call[d].flight] = flight[call[d].flight]
        BY <2>7, <4>1 DEF Shares
      <4> QED
        BY <2>3, <4>1, <4>2 DEF Asked, Shares
    <3> QED
      BY <3>1, <3>2
  <2>10. (\A g \in registry : flight[g].pc \notin {"free", "exited"})'
    BY <2>3, <2>7 DEF ProfilesInv, ProfilesShape
  <2> QED
    BY <2>3, <2>6, <2>7, <2>8, <2>9, <2>10 DEF ProfilesInv, ProfilesShape
<1>8. ASSUME NEW c \in Callers, Profiles!Leave(c) PROVE ProfilesInv'
  <2> DEFINE f == call[c].flight
             next == [flight[f] EXCEPT !.waiters = @ - 1,
                                       !.ctx = IF flight[f].waiters = 1 /\ @ = "live" THEN "cancelled" ELSE @]
  <2>1. f \in Flights /\ call' = [call EXCEPT ![c] = Profiles!NoCall] /\ UNCHANGED <<cache, refresh>>
        /\ registry' \subseteq registry
    BY <1>1, <1>8 DEF Profiles!Leave, Profiles!Departs, Profiles!Goes, Shares
  <2>2. next \in ProfileLoads /\ next.pc = flight[f].pc /\ next.key = flight[f].key
        /\ next.result = flight[f].result
    <3>1. flight[f] \in ProfileLoads
      BY <1>1, <2>1
    <3> HIDE DEF f
    <3>2. flight[f].waiters - 1 \in Int
          /\ (IF flight[f].waiters = 1 /\ flight[f].ctx = "live" THEN "cancelled" ELSE flight[f].ctx)
                \in {"live", "deadline", "cancelled"}
      BY <3>1 DEF ProfileLoads
    <3> QED
      BY <3>1, <3>2 DEF ProfileLoads
  <2>3. flight' = [flight EXCEPT ![f] = next]
    BY <1>8, <2>1 DEF Profiles!Leave, Profiles!Departs, ProfilesInv, ProfilesShape
  <2> HIDE DEF f, next
  <2>4. /\ flight' \in [Flights -> ProfileLoads]
        /\ \A g \in Flights : flight'[g].pc = flight[g].pc /\ flight'[g].key = flight[g].key
                              /\ flight'[g].result = flight[g].result
    BY <2>1, <2>2, <2>3 DEF ProfilesInv, ProfilesShape
  <2>5. /\ call' \in [Callers -> ProfileCalls]
        /\ \A d \in Callers : call'[d] = call[d] \/ call'[d] = Profiles!NoCall
    BY <2>1 DEF ProfilesInv, ProfilesShape, Profiles!NoCall, ProfileCalls
  <2>6. ASSUME NEW g \in Flights PROVE Loads(flight[g])'
    BY <1>1, <2>1, <2>4 DEF Loads
  <2>7. ASSUME NEW d \in Callers PROVE Asked(call[d])' /\ Shares(call[d])'
    BY <1>1, <2>1, <2>4, <2>5 DEF Asked, Shares, Profiles!NoCall
  <2>8. (\A g \in registry : flight[g].pc \notin {"free", "exited"})'
    BY <2>1, <2>4 DEF ProfilesInv, ProfilesShape
  <2>9. registry' \in SUBSET Flights
    BY <2>1 DEF ProfilesInv, ProfilesShape
  <2> QED
    BY <2>1, <2>4, <2>5, <2>6, <2>7, <2>8, <2>9 DEF ProfilesInv, ProfilesShape
<1>9. ASSUME NEW f \in Flights,
             Profiles!Deadline(f) \/ Profiles!Recheck(f) \/ Profiles!DropStale(f) \/ Profiles!Fetch(f)
               \/ Profiles!FetchFails(f) \/ Profiles!Publish(f)
      PROVE  ProfilesInv'
  <2> DEFINE at(pc, result) == [flight[f] EXCEPT !.pc = pc, !.result = result]
             late == [flight[f] EXCEPT !.ctx = "deadline"]
  <2>1. late \in ProfileLoads /\ late.pc = flight[f].pc /\ late.key = flight[f].key
        /\ late.result = flight[f].result
    BY <1>1 DEF ProfileLoads
  <2>2. \A pc \in {"finish", "drop", "fetch", "publish"}, result \in Nat \cup {None} :
           at(pc, result) \in ProfileLoads /\ at(pc, result).pc = pc /\ at(pc, result).result = result
           /\ at(pc, result).key = flight[f].key
    BY <1>1 DEF ProfileLoads
  <2>3. flight[f].pc \notin {"free", "exited"} /\ UNCHANGED <<refresh, registry, call>>
    BY <1>9 DEF Profiles!Deadline, Profiles!Recheck, Profiles!DropStale, Profiles!Fetch, Profiles!FetchFails,
                Profiles!Publish, Profiles!Becomes, Profiles!BecomesAt
  <2>4. flight[f].key \in ProfileKeys /\ flight[f].key.refresh <= refresh[Profiles!player]
        /\ (flight[f].result # None => flight[f].result >= flight[f].key.refresh)
        /\ (flight[f].pc = "publish" => flight[f].result # None)
    BY <1>1, <2>3 DEF Loads
  <2>5. \/ flight' = [flight EXCEPT ![f] = late] /\ cache' = cache
        \/ \E pc \in {"finish", "drop", "fetch"} :
              flight' = [flight EXCEPT ![f] = at(pc, None)] /\ cache' \in {cache, None}
        \/ cache # None /\ flight' = [flight EXCEPT ![f] = at("finish", cache.fetched)] /\ cache' = cache
        \/ flight' = [flight EXCEPT ![f] = at("publish", refresh[Profiles!player])] /\ cache' = cache
        \/ flight' = [flight EXCEPT ![f] = at("finish", flight[f].result)] /\ Profiles!Publish(f)
    BY <1>9 DEF Profiles!Deadline, Profiles!Recheck, Profiles!DropStale, Profiles!Fetch, Profiles!FetchFails,
                Profiles!Publish, Profiles!Becomes, Profiles!BecomesAt, Profiles!Dropped, Profiles!Hit
  <2> HIDE DEF at, late
  <2>6. Loads(late)
    BY <2>1, <2>3, <2>4 DEF Loads
  <2>7. \A pc \in {"finish", "drop", "fetch"} : Loads(at(pc, None))
    BY <2>2, <2>4 DEF Loads
  <2>8. cache # None => Loads(at("finish", cache.fetched)) /\ cache.fetched \in Nat
    BY <1>1, <2>2, <2>4 DEF Loads, Entry, ProfilesInv, ProfileKeys
  <2>9. Loads(at("publish", refresh[Profiles!player]))
    BY <1>1, <2>2, <2>4, NoneAssumption DEF Loads, ProfileKeys
  <2>10. flight[f].result \in Nat \cup {None}
    BY <1>1 DEF ProfileLoads
  <2>11. Loads(at("finish", flight[f].result))
    BY <2>2, <2>4, <2>10 DEF Loads
  <2>12. cache' \in Entry \cup {None}
         /\ (cache' \notin {cache, None} => cache'.fetched >= refresh[Profiles!player])
    <3>1. CASE Profiles!Publish(f)
      <4>1. flight[f].result \in Nat /\ flight[f].result >= flight[f].key.refresh
        BY <2>4, <2>10, <3>1 DEF Profiles!Publish
      <4> QED
        BY <1>1, <3>1, <4>1 DEF Profiles!Publish, Profiles!IsUnrefreshed, Entry
    <3> QED
      BY <1>1, <2>5, <3>1
  <2>13. \E next \in ProfileLoads :
            /\ flight' = [flight EXCEPT ![f] = next] /\ Loads(next) /\ next.key = flight[f].key
            /\ next.pc \notin {"free", "exited"}
    <3>1. ASSUME NEW pc \in {"finish", "drop", "fetch", "publish"}, NEW result \in Nat \cup {None},
                 flight' = [flight EXCEPT ![f] = at(pc, result)], Loads(at(pc, result))
          PROVE  <2>13!:
      BY <2>2, <3>1
    <3> QED
      BY <1>1, <2>1, <2>3, <2>5, <2>6, <2>7, <2>8, <2>9, <2>10, <2>11, <3>1
  <2> QED
    BY <2>3, <2>12, <2>13, LoadStep
<1>10. ASSUME NEW f \in Flights, Profiles!Finish(f) PROVE ProfilesInv'
  <2> DEFINE next == [flight[f] EXCEPT !.pc = "exited",
                                       !.result = IF flight[f].ctx = "live" THEN @ ELSE None]
             flights == [flight EXCEPT ![f] = next]
  <2>1. next \in ProfileLoads /\ next.pc = "exited" /\ next.key = flight[f].key
        /\ next.result \in {flight[f].result, None}
    BY <1>1 DEF ProfileLoads
  <2>2. /\ flights = [flight EXCEPT ![f].pc = "exited",
                                    ![f].result = IF flight[f].ctx = "live" THEN @ ELSE None]
    BY DEF ProfilesInv, ProfilesShape
  <2>3. flight[f].pc = "finish" /\ flight' = Profiles!Freed(flights, call) /\ registry' = registry \ {f}
        /\ UNCHANGED <<cache, refresh, call>>
    BY <1>10, <2>2 DEF Profiles!Finish
  <2>4. Loads(next)
    BY <1>1, <2>1, <2>3 DEF Loads
  <2> HIDE DEF next
  <2>5. flights \in [Flights -> ProfileLoads] /\ flights[f] = next
        /\ \A g \in Flights \ {f} : flights[g] = flight[g]
    BY <2>1 DEF ProfilesInv, ProfilesShape
  <2> HIDE DEF flights
  <2>6. /\ flight' \in [Flights -> ProfileLoads]
        /\ \A g \in Flights : \/ flight'[g] = flights[g]
                              \/ /\ flight'[g] = Profiles!Free /\ flights[g].pc = "exited"
                                 /\ \A d \in Callers : call[d].flight # g
    BY <2>3, <2>5, FreedFlights
  <2>7. ASSUME NEW g \in Flights PROVE Loads(flight[g])'
    BY <1>1, <2>3, <2>4, <2>5, <2>6, FreeLoads DEF Loads
  <2>8. ASSUME NEW d \in Callers PROVE Asked(call[d])' /\ Shares(call[d])'
    BY <1>1, <2>1, <2>3, <2>5, <2>6 DEF Asked, Shares
  <2>9. (\A g \in registry : flight[g].pc \notin {"free", "exited"})'
    BY <2>3, <2>5, <2>6 DEF ProfilesInv, ProfilesShape
  <2> QED
    BY <2>3, <2>6, <2>7, <2>8, <2>9 DEF ProfilesInv, ProfilesShape
<1> QED
  BY <1>2, <1>3, <1>4, <1>5, <1>6, <1>7, <1>8, <1>9, <1>10 DEF Profiles!Next

\* An entry that was good leaves the cache by a refresh alone.
LEMMA EntryKept ==
  ASSUME ProfilesInv, Profiles!Next, Profiles!Hit, cache' = None
  PROVE  refresh' # refresh
<1>1. cache \in Entry /\ refresh \in [Members -> Nat] /\ cache # None /\ ~cache.expired
  BY DEF ProfilesInv, ProfilesShape, Profiles!Hit
<1>2. None \notin Entry
  BY NoneAssumption DEF Entry
<1>3. ~Profiles!Expire
  BY <1>1, <1>2 DEF Profiles!Expire, Entry
<1>4. ~Profiles!CleanUp
  BY <1>1 DEF Profiles!CleanUp, Profiles!Stale
<1>5. CASE Profiles!InvalidateCache
  BY <1>1, <1>5, ThePlayer DEF Profiles!InvalidateCache, Profiles!Refreshed
<1>6. Profiles!Dropped = cache
  BY <1>1 DEF Profiles!Dropped, Profiles!Stale
<1>7. ASSUME NEW c \in Callers, Profiles!Drop(c) PROVE FALSE
  BY <1>1, <1>6, <1>7 DEF Profiles!Drop
<1>8. ASSUME NEW f \in Flights, Profiles!DropStale(f) PROVE FALSE
  BY <1>1, <1>6, <1>8 DEF Profiles!DropStale
<1>9. ASSUME NEW f \in Flights, Profiles!Publish(f) PROVE FALSE
  <2>1. flight[f].result \in Nat
    BY <1>9 DEF ProfilesInv, ProfilesShape, ProfileLoads, Loads, Profiles!Publish
  <2>2. [fetched |-> flight[f].result, expired |-> FALSE] \in Entry
    BY <2>1 DEF Entry
  <2> QED
    BY <1>1, <1>2, <1>9, <2>2 DEF Profiles!Publish
<1> QED
  BY <1>1, <1>3, <1>4, <1>5, <1>7, <1>8, <1>9
  DEF Profiles!Next, Profiles!GetProfileRecords, Profiles!LookUp, Profiles!GiveUp, Profiles!Join,
      Profiles!Answered, Profiles!Leave, Profiles!Departs, Profiles!Deadline, Profiles!Recheck,
      Profiles!Fetch, Profiles!FetchFails, Profiles!Finish

-----------------------------------------------------------------------------
(* This Week. *)

Building == {"xur", "milestones", "store"}
WeekCalls == [pc: Building \cup {"idle", "available"}, now: Nat, building: Week!Payload \cup {None}]

WeekShape ==
    /\ clock \in Nat
    /\ payload \in Week!Payload \cup {None}
    /\ call \in [Callers -> WeekCalls]

\* A request read the time, and builds on what it read, no longer ago than it may.
InTime(x) ==
    /\ x.pc # "idle" => x.now <= clock /\ clock <= x.now + MaxBuild
    /\ x.pc \in Building => x.building \in Week!Payload /\ x.building.at = x.now

\* The end of what was asked for at t: the next daily reset, or the last of the
\* five minutes when they are past it.
LastEnd(t) == Week!Max({Week!NextDailyReset(t), t + Floor})

Expires == payload # None =>
    clock < payload.expires /\ payload.expires <= LastEnd(payload.at) + MaxBuild

WeekInv == WeekShape /\ Expires /\ \A c \in Callers : InTime(call[c])

LEMMA Remainder ==
  ASSUME NEW n \in Int, NEW period \in Nat \ {0}
  PROVE  n % period \in 0 .. period - 1
  OBVIOUS

\* The next event is past the present time.
LEMMA Follows ==
  ASSUME NEW t \in Nat, NEW phase \in Nat, NEW period \in Nat \ {0}
  PROVE  Week!Following(t, phase, period) \in Nat /\ Week!Following(t, phase, period) > t
<1> DEFINE into == (t + period - phase) % period
<1>1. t + period - phase \in Int
  OBVIOUS
<1>2. into \in 0 .. period - 1
  BY <1>1, Remainder
<1> HIDE DEF into
<1>3. t + (period - into) \in Nat /\ t + (period - into) > t
  BY <1>2
<1> QED
  BY <1>3 DEF Week!Following, into

LEMMA Least ==
  ASSUME NEW a \in Int, NEW b \in Int, NEW d \in Int
  PROVE  Week!Min({a, b, d}) \in Int /\ Week!Min({a, b, d}) <= d
  BY DEF Week!Min

LEMMA Larger ==
  ASSUME NEW a \in Int, NEW b \in Int
  PROVE  /\ Week!Max({a, b}) \in {a, b}
         /\ Week!Max({a, b}) >= a /\ Week!Max({a, b}) >= b
  BY DEF Week!Max

\* A payload lives a tick at least, and not past its last end.
LEMMA Lives ==
  ASSUME NEW pub \in Week!Payload
  PROVE  /\ LastEnd(pub.at) \in Nat
         /\ Week!TTL(pub) \in Nat /\ Week!TTL(pub) >= 1
         /\ pub.at + Week!TTL(pub) <= LastEnd(pub.at)
<1>1. pub.at \in Nat /\ Floor \in Nat \ {0} /\ Day \in Nat \ {0} /\ 7 * Day \in Nat \ {0} /\ 3 * Day \in Nat
  BY WeekAssumption DEF Week!Payload
<1>2. /\ Week!NextDailyReset(pub.at) \in Nat
      /\ Week!NextWeeklyReset(pub.at) \in Nat /\ Week!NextXurArrival(pub.at) \in Nat
  BY <1>1, Follows DEF Week!NextDailyReset, Week!NextWeeklyReset, Week!NextXurArrival, Week!Week, Week!Friday
<1> DEFINE least == Week!Min({Week!NextWeeklyReset(pub.at), Week!NextXurArrival(pub.at),
                              Week!NextDailyReset(pub.at)})
           event == least - pub.at
<1>3. least \in Int /\ least <= Week!NextDailyReset(pub.at)
  BY <1>2, Least
<1>4. Week!TTL(pub) \in {Floor, Week!Max({event, Floor})}
  BY DEF Week!TTL
<1> HIDE DEF least
<1>5. event \in Int /\ Floor \in Int /\ Week!NextDailyReset(pub.at) \in Int /\ pub.at + Floor \in Int
  BY <1>1, <1>2, <1>3
<1> HIDE DEF event
<1>6. Week!Max({event, Floor}) \in {event, Floor} /\ Week!Max({event, Floor}) >= Floor
  BY <1>5, Larger
<1>7. /\ LastEnd(pub.at) \in {Week!NextDailyReset(pub.at), pub.at + Floor}
      /\ LastEnd(pub.at) >= Week!NextDailyReset(pub.at) /\ LastEnd(pub.at) >= pub.at + Floor
  BY <1>5, Larger DEF LastEnd
<1> QED
  BY <1>1, <1>2, <1>3, <1>4, <1>6, <1>7 DEF event

LEMMA WeekInit == Week!Init => WeekInv
<1>1. Week!NoCall \in WeekCalls /\ Week!NoCall.pc = "idle"
  BY DEF Week!NoCall, WeekCalls
<1> QED
  BY <1>1, WeekAssumption DEF Week!Init, WeekInv, WeekShape, Expires, InTime, Building

\* A request takes a step and the clock stands.
LEMMA WeekStep ==
  ASSUME WeekInv, NEW c \in Callers, NEW next \in WeekCalls, call' = [call EXCEPT ![c] = next],
         InTime(next), Week!Frame, payload' \in Week!Payload \cup {None}, Expires'
  PROVE  WeekInv'
<1>1. call' \in [Callers -> WeekCalls] /\ call'[c] = next /\ \A d \in Callers \ {c} : call'[d] = call[d]
  BY DEF WeekInv, WeekShape
<1>2. UNCHANGED clock
  BY DEF Week!Frame
<1>3. ASSUME NEW d \in Callers PROVE InTime(call[d])'
  BY <1>1, <1>2 DEF WeekInv, InTime
<1> QED
  BY <1>1, <1>2, <1>3 DEF WeekInv, WeekShape

LEMMA WeekNext ==
  ASSUME WeekInv, Week!Next
  PROVE  WeekInv'
<1>1. /\ clock \in Nat /\ MaxBuild \in Nat
      /\ payload \in Week!Payload \cup {None}
      /\ \A c \in Callers : call[c] \in WeekCalls /\ InTime(call[c])
  BY WeekAssumption DEF WeekInv, WeekShape
<1>2. CASE Week!Download /\ UNCHANGED Week!weeklyVars
  BY <1>2 DEF Week!weeklyVars, WeekInv, WeekShape, Expires, InTime
<1>3. CASE Week!OnVersionChanged
  BY <1>3 DEF Week!OnVersionChanged, WeekInv, WeekShape, Expires, InTime
<1>4. CASE Week!Tick
  <2>1. /\ \A c \in Callers : call[c].pc # "idle" => clock - call[c].now < MaxBuild
        /\ clock' = clock + 1 /\ call' = call
        /\ payload' = IF payload # None /\ clock' < payload.expires THEN payload ELSE None
    BY <1>4 DEF Week!Tick, Week!Kept
  <2>2. ASSUME NEW c \in Callers PROVE InTime(call[c])'
    <3>1. call[c].now \in Nat
      BY <1>1 DEF WeekCalls
    <3>2. call[c].pc # "idle" => call[c].now <= clock' /\ clock' <= call[c].now + MaxBuild
      BY <1>1, <2>1, <3>1 DEF InTime
    <3> QED
      BY <1>1, <2>1, <3>2 DEF InTime
  <2>3. Expires'
    BY <2>1 DEF WeekInv, Expires
  <2> QED
    BY <1>1, <2>1, <2>2, <2>3 DEF WeekInv, WeekShape
<1>5. ASSUME NEW c \in Callers, Week!Frame, UNCHANGED payload,
             \E next \in WeekCalls : call' = [call EXCEPT ![c] = next] /\ InTime(next)
      PROVE  WeekInv'
  <2>1. Expires'
    BY <1>5 DEF Week!Frame, WeekInv, Expires
  <2> QED
    BY <1>1, <1>5, <2>1, WeekStep
<1>6. Week!NoCall \in WeekCalls /\ InTime(Week!NoCall)
  BY DEF Week!NoCall, WeekCalls, InTime, Building
<1>7. ASSUME NEW c \in Callers, NEW now \in Nat, now <= clock, clock <= now + MaxBuild, Week!LooksUp(c, now)
      PROVE  \E next \in WeekCalls : call' = [call EXCEPT ![c] = next] /\ InTime(next)
  <2> DEFINE begun(pc) == [pc |-> pc, now |-> now, building |-> Week!Blank(now)]
  <2>1. Week!Blank(now) \in Week!Payload /\ Week!Blank(now).at = now
    BY DEF Week!Blank, Week!Payload, Week!Parts
  <2>2. ASSUME NEW pc \in {"xur", "milestones"}
        PROVE  begun(pc) \in WeekCalls /\ InTime(begun(pc))
    BY <1>7, <2>1 DEF WeekCalls, Building, InTime
  <2>3. \/ call' = [call EXCEPT ![c] = Week!NoCall]
        \/ \E pc \in {"xur", "milestones"} : call' = [call EXCEPT ![c] = begun(pc)]
    BY <1>7 DEF Week!LooksUp, Week!Goes
  <2> HIDE DEF begun
  <2> QED
    BY <1>6, <2>2, <2>3
<1>8. clock <= clock /\ clock <= clock + MaxBuild
  BY <1>1
<1>9. ASSUME NEW c \in Callers, Week!GetWeekly(c) PROVE WeekInv'
  BY <1>1, <1>5, <1>7, <1>8, <1>9 DEF Week!GetWeekly
<1>10. ASSUME NEW c \in Callers, Week!LiveVendorItemHashes(c) PROVE WeekInv'
  <2> DEFINE next == [Week!NoCall EXCEPT !.pc = "available", !.now = clock]
  <2>1. next \in WeekCalls /\ InTime(next)
    BY <1>1, <1>8 DEF Week!NoCall, WeekCalls, InTime, Building
  <2>2. call' = [call EXCEPT ![c] = next] /\ Week!Frame /\ UNCHANGED payload
    BY <1>10 DEF Week!LiveVendorItemHashes, Week!Goes
  <2> QED
    BY <1>5, <2>1, <2>2
<1>11. ASSUME NEW c \in Callers, Week!XurItemHashes(c) PROVE WeekInv'
  <2>1. call[c].now \in Nat /\ call[c].now <= clock /\ clock <= call[c].now + MaxBuild
    BY <1>1, <1>11 DEF Week!XurItemHashes, WeekCalls, InTime
  <2>2. Week!LooksUp(c, call[c].now) \/ call' = [call EXCEPT ![c] = Week!NoCall]
    BY <1>11 DEF Week!XurItemHashes, Week!Goes
  <2> QED
    BY <1>5, <1>6, <1>7, <1>11, <2>1, <2>2 DEF Week!XurItemHashes
\* A build goes on with what it began.
<1>12. ASSUME NEW c \in Callers, NEW pc \in Building, call[c].pc \in Building,
              NEW field \in {"xur", "milestones"}, NEW value \in Week!Parts,
              Week!BuildsOn(c, pc, Week!Got(c, field, value))
       PROVE  \E next \in WeekCalls : call' = [call EXCEPT ![c] = next] /\ InTime(next)
  <2> DEFINE pub == Week!Got(c, field, value)
             next == [call[c] EXCEPT !.pc = pc, !.building = pub]
  <2>1. call[c].building \in Week!Payload
    BY <1>1, <1>12 DEF InTime
  <2>2. pub \in Week!Payload /\ pub.at = call[c].building.at
    <3>1. CASE field = "xur"
      BY <2>1, <3>1 DEF Week!Got, Week!Payload
    <3>2. CASE field = "milestones"
      BY <2>1, <3>2 DEF Week!Got, Week!Payload
    <3> QED
      BY <3>1, <3>2
  <2> HIDE DEF pub
  <2>3. next \in WeekCalls /\ next.pc = pc /\ next.building = pub /\ next.now = call[c].now
    BY <1>1, <2>2 DEF WeekCalls
  <2>4. call' = [call EXCEPT ![c] = next]
    BY <1>12 DEF Week!BuildsOn, Week!Goes, pub
  <2> HIDE DEF next
  <2>5. InTime(next)
    BY <1>1, <1>12, <2>2, <2>3 DEF InTime, Building
  <2> QED
    BY <2>3, <2>4, <2>5
<1>13. ASSUME NEW c \in Callers, Week!FetchXurInventory(c) \/ Week!FetchMilestones(c) PROVE WeekInv'
  <2>1. Week!Frame /\ UNCHANGED payload /\ call[c].pc \in Building
    BY <1>13 DEF Week!FetchXurInventory, Week!FetchMilestones, Building
  <2>2. \E pc \in Building, field \in {"xur", "milestones"}, value \in Week!Parts :
           Week!BuildsOn(c, pc, Week!Got(c, field, value))
    BY <1>13 DEF Week!FetchXurInventory, Week!FetchMilestones, Building, Week!Parts
  <2> QED
    BY <1>5, <1>12, <2>1, <2>2
<1>14. ASSUME NEW c \in Callers, Week!Store(c) PROVE WeekInv'
  <2> DEFINE pub == call[c].building
             stored == [pub EXCEPT !.stored = clock, !.expires = clock + Week!TTL(pub)]
  <2>1. pub \in Week!Payload /\ clock <= pub.at + MaxBuild /\ pub.at \in Nat
    BY <1>1, <1>14 DEF Week!Store, InTime, Building, Week!Payload
  <2>2. /\ LastEnd(pub.at) \in Nat /\ Week!TTL(pub) \in Nat /\ Week!TTL(pub) >= 1
        /\ pub.at + Week!TTL(pub) <= LastEnd(pub.at)
    BY <2>1, Lives
  <2>3. payload' = stored /\ Week!Frame /\ call' = [call EXCEPT ![c] = Week!NoCall]
    BY <1>14 DEF Week!Store, Week!Goes
  <2> HIDE DEF pub
  <2>4. stored \in Week!Payload /\ stored.at = pub.at /\ stored.expires = clock + Week!TTL(pub)
    <3>1. clock \in Nat /\ clock + Week!TTL(pub) \in Nat
      BY <1>1, <2>2
    <3>2. \A n \in Nat, m \in Nat :
             LET kept == [pub EXCEPT !.stored = n, !.expires = m]
             IN kept \in Week!Payload /\ kept.at = pub.at /\ kept.expires = m
      BY <2>1 DEF Week!Payload
    <3> QED
      BY <3>1, <3>2
  <2> HIDE DEF stored
  <2>5. LastEnd(payload.at)' = LastEnd(pub.at)
    BY <2>3, <2>4 DEF LastEnd, Week!NextDailyReset, Week!Following
  <2>6. Expires'
    BY <1>1, <2>1, <2>2, <2>3, <2>4, <2>5 DEF Expires, Week!Frame
  <2> QED
    BY <1>6, <2>3, <2>4, <2>6, WeekStep
<1> QED
  BY <1>2, <1>3, <1>4, <1>9, <1>10, <1>11, <1>13, <1>14 DEF Week!Next

\* What the invariant says of the payload.
LEMMA WeekShows == WeekInv => Week!PayloadEndsAtEvent
<1> SUFFICES ASSUME WeekInv, payload # None PROVE clock < LastEnd(payload.at) + MaxBuild
  BY DEF Week!PayloadEndsAtEvent, Week!Live, LastEnd
<1>1. payload \in Week!Payload /\ payload.expires \in Nat /\ clock \in Nat /\ MaxBuild \in Nat
  BY WeekAssumption DEF WeekInv, WeekShape, Week!Payload
<1>2. LastEnd(payload.at) \in Nat
  BY <1>1, Lives
<1> QED
  BY <1>1, <1>2 DEF WeekInv, Expires

-----------------------------------------------------------------------------
(* The facts of items. *)

ItemCalls == [pc: {"idle", "scan", "query", "store", "answer", "perksQuery", "perksStore"},
              batch: SUBSET Hashes, got: [Hashes -> Items!Cached], attempt: Nat]

ItemsShape ==
    /\ installed \in ItemVersions
    /\ announcing \in Items!Cached
    /\ fence \in Items!Fence
    /\ facts \in [Hashes -> Items!Cached]
    /\ caller \in [Callers -> ItemCalls]

\* Nothing is to be retired: the installed manifest has been announced, or is
\* the one announced before.
Settled == announcing \in {None, fence.version}

\* The installed manifest is the one under way, or the one announced last.
Announced ==
    /\ announcing # None => installed = announcing
    /\ announcing = None => fence.version \in {None, installed}

\* A lookup that may still store its facts has read the installed manifest.
ReadsInstalled(x) ==
    /\ x.attempt <= fence.generation
    /\ Settled /\ x.pc = "store" /\ x.attempt = fence.generation =>
          \A h \in x.batch : x.got[h] = installed

ItemsInv ==
    /\ ItemsShape
    /\ Announced
    /\ Settled => \A h \in Hashes : facts[h] \in {None, installed}
    /\ \A c \in Callers : ReadsInstalled(caller[c])

\* Nothing but the batch enters a bounded cache.
LEMMA StoredAtMost ==
  ASSUME NEW cached \in [Hashes -> Items!Cached], NEW got \in [Hashes -> Items!Cached], NEW batch,
         NEW after \in Items!Stored(cached, got, batch)
  PROVE  /\ after \in [Hashes -> Items!Cached]
         /\ \A h \in Hashes : after[h] \notin {None, cached[h]} => h \in batch /\ after[h] = got[h]
<1>1. PICK kept : after = [h \in Hashes |-> IF h \notin kept THEN None
                                            ELSE IF h \in batch THEN got[h] ELSE cached[h]]
  BY DEF Items!Stored
<1> QED
  BY <1>1 DEF Items!Cached

LEMMA Uncalled == Items!NoCall \in ItemCalls /\ Items!NoCall.pc = "idle" /\ Items!NoCall.attempt = 0
  BY DEF Items!NoCall, Items!Nothing, Items!InertAttempt, Items!Cached, ItemCalls

LEMMA ItemsInit == Items!Init => ItemsInv
<1> SUFFICES ASSUME Items!Init PROVE ItemsInv
  OBVIOUS
<1>1. fence \in Items!Fence /\ fence.version = None /\ fence.generation = 1
  BY DEF Items!Init, Items!NewFence, Items!Fence, Items!InertAttempt
<1>2. facts \in [Hashes -> Items!Cached] /\ \A h \in Hashes : facts[h] = None
  BY DEF Items!Init, Items!Nothing, Items!Cached
<1>3. caller = [c \in Callers |-> Items!NoCall] /\ installed \in ItemVersions /\ announcing = None
  BY DEF Items!Init
<1> QED
  BY <1>1, <1>2, <1>3, Uncalled DEF ItemsInv, ItemsShape, Announced, ReadsInstalled, Items!Cached

\* A lookup takes a step.
LEMMA ItemStep ==
  ASSUME ItemsInv, NEW c \in Callers, NEW next \in ItemCalls, caller' = [caller EXCEPT ![c] = next],
         ReadsInstalled(next), UNCHANGED <<installed, announcing, fence>>,
         facts' \in [Hashes -> Items!Cached],
         Settled => \A h \in Hashes : facts'[h] \in {None, facts[h], installed}
  PROVE  ItemsInv'
<1>1. caller' \in [Callers -> ItemCalls] /\ caller'[c] = next
      /\ \A d \in Callers \ {c} : caller'[d] = caller[d]
  BY DEF ItemsInv, ItemsShape
<1>2. ASSUME NEW d \in Callers PROVE ReadsInstalled(caller[d])'
  BY <1>1 DEF ItemsInv, ReadsInstalled, Settled
<1> QED
  BY <1>1, <1>2 DEF ItemsInv, ItemsShape, Announced, Settled

LEMMA ItemsNext ==
  ASSUME ItemsInv, Items!Next
  PROVE  ItemsInv'
<1>1. /\ installed \in ItemVersions /\ None \notin ItemVersions
      /\ fence.generation \in Nat \ {0} /\ fence.version \in ItemVersions \cup {None}
      /\ facts \in [Hashes -> Items!Cached]
      /\ \A c \in Callers : caller[c] \in ItemCalls /\ ReadsInstalled(caller[c])
  BY NoneAssumption DEF ItemsInv, ItemsShape, Items!Fence, Items!InertAttempt
<1>2. ASSUME NEW v \in ItemVersions, Items!Install(v) PROVE ItemsInv'
  <2>1. announcing = None /\ installed' = v /\ announcing' = v /\ UNCHANGED <<fence, facts, caller>>
    BY <1>2 DEF Items!Install
  <2>2. Settled /\ (Settled' => installed = v)
    BY <1>1, <2>1 DEF Settled, ItemsInv, Announced
  <2> QED
    BY <1>1, <2>1, <2>2 DEF ItemsInv, ItemsShape, Announced, ReadsInstalled, Items!Cached
<1>3. CASE Items!OnVersionChanged
  <2>1. announcing # None /\ announcing' = None /\ UNCHANGED <<installed, caller>> /\ installed = announcing
    BY <1>3 DEF Items!OnVersionChanged, ItemsInv, Announced
  <2>2. CASE announcing = fence.version
    <3>1. UNCHANGED <<fence, facts>> /\ Settled
      BY <1>3, <2>1, <2>2 DEF Items!OnVersionChanged, Items!Advanced, Items!Retires, Settled
    <3> QED
      BY <1>1, <2>1, <2>2, <3>1 DEF ItemsInv, ItemsShape, Announced, ReadsInstalled, Settled, Items!Cached
  <2>3. CASE announcing # fence.version
    <3>1. /\ fence' = [generation |-> fence.generation + 1, version |-> announcing]
          /\ facts' = Items!Nothing
      BY <1>3, <2>1, <2>3 DEF Items!OnVersionChanged, Items!Advanced, Items!Retires
    <3>2. fence' \in Items!Fence /\ fence'.generation = fence.generation + 1 /\ fence'.version = installed
      BY <1>1, <2>1, <3>1 DEF Items!Fence, Items!InertAttempt
    <3>3. facts' \in [Hashes -> Items!Cached] /\ \A h \in Hashes : facts'[h] = None
      BY <3>1 DEF Items!Nothing, Items!Cached
    <3>4. ASSUME NEW c \in Callers PROVE ReadsInstalled(caller[c])'
      BY <1>1, <2>1, <3>2 DEF ReadsInstalled, ItemCalls
    <3> QED
      BY <2>1, <3>2, <3>3, <3>4 DEF ItemsInv, ItemsShape, Announced, Items!Cached
  <2> QED
    BY <2>2, <2>3
<1>4. ASSUME NEW c \in Callers, UNCHANGED <<installed, announcing, fence, facts>>,
             \E next \in ItemCalls : /\ caller' = [caller EXCEPT ![c] = next]
                                     /\ next.attempt <= fence.generation /\ next.pc # "store"
      PROVE  ItemsInv'
  BY <1>1, <1>4, ItemStep DEF ReadsInstalled
<1>5. ASSUME NEW c \in Callers, NEW batch \in SUBSET Hashes, Items!StartLookup(c, batch) PROVE ItemsInv'
  <2> DEFINE next == [Items!NoCall EXCEPT !.pc = "scan", !.batch = batch, !.attempt = fence.generation]
  <2>1. next \in ItemCalls /\ next.pc = "scan" /\ next.attempt = fence.generation
    BY <1>1 DEF Items!NoCall, Items!Nothing, Items!Cached, ItemCalls
  <2>2. caller' = [caller EXCEPT ![c] = next] /\ UNCHANGED <<installed, announcing, fence, facts>>
    BY <1>5 DEF Items!StartLookup, Items!Begin, Items!manifestVars
  <2> HIDE DEF next
  <2>3. next.attempt <= fence.generation /\ next.pc # "store"
    BY <1>1, <2>1
  <2> QED
    BY <1>4, <2>1, <2>2, <2>3
<1>6. ASSUME NEW c \in Callers, Items!Scan(c) PROVE ItemsInv'
  <2> DEFINE h == Items!NextHash(c)
             got == [caller[c].got EXCEPT ![h] = facts[h]]
             miss == [caller[c] EXCEPT !.pc = "query", !.got = Items!Nothing]
             last == [caller[c] EXCEPT !.pc = "answer", !.got = got]
             hit == [caller[c] EXCEPT !.got = got]
  <2>1. caller[c] \in ItemCalls /\ caller[c].pc = "scan" /\ caller[c].attempt <= fence.generation
    BY <1>1, <1>6 DEF Items!Scan, ReadsInstalled
  <2>2. got \in [Hashes -> Items!Cached] /\ Items!Nothing \in [Hashes -> Items!Cached]
    BY <1>1, <2>1 DEF ItemCalls, Items!Nothing, Items!Cached
  <2>3. \E next \in {miss, last, hit} : caller' = [caller EXCEPT ![c] = next]
    BY <1>6 DEF Items!Scan
  <2> HIDE DEF h, got
  <2>4. \A next \in {miss, last, hit} :
           next \in ItemCalls /\ next.attempt = caller[c].attempt /\ next.pc # "store"
    BY <2>1, <2>2 DEF ItemCalls
  <2>5. UNCHANGED <<installed, announcing, fence, facts>>
    BY <1>6 DEF Items!Scan, Items!manifestVars
  <2> HIDE DEF miss, last, hit
  <2> QED
    BY <1>4, <2>1, <2>3, <2>4, <2>5
<1>7. ASSUME NEW c \in Callers, Items!Query(c) \/ Items!QueryPerks(c) PROVE ItemsInv'
  <2> DEFINE got == [h \in Hashes |-> IF h \in caller[c].batch THEN installed ELSE None]
             at(pc) == [caller[c] EXCEPT !.pc = pc, !.got = got]
  <2>1. got \in [Hashes -> Items!Cached] /\ \A h \in caller[c].batch : got[h] = installed
    BY <1>1 DEF Items!Cached, ItemCalls
  <2>2. caller' = [caller EXCEPT ![c] = at("store")] \/ caller' = [caller EXCEPT ![c] = at("perksStore")]
    BY <1>7 DEF Items!Query, Items!QueryPerks, ItemsInv, ItemsShape
  <2> HIDE DEF got
  <2>3. \A pc \in {"store", "perksStore"} :
           at(pc) \in ItemCalls /\ at(pc).attempt = caller[c].attempt /\ at(pc).batch = caller[c].batch
           /\ at(pc).got = got
    BY <1>1, <2>1 DEF ItemCalls
  <2> HIDE DEF at
  <2>4. \A pc \in {"store", "perksStore"} : ReadsInstalled(at(pc))
    BY <1>1, <2>1, <2>3 DEF ReadsInstalled
  <2>5. UNCHANGED <<installed, announcing, fence, facts>>
    BY <1>7 DEF Items!Query, Items!QueryPerks, Items!manifestVars
  <2>6. \E next \in ItemCalls : caller' = [caller EXCEPT ![c] = next] /\ ReadsInstalled(next)
    BY <2>2, <2>3, <2>4
  <2> QED
    BY <1>1, <2>5, <2>6, ItemStep
<1>8. ASSUME NEW c \in Callers, Items!StoreFacts(c) PROVE ItemsInv'
  <2> DEFINE next == [caller[c] EXCEPT !.pc = "answer"]
  <2>1. next \in ItemCalls /\ next.pc = "answer" /\ next.attempt = caller[c].attempt
    BY <1>1 DEF ItemCalls
  <2>2. caller' = [caller EXCEPT ![c] = next] /\ UNCHANGED <<installed, announcing, fence>>
    BY <1>8 DEF Items!StoreFacts, Items!manifestVars, ItemsInv, ItemsShape
  <2> HIDE DEF next
  <2>3. ReadsInstalled(next)
    BY <1>1, <2>1 DEF ReadsInstalled
  <2>4. /\ facts' \in [Hashes -> Items!Cached]
        /\ Settled => \A h \in Hashes : facts'[h] \in {None, facts[h], installed}
    <3>1. CASE Items!IsCurrent(fence, caller[c].attempt)
      <4>1. facts' \in Items!Stored(facts, caller[c].got, caller[c].batch)
        BY <1>8, <3>1 DEF Items!StoreFacts
      <4>2. caller[c].got \in [Hashes -> Items!Cached]
        BY <1>1 DEF ItemCalls
      <4>3. Settled => \A h \in caller[c].batch : caller[c].got[h] = installed
        BY <1>1, <1>8, <3>1 DEF Items!StoreFacts, Items!IsCurrent, ReadsInstalled
      <4> QED
        BY <1>1, <4>1, <4>2, <4>3, StoredAtMost
    <3>2. CASE ~Items!IsCurrent(fence, caller[c].attempt)
      BY <1>1, <1>8, <3>2 DEF Items!StoreFacts
    <3> QED
      BY <3>1, <3>2
  <2> QED
    BY <2>1, <2>2, <2>3, <2>4, ItemStep
<1>9. ASSUME NEW c \in Callers, Items!Answer(c) \/ Items!StorePerks(c) \/ Items!Fail(c) PROVE ItemsInv'
  <2>1. caller' = [caller EXCEPT ![c] = Items!NoCall] /\ UNCHANGED <<installed, announcing, fence, facts>>
    BY <1>9 DEF Items!Answer, Items!StorePerks, Items!Fail, Items!manifestVars
  <2>2. Items!NoCall.attempt <= fence.generation /\ Items!NoCall.pc # "store"
    BY <1>1, Uncalled
  <2> QED
    BY <1>4, <2>1, <2>2, Uncalled
<1>10. ASSUME NEW c \in Callers, NEW h \in Hashes, Items!StartPerks(c, h) PROVE ItemsInv'
  <2> DEFINE next == [Items!NoCall EXCEPT !.pc = "perksQuery", !.batch = {h}]
  <2>1. next \in ItemCalls /\ next.pc = "perksQuery" /\ next.attempt = 0
    BY Uncalled DEF ItemCalls
  <2>2. caller' = [caller EXCEPT ![c] = next] /\ UNCHANGED <<installed, announcing, fence, facts>>
    BY <1>10 DEF Items!StartPerks, Items!manifestVars
  <2> HIDE DEF next
  <2>3. next.attempt <= fence.generation
    BY <1>1, <2>1
  <2> QED
    BY <1>4, <2>1, <2>2, <2>3
<1> QED
  BY <1>2, <1>3, <1>5, <1>6, <1>7, <1>8, <1>9, <1>10 DEF Items!Next

-----------------------------------------------------------------------------
(* Owned rolls. *)

ReadingFields == {"pc", "left", "pools", "rolls", "matches", "unmatched"}

\* What a copy holds by the version its weapon's pool was read of.
Columns(i, v) == Arms!CurrentColumns(Copies[i], Pool(v, Copies[i].item))
Pooled(i) == Columns(i, reading.pools[Copies[i].item])

ReadRolls == {[copy |-> x[1], columns |-> Columns(x[1], x[2])] : x \in (DOMAIN Copies) \X Nat}

ArmsShape ==
    /\ file \in Nat
    /\ reading = [f \in ReadingFields |-> reading[f]]
    /\ reading.pc = "profile" => reading.pools = [w \in Weapons |-> None] /\ reading.rolls = <<>>
    /\ reading.pc = "copies" =>
          /\ reading.left \in Seq(DOMAIN Copies)
          /\ reading.pools \in [Weapons -> Nat \cup {None}]
          /\ reading.rolls \in Seq(ReadRolls)

\* A roll is measured by the pool its weapon keeps.
RollsPooled ==
    \A k \in DOMAIN reading.rolls :
        LET roll == reading.rolls[k]
        IN /\ roll.copy \in DOMAIN Copies
           /\ reading.pools[Copies[roll.copy].item] # None
           /\ roll.columns = Pooled(roll.copy) /\ Arms!PerksOf(roll.columns) # {}

\* A copy that has been read has its roll, if there are perks in it.
Remaining(i) == \E k \in DOMAIN reading.left : reading.left[k] = i
CopiesRolled ==
    \A i \in DOMAIN Copies : ~Remaining(i) =>
        /\ reading.pools[Copies[i].item] # None
        /\ Arms!PerksOf(Pooled(i)) # {} => \E k \in DOMAIN reading.rolls : reading.rolls[k].copy = i

ArmsInv ==
    /\ ArmsShape
    /\ reading.pc = "copies" => RollsPooled /\ CopiesRolled
    /\ Arms!CopiesToldAlike

LEMMA NothingRead ==
  ASSUME file' \in Nat, reading' = [Arms!NoReading EXCEPT !.pc = reading'.pc], reading'.pc # "copies"
  PROVE  ArmsInv'
<1>1. /\ reading' = [f \in ReadingFields |-> reading'[f]] /\ reading'.matches = {}
      /\ reading'.pools = [w \in Weapons |-> None] /\ reading'.rolls = <<>>
  BY DEF Arms!NoReading, ReadingFields
<1> QED
  BY <1>1 DEF ArmsInv, ArmsShape, Arms!CopiesToldAlike

\* The report of rolls that are alike for copies that are alike.
LEMMA ReportAlike ==
  ASSUME NEW rolls, file' \in Nat, reading' = Arms!Report(rolls),
         \A i, j \in DOMAIN Copies : \A k \in DOMAIN rolls :
            Copies[i] = Copies[j] /\ rolls[k].copy = i =>
                \E m \in DOMAIN rolls : rolls[m].copy = j /\ rolls[m].columns = rolls[k].columns
  PROVE  ArmsInv'
<1>1. /\ reading' = [f \in ReadingFields |-> reading'[f]] /\ reading'.pc = "answered"
      /\ reading'.matches = UNION {Arms!MatchesOf(rolls, target) : target \in Targets}
      /\ reading'.unmatched = {[target |-> target, near |-> Arms!NearMiss(rolls, target)] :
                                  target \in {t \in Targets : Arms!MatchesOf(rolls, t) = {}}}
  BY DEF Arms!Report, Arms!NoReading, ReadingFields
<1>2. ASSUME NEW i \in DOMAIN Copies, NEW j \in DOMAIN Copies, Copies[i] = Copies[j], NEW target \in Targets,
             [target |-> target, copy |-> i] \in reading'.matches
      PROVE  /\ [target |-> target, copy |-> j] \in reading'.matches
             /\ \A u \in reading'.unmatched : u.target # target
  <2>1. PICK t \in Targets : [target |-> target, copy |-> i] \in Arms!MatchesOf(rolls, t)
    BY <1>1, <1>2
  <2>2. PICK k \in DOMAIN rolls : /\ [target |-> target, copy |-> i] = [target |-> t, copy |-> rolls[k].copy]
                                  /\ Arms!Applies(t, rolls[k]) /\ Arms!ContainsAll(rolls[k], t)
    BY <2>1 DEF Arms!MatchesOf
  <2>3. t = target /\ rolls[k].copy = i
    BY <2>2
  <2>4. PICK m \in DOMAIN rolls : rolls[m].copy = j /\ rolls[m].columns = rolls[k].columns
    BY <1>2, <2>3
  <2>5. Arms!Applies(target, rolls[m]) /\ Arms!ContainsAll(rolls[m], target)
    BY <1>2, <2>2, <2>3, <2>4 DEF Arms!Applies, Arms!ContainsAll
  <2>6. [target |-> target, copy |-> j] \in Arms!MatchesOf(rolls, target)
    BY <2>4, <2>5 DEF Arms!MatchesOf
  <2>7. ASSUME NEW u \in reading'.unmatched, u.target = target PROVE FALSE
    BY <1>1, <2>6, <2>7
  <2> QED
    BY <1>1, <2>6, <2>7
<1>3. Arms!CopiesToldAlike'
  BY <1>2 DEF Arms!CopiesToldAlike
<1> QED
  BY <1>1, <1>3 DEF ArmsInv, ArmsShape

LEMMA ArmsInit == Arms!Init => ArmsInv
<1> SUFFICES ASSUME Arms!Init PROVE ArmsInv
  OBVIOUS
<1>1. /\ file \in Nat
      /\ reading = [f \in ReadingFields |-> reading[f]] /\ reading.matches = {} /\ reading.pc = "idle"
  BY DEF Arms!Init, Arms!Found, Arms!NoReading, ReadingFields
<1> QED
  BY <1>1 DEF ArmsInv, ArmsShape, Arms!CopiesToldAlike

\* The next copy's roll is added, by the pool its weapon keeps.
LEMMA CopyRead ==
  ASSUME ArmsInv, file' \in Nat, reading.pc = "copies", reading.left # <<>>,
         NEW v \in Arms!PoolsFor(Copies[Head(reading.left)].item),
         reading' = [reading EXCEPT
            !.left = Tail(@), !.pools[Copies[Head(reading.left)].item] = v,
            !.rolls = @ \o Arms!Rolls(Head(reading.left), Pool(v, Copies[Head(reading.left)].item))]
  PROVE  ArmsInv'
<1> DEFINE i == Head(reading.left)
           weapon == Copies[i].item
           roll == [copy |-> i, columns |-> Columns(i, v)]
<1>1. /\ file \in Nat /\ reading = [f \in ReadingFields |-> reading[f]] /\ reading.left \in Seq(DOMAIN Copies)
      /\ reading.pools \in [Weapons -> Nat \cup {None}] /\ reading.rolls \in Seq(ReadRolls)
      /\ RollsPooled /\ CopiesRolled
  BY DEF ArmsInv, ArmsShape
<1>2. i \in DOMAIN Copies /\ weapon \in Weapons
  BY <1>1, CopiesAssumption
<1>3. v \in Nat /\ v # None
  BY <1>1, <1>2, NoneAssumption DEF Arms!PoolsFor
<1>4. reading.pools[weapon] # None => reading.pools[weapon] = v
  BY DEF Arms!PoolsFor
<1>5. roll \in ReadRolls
  <2>1. <<i, v>> \in (DOMAIN Copies) \X Nat
    BY <1>2, <1>3
  <2> QED
    BY <2>1 DEF ReadRolls
<1>6. Arms!Rolls(i, Pool(v, weapon)) = IF Arms!PerksOf(Columns(i, v)) = {} THEN <<>> ELSE <<roll>>
  BY DEF Arms!Rolls, Columns
<1>7. /\ reading' = [f \in ReadingFields |-> reading'[f]] /\ reading'.pc = "copies"
      /\ reading'.matches = reading.matches /\ reading'.unmatched = reading.unmatched
      /\ reading'.left = Tail(reading.left)
      /\ reading'.pools = [reading.pools EXCEPT ![weapon] = v]
      /\ reading'.rolls = reading.rolls \o Arms!Rolls(i, Pool(v, weapon))
  BY <1>1 DEF ReadingFields
<1> HIDE DEF roll
<1>8. /\ reading'.rolls \in Seq(ReadRolls)
      /\ \A k \in DOMAIN reading'.rolls :
            \/ k \in DOMAIN reading.rolls /\ reading'.rolls[k] = reading.rolls[k]
            \/ reading'.rolls[k] = roll /\ Arms!PerksOf(Columns(i, v)) # {}
      /\ \A k \in DOMAIN reading.rolls : k \in DOMAIN reading'.rolls /\ reading'.rolls[k] = reading.rolls[k]
      /\ Arms!PerksOf(Columns(i, v)) # {} => \E k \in DOMAIN reading'.rolls : reading'.rolls[k] = roll
  <2>1. CASE Arms!PerksOf(Columns(i, v)) = {}
    <3>1. \A rolls \in Seq(ReadRolls) : rolls \o <<>> = rolls
      OBVIOUS
    <3>2. reading'.rolls = reading.rolls
      BY <1>1, <1>6, <1>7, <2>1, <3>1
    <3> QED
      BY <1>1, <2>1, <3>2
  <2>2. CASE Arms!PerksOf(Columns(i, v)) # {}
    <3>1. reading'.rolls = reading.rolls \o <<roll>>
      BY <1>6, <1>7, <2>2
    <3> HIDE DEF i
    <3>2. \A rolls \in Seq(ReadRolls), r \in ReadRolls :
            /\ rolls \o <<r>> \in Seq(ReadRolls)
            /\ \A k \in DOMAIN (rolls \o <<r>>) :
                  \/ k \in DOMAIN rolls /\ (rolls \o <<r>>)[k] = rolls[k]
                  \/ (rolls \o <<r>>)[k] = r
            /\ \A k \in DOMAIN rolls : k \in DOMAIN (rolls \o <<r>>) /\ (rolls \o <<r>>)[k] = rolls[k]
            /\ \E k \in DOMAIN (rolls \o <<r>>) : (rolls \o <<r>>)[k] = r
      <4> SUFFICES ASSUME NEW rolls \in Seq(ReadRolls), NEW r \in ReadRolls
                   PROVE  /\ rolls \o <<r>> \in Seq(ReadRolls)
                          /\ \A k \in DOMAIN (rolls \o <<r>>) :
                                \/ k \in DOMAIN rolls /\ (rolls \o <<r>>)[k] = rolls[k]
                                \/ (rolls \o <<r>>)[k] = r
                          /\ \A k \in DOMAIN rolls :
                                k \in DOMAIN (rolls \o <<r>>) /\ (rolls \o <<r>>)[k] = rolls[k]
                          /\ \E k \in DOMAIN (rolls \o <<r>>) : (rolls \o <<r>>)[k] = r
        OBVIOUS
      <4>1. (rolls \o <<r>>)[Len(rolls) + 1] = r /\ DOMAIN rolls = 1 .. Len(rolls) /\ Len(rolls) \in Nat
            /\ DOMAIN (rolls \o <<r>>) = 1 .. Len(rolls) + 1
        OBVIOUS
      <4>2. \A k \in 1 .. Len(rolls) : (rolls \o <<r>>)[k] = rolls[k]
        OBVIOUS
      <4>3. Len(rolls) + 1 \in DOMAIN (rolls \o <<r>>)
        BY <4>1
      <4> QED
        BY <4>1, <4>2, <4>3
    <3> QED
      <4> DEFINE old == reading.rolls
      <4>1. old \in Seq(ReadRolls) /\ reading'.rolls = old \o <<roll>>
        BY <1>1, <3>1
      <4> HIDE DEF old
      <4>2. /\ reading'.rolls \in Seq(ReadRolls)
            /\ \A k \in DOMAIN reading'.rolls :
                  \/ k \in DOMAIN old /\ reading'.rolls[k] = old[k]
                  \/ reading'.rolls[k] = roll
            /\ \A k \in DOMAIN old : k \in DOMAIN reading'.rolls /\ reading'.rolls[k] = old[k]
            /\ \E k \in DOMAIN reading'.rolls : reading'.rolls[k] = roll
        <5> DEFINE new == old \o <<roll>>
        <5>1. /\ new \in Seq(ReadRolls)
              /\ \A k \in DOMAIN new : (k \in DOMAIN old /\ new[k] = old[k]) \/ new[k] = roll
              /\ \A k \in DOMAIN old : k \in DOMAIN new /\ new[k] = old[k]
              /\ \E k \in DOMAIN new : new[k] = roll
          <6> HIDE DEF new
          <6>1. \A rolls \in Seq(ReadRolls) : rolls = old => rolls \o <<roll>> = new
            BY DEF new
          <6> QED
            BY <1>5, <3>2, <4>1 DEF new
        <5>2. reading'.rolls = new
          BY <4>1
        <5> HIDE DEF new
        <5> QED
          BY <5>1, <5>2
      <4> QED
        BY <2>2, <4>2 DEF old
  <2> QED
    BY <2>1, <2>2
<1>9. /\ reading'.pools \in [Weapons -> Nat \cup {None}] /\ reading'.pools[weapon] = v
      /\ \A w \in Weapons : reading.pools[w] # None => reading'.pools[w] = reading.pools[w]
  <2> HIDE DEF weapon
  <2>1. \A pools \in [Weapons -> Nat \cup {None}] :
            /\ [pools EXCEPT ![weapon] = v] \in [Weapons -> Nat \cup {None}]
            /\ [pools EXCEPT ![weapon] = v][weapon] = v
            /\ \A w \in Weapons : w # weapon => [pools EXCEPT ![weapon] = v][w] = pools[w]
    BY <1>2, <1>3
  <2> QED
    <3> DEFINE old == reading.pools
    <3>1. /\ old \in [Weapons -> Nat \cup {None}] /\ reading'.pools = [old EXCEPT ![weapon] = v]
          /\ old[weapon] # None => old[weapon] = v
      BY <1>1, <1>4, <1>7 DEF weapon
    <3> HIDE DEF old
    <3>2. /\ reading'.pools \in [Weapons -> Nat \cup {None}] /\ reading'.pools[weapon] = v
          /\ \A w \in Weapons : old[w] # None => reading'.pools[w] = old[w]
      BY <2>1, <3>1
    <3> QED
      BY <3>2 DEF old
<1>10. reading'.left \in Seq(DOMAIN Copies) /\ \A j \in DOMAIN Copies : ~Remaining(j)' => j = i \/ ~Remaining(j)
  <2>1. \A left \in Seq(DOMAIN Copies) : left # <<>> =>
          /\ Tail(left) \in Seq(DOMAIN Copies)
          /\ \A k \in DOMAIN left : left[k] = Head(left) \/ \E m \in DOMAIN Tail(left) : Tail(left)[m] = left[k]
    <3> SUFFICES ASSUME NEW left \in Seq(DOMAIN Copies), left # <<>>, NEW k \in DOMAIN left, k # 1
                 PROVE  \E m \in DOMAIN Tail(left) : Tail(left)[m] = left[k]
      OBVIOUS
    <3>1. k - 1 \in DOMAIN Tail(left) /\ Tail(left)[k - 1] = left[k]
      OBVIOUS
    <3> QED
      BY <3>1
  <2>2. Tail(reading.left) \in Seq(DOMAIN Copies)
    BY <1>1, <2>1
  <2>3. ASSUME NEW j \in DOMAIN Copies, Remaining(j), j # i PROVE Remaining(j)'
    <3>1. PICK k \in DOMAIN reading.left : reading.left[k] = j
      BY <2>3 DEF Remaining
    <3>2. PICK m \in DOMAIN Tail(reading.left) : Tail(reading.left)[m] = j
      BY <1>1, <2>1, <2>3, <3>1
    <3> QED
      BY <1>7, <3>2 DEF Remaining
  <2> QED
    BY <1>7, <2>2, <2>3
<1>11. roll.copy = i /\ roll.columns = Columns(i, v)
  BY DEF roll
<1>12. RollsPooled'
  <2> SUFFICES ASSUME NEW k \in DOMAIN reading'.rolls
               PROVE  /\ reading'.rolls[k].copy \in DOMAIN Copies
                      /\ reading'.pools[Copies[reading'.rolls[k].copy].item] # None
                      /\ reading'.rolls[k].columns = Columns(reading'.rolls[k].copy,
                                                           reading'.pools[Copies[reading'.rolls[k].copy].item])
                      /\ Arms!PerksOf(reading'.rolls[k].columns) # {}
    BY DEF RollsPooled, Pooled
  <2>1. CASE reading'.rolls[k] = roll /\ Arms!PerksOf(Columns(i, v)) # {}
    BY <1>2, <1>3, <1>9, <1>11, <2>1 DEF Pooled
  <2>2. CASE k \in DOMAIN reading.rolls /\ reading'.rolls[k] = reading.rolls[k]
    <3> DEFINE j == reading.rolls[k].copy
    <3>1. /\ j \in DOMAIN Copies /\ reading.pools[Copies[j].item] # None
          /\ reading.rolls[k].columns = Columns(j, reading.pools[Copies[j].item])
          /\ Arms!PerksOf(reading.rolls[k].columns) # {}
      BY <1>1, <2>2 DEF RollsPooled, Pooled
    <3>2. reading'.pools[Copies[j].item] = reading.pools[Copies[j].item]
      BY <1>9, <3>1, CopiesAssumption
    <3> QED
      BY <2>2, <3>1, <3>2
  <2> QED
    BY <1>8, <2>1, <2>2
<1>13. CopiesRolled'
  <2> SUFFICES ASSUME NEW j \in DOMAIN Copies, ~Remaining(j)'
               PROVE  /\ reading'.pools[Copies[j].item] # None
                      /\ Arms!PerksOf(Pooled(j)') # {} =>
                            \E k \in DOMAIN reading'.rolls : reading'.rolls[k].copy = j
    BY DEF CopiesRolled
  <2>1. CASE j = i
    <3>1. Pooled(j)' = Columns(i, v)
      BY <1>9, <2>1 DEF Pooled
    <3> QED
      BY <1>3, <1>8, <1>9, <1>11, <2>1, <3>1
  <2>2. CASE ~Remaining(j)
    <3>1. /\ reading.pools[Copies[j].item] # None
          /\ Arms!PerksOf(Pooled(j)) # {} => \E k \in DOMAIN reading.rolls : reading.rolls[k].copy = j
      BY <1>1, <2>2 DEF CopiesRolled
    <3>2. Pooled(j)' = Pooled(j) /\ reading'.pools[Copies[j].item] = reading.pools[Copies[j].item]
      BY <1>9, <3>1, CopiesAssumption DEF Pooled
    <3> QED
      BY <1>8, <3>1, <3>2
  <2> QED
    BY <1>10, <2>1, <2>2
<1>14. Arms!CopiesToldAlike'
  BY <1>7 DEF ArmsInv, Arms!CopiesToldAlike
<1> QED
  BY <1>7, <1>8, <1>9, <1>10, <1>12, <1>13, <1>14 DEF ArmsInv, ArmsShape

\* Copies that are alike have rolls that are alike, once all have been read.
LEMMA RollsAlike ==
  ASSUME ArmsInv, reading.pc = "copies", reading.left = <<>>,
         NEW i \in DOMAIN Copies, NEW j \in DOMAIN Copies, Copies[i] = Copies[j],
         NEW k \in DOMAIN reading.rolls, reading.rolls[k].copy = i
  PROVE  \E m \in DOMAIN reading.rolls :
            reading.rolls[m].copy = j /\ reading.rolls[m].columns = reading.rolls[k].columns
<1>1. RollsPooled /\ CopiesRolled /\ ~Remaining(j)
  BY DEF ArmsInv, Remaining
<1>2. /\ Pooled(i) = Pooled(j) /\ reading.rolls[k].columns = Pooled(i)
      /\ Arms!PerksOf(Pooled(i)) # {}
  BY <1>1 DEF RollsPooled, Pooled, Columns
<1>3. PICK m \in DOMAIN reading.rolls : reading.rolls[m].copy = j
  BY <1>1, <1>2 DEF CopiesRolled
<1>4. reading.rolls[m].columns = Pooled(j)
  BY <1>1, <1>3 DEF RollsPooled
<1> QED
  BY <1>2, <1>3, <1>4

LEMMA ArmsNext ==
  ASSUME ArmsInv, Arms!Next
  PROVE  ArmsInv'
<1>1. file' \in Nat
  <2>1. file' \in {file, file + 1}
    BY DEF Arms!Next, Arms!Download, Arms!Close, Arms!Install, Arms!RollBack, Arms!Name, Arms!Reopen,
           Arms!Matches, Arms!ReadProfile, Arms!ReadCopy, Arms!Compare, Arms!Frame
  <2> QED
    BY <2>1 DEF ArmsInv, ArmsShape
<1>2. CASE UNCHANGED reading
  BY <1>1, <1>2 DEF ArmsInv, ArmsShape, RollsPooled, CopiesRolled, Remaining, Pooled, Arms!CopiesToldAlike
<1>3. ASSUME NEW pc \in {"profile", "error"}, reading' = [Arms!NoReading EXCEPT !.pc = pc] PROVE ArmsInv'
  <2>1. reading'.pc = pc
    BY <1>3 DEF Arms!NoReading
  <2> QED
    BY <1>1, <1>3, <2>1, NothingRead
<1>4. CASE Arms!Matches
  <2>1. CASE reading' = Arms!Report(<<>>)
    BY <1>1, <2>1, ReportAlike
  <2> QED
    BY <1>3, <1>4, <2>1 DEF Arms!Matches, Arms!Goes
<1>5. CASE Arms!ReadProfile
  <2> DEFINE left == [i \in DOMAIN Copies |-> i]
  <2>1. CASE reading' = [reading EXCEPT !.pc = "copies", !.left = left]
    <3>1. left \in Seq(DOMAIN Copies) /\ DOMAIN left = DOMAIN Copies /\ \A i \in DOMAIN Copies : left[i] = i
      BY CopiesAssumption
    <3> HIDE DEF left
    <3>2. /\ reading' = [f \in ReadingFields |-> reading'[f]] /\ reading'.left = left /\ reading'.pc = "copies"
          /\ UNCHANGED <<reading.matches, reading.unmatched, reading.pools, reading.rolls>>
      BY <2>1 DEF ArmsInv, ArmsShape, ReadingFields
    <3>3. reading.pools = [w \in Weapons |-> None] /\ reading.rolls = <<>>
      BY <1>5 DEF ArmsInv, ArmsShape, Arms!ReadProfile
    <3>4. \A i \in DOMAIN Copies : Remaining(i)'
      BY <3>1, <3>2 DEF Remaining
    <3>5. reading'.pools \in [Weapons -> Nat \cup {None}] /\ reading'.rolls \in Seq(ReadRolls)
      BY <3>2, <3>3
    <3> QED
      <4>1. ArmsShape'
        BY <1>1, <3>1, <3>2, <3>5 DEF ArmsShape
      <4>2. RollsPooled' /\ CopiesRolled'
        BY <3>2, <3>3, <3>4 DEF RollsPooled, CopiesRolled
      <4>3. Arms!CopiesToldAlike'
        BY <3>2 DEF ArmsInv, Arms!CopiesToldAlike
      <4> QED
        BY <4>1, <4>2, <4>3 DEF ArmsInv
  <2> QED
    BY <1>3, <1>5, <2>1 DEF Arms!ReadProfile, Arms!Goes
<1>6. CASE Arms!ReadCopy
  <2> DEFINE i == Head(reading.left)
             weapon == Copies[i].item
  <2>1. ASSUME NEW v \in Arms!PoolsFor(weapon),
               reading' = [reading EXCEPT !.left = Tail(@), !.pools[weapon] = v,
                                          !.rolls = @ \o Arms!Rolls(i, Pool(v, weapon))]
        PROVE  ArmsInv'
    BY <1>1, <1>6, <2>1, CopyRead DEF Arms!ReadCopy
  <2> QED
    BY <1>3, <1>6, <2>1 DEF Arms!ReadCopy, Arms!Goes
<1>7. CASE Arms!Compare
  <2>1. reading.pc = "copies" /\ reading.left = <<>> /\ reading' = Arms!Report(reading.rolls)
    BY <1>7 DEF Arms!Compare, Arms!Goes
  <2>2. \A i, j \in DOMAIN Copies : \A k \in DOMAIN reading.rolls :
            Copies[i] = Copies[j] /\ reading.rolls[k].copy = i =>
                \E m \in DOMAIN reading.rolls :
                    reading.rolls[m].copy = j /\ reading.rolls[m].columns = reading.rolls[k].columns
    BY <2>1, RollsAlike
  <2> QED
    BY <1>1, <2>1, <2>2, ReportAlike
<1> QED
  BY <1>2, <1>4, <1>5, <1>6, <1>7 DEF Arms!Next

-----------------------------------------------------------------------------
(* Record pages. *)

RequestFields ==
    {"pc", "page", "began", "chunk", "visited", "collected", "found", "roots", "seals", "failed", "told"}

\* A download that has a version to install.
FileInstalled ==
    /\ file \in 0 .. MaxInstalls
    /\ swap = "closed" /\ file = version => file < MaxInstalls

SealTold(r, seal) ==
    \E told \in r.told : told.seal = seal /\ told.total = Len(Pages!Triumphs(seal))
RootTold(r, root) == \A seal \in Pages!ToSet(Children(file, root)) : SealTold(r, seal)

\* Every root has failed, has been told in full, or is still to come.
RootsKept(r) ==
    /\ r.roots \in Seq(Nodes)
    /\ \A root \in Pages!ToSet(SealRoots) :
          root \in r.failed \/ (\E k \in DOMAIN r.roots : r.roots[k] = root) \/ RootTold(r, root)

\* The root that is told has the seals that are left, as its own version lists them.
SealRecords == {Pages!SealNode(seal) : seal \in Nodes}
SealsKept(r) ==
    /\ r.pc = "answered" => r.roots = <<>>
    /\ r.pc = "sealNodes" => r.roots # <<>> /\ r.seals # <<>> /\ r.seals = Children(file, Head(r.roots))
    /\ r.pc = "seal" =>
          /\ r.roots # <<>> /\ r.seals # <<>> /\ r.seals \in Seq(SealRecords)
          /\ \/ Head(r.roots) \in r.failed
             \/ \A seal \in Pages!ToSet(Children(file, Head(r.roots))) :
                   SealTold(r, seal) \/ \E k \in DOMAIN r.seals : r.seals[k].seal = seal

SealPlaces == {"profile", "root", "sealNodes", "seal", "answered"}

RequestKept(r) ==
    /\ r = [f \in RequestFields |-> r[f]]
    /\ r.pc \in {"walk", "definitions"} => r.page \in Pages!Pages
    /\ r.pc \in SealPlaces /\ r.page = "seals" =>
          /\ r.began \in 0 .. file
          /\ r.began = file => RootsKept(r) /\ SealsKept(r)

PagesInv == FileInstalled /\ RequestKept(request)

LEMMA PagesInit == Pages!Init => PagesInv
<1> SUFFICES ASSUME Pages!Init PROVE PagesInv
  OBVIOUS
<1>1. request = [f \in RequestFields |-> request[f]] /\ request.pc = "idle"
  BY DEF Pages!Init, Pages!NoRequest, RequestFields
<1>2. FileInstalled
  BY BoundAssumption DEF Pages!Init, Pages!Found, FileInstalled
<1> QED
  BY <1>1, <1>2 DEF PagesInv, RequestKept, SealPlaces

LEMMA FileNext ==
  ASSUME PagesInv, Pages!Next
  PROVE  FileInstalled' /\ (file' = file \/ (file' = file + 1 /\ UNCHANGED request))
<1>1. CASE Pages!Download /\ UNCHANGED request
  BY <1>1, BoundAssumption
  DEF PagesInv, FileInstalled, Pages!Download, Pages!Close, Pages!Install, Pages!RollBack, Pages!Name, Pages!Reopen
<1>2. CASE swap = "reopened" /\ swap' = "idle" /\ UNCHANGED <<file, version, faults, request>>
  BY <1>2 DEF PagesInv, FileInstalled
<1>3. CASE UNCHANGED <<file, version, swap>>
  BY <1>3 DEF PagesInv, FileInstalled
<1> QED
  BY <1>1, <1>2, <1>3
  DEF Pages!Next, Pages!Frame, Pages!GetPage, Pages!Walk, Pages!WalkFails,
      Pages!ReadDefinitions, Pages!Tell, Pages!GetSeals, Pages!ReadProfile, Pages!ReadRoot,
      Pages!ReadSealNodes, Pages!TellSeal, Pages!TellSeals

\* What is known of a request is known of it while the file is the same.
LEMMA SameFile ==
  ASSUME UNCHANGED file, RequestKept(request')
  PROVE  RequestKept(request)'
<1>1. \A seal : Pages!Triumphs(seal)' = Pages!Triumphs(seal)
  BY DEF Pages!Triumphs
<1>2. \A seal : SealTold(request', seal) => SealTold(request, seal)'
  BY <1>1 DEF SealTold
<1>3. RootsKept(request') => RootsKept(request)'
  BY <1>2 DEF RootsKept, RootTold
<1>4. SealsKept(request') => SealsKept(request)'
  BY <1>2 DEF SealsKept, SealRecords, Pages!SealNode
<1> QED
  BY <1>3, <1>4 DEF RequestKept

\* The roots stay, and more is told or has failed.
LEMMA RootsStay ==
  ASSUME NEW r, NEW next, RootsKept(r), next.roots = r.roots,
         r.failed \subseteq next.failed, r.told \subseteq next.told
  PROVE  RootsKept(next)
  BY DEF RootsKept, RootTold, SealTold

\* The first root has failed or has been told.
LEMMA RootsPassed ==
  ASSUME NEW r, NEW next, RootsKept(r), r.roots # <<>>, next.roots = Tail(r.roots),
         r.failed \subseteq next.failed, r.told \subseteq next.told,
         Head(r.roots) \in next.failed \/ RootTold(next, Head(r.roots))
  PROVE  RootsKept(next)
<1>1. \A roots \in Seq(Nodes) : roots # <<>> =>
         /\ Tail(roots) \in Seq(Nodes)
         /\ \A k \in DOMAIN roots : roots[k] = Head(roots) \/ \E m \in DOMAIN Tail(roots) : Tail(roots)[m] = roots[k]
  <2> SUFFICES ASSUME NEW roots \in Seq(Nodes), roots # <<>>, NEW k \in DOMAIN roots, k # 1
               PROVE  \E m \in DOMAIN Tail(roots) : Tail(roots)[m] = roots[k]
    OBVIOUS
  <2>1. k - 1 \in DOMAIN Tail(roots) /\ Tail(roots)[k - 1] = roots[k]
    OBVIOUS
  <2> QED
    BY <2>1
<1>2. next.roots \in Seq(Nodes)
  BY <1>1 DEF RootsKept
<1>3. ASSUME NEW root \in Pages!ToSet(SealRoots)
      PROVE  root \in next.failed \/ (\E k \in DOMAIN next.roots : next.roots[k] = root) \/ RootTold(next, root)
  <2>1. CASE root \in r.failed
    BY <2>1
  <2>2. CASE RootTold(r, root)
    BY <2>2 DEF RootTold, SealTold
  <2>3. CASE \E k \in DOMAIN r.roots : r.roots[k] = root
    <3>1. root = Head(r.roots) \/ \E m \in DOMAIN next.roots : next.roots[m] = root
      BY <1>1, <2>3 DEF RootsKept
    <3> QED
      BY <3>1
  <2> QED
    BY <2>1, <2>2, <2>3 DEF RootsKept
<1> QED
  BY <1>2, <1>3 DEF RootsKept

\* One seal is told, in full or with the root among those that failed.
LEMMA SealTells ==
  ASSUME PagesInv, RequestKept(request), request.pc = "seal", request.page = "seals",
         request.began = file, NEW triumphs, NEW failed,
         LET seal == Head(request.seals) IN
             \/ triumphs = seal.records \o Pages!Below(file, seal.below) /\ failed = request.failed
             \/ failed = request.failed \cup {Head(request.roots)},
         NEW next, next = [Pages!ToldWith(triumphs) EXCEPT !.failed = failed]
  PROVE  RequestKept(next)
<1> DEFINE seal == Head(request.seals)
           left == Tail(request.seals)
           root == Head(request.roots)
<1>1. /\ request = [f \in RequestFields |-> request[f]] /\ file \in 0 .. file
      /\ RootsKept(request) /\ SealsKept(request) /\ request.roots # <<>> /\ request.seals # <<>>
      /\ request.seals \in Seq(SealRecords)
      /\ \/ root \in request.failed
         \/ \A s \in Pages!ToSet(Children(file, root)) :
               SealTold(request, s) \/ \E k \in DOMAIN request.seals : request.seals[k].seal = s
  BY DEF RequestKept, SealsKept, SealPlaces, PagesInv, FileInstalled
<1>2. /\ next = [f \in RequestFields |-> next[f]]
      /\ next.page = "seals" /\ next.began = file /\ next.failed = failed /\ next.seals = left
      /\ \E done : next.told = request.told \cup {[seal |-> seal.seal, total |-> Len(triumphs), done |-> done]}
      /\ next.pc = IF left = <<>> THEN "root" ELSE "seal"
      /\ next.roots = IF left = <<>> THEN Tail(request.roots) ELSE request.roots
  BY <1>1 DEF Pages!ToldWith, RequestFields
<1>3. request.failed \subseteq next.failed /\ request.told \subseteq next.told
  BY <1>2
<1>4. seal \in SealRecords /\ left \in Seq(SealRecords)
      /\ \A k \in DOMAIN request.seals :
            request.seals[k] = seal \/ \E m \in DOMAIN left : left[m] = request.seals[k]
  <2>1. \A seals \in Seq(SealRecords) : seals # <<>> =>
         /\ Head(seals) \in SealRecords /\ Tail(seals) \in Seq(SealRecords)
         /\ \A k \in DOMAIN seals : seals[k] = Head(seals) \/ \E m \in DOMAIN Tail(seals) : Tail(seals)[m] = seals[k]
    <3> SUFFICES ASSUME NEW seals \in Seq(SealRecords), seals # <<>>, NEW k \in DOMAIN seals, k # 1
                 PROVE  \E m \in DOMAIN Tail(seals) : Tail(seals)[m] = seals[k]
      OBVIOUS
    <3>1. k - 1 \in DOMAIN Tail(seals) /\ Tail(seals)[k - 1] = seals[k]
      OBVIOUS
    <3> QED
      BY <3>1
  <2> QED
    BY <1>1, <2>1
<1>5. root \in next.failed \/ SealTold(next, seal.seal)
  <2>1. CASE triumphs = seal.records \o Pages!Below(file, seal.below)
    <3>1. seal = Pages!SealNode(seal.seal)
      BY <1>4 DEF SealRecords, Pages!SealNode
    <3>2. seal.records = Listed(file, seal.seal) /\ seal.below = Children(file, seal.seal)
      <4> HIDE DEF seal
      <4> QED
        BY <3>1 DEF Pages!SealNode
    <3>3. triumphs = Pages!Triumphs(seal.seal)
      BY <2>1, <3>2 DEF Pages!Triumphs
    <3>4. PICK done : next.told = request.told \cup {[seal |-> seal.seal, total |-> Len(triumphs), done |-> done]}
      BY <1>2
    <3>5. [seal |-> seal.seal, total |-> Len(triumphs), done |-> done] \in next.told
      BY <3>4
    <3> HIDE DEF seal
    <3> QED
      BY <3>3, <3>5 DEF SealTold
  <2>2. CASE failed = request.failed \cup {root}
    BY <1>2, <2>2
  <2> QED
    BY <2>1, <2>2
<1> HIDE DEF seal, left, root
<1>6. \/ root \in next.failed
      \/ \A s \in Pages!ToSet(Children(file, root)) :
            SealTold(next, s) \/ \E k \in DOMAIN left : left[k].seal = s
  <2> SUFFICES ASSUME root \notin next.failed, NEW s \in Pages!ToSet(Children(file, root))
               PROVE  SealTold(next, s) \/ \E k \in DOMAIN left : left[k].seal = s
    OBVIOUS
  <2>1. CASE SealTold(request, s)
    BY <1>3, <2>1 DEF SealTold
  <2>2. CASE \E k \in DOMAIN request.seals : request.seals[k].seal = s
    BY <1>4, <1>5, <2>2
  <2> QED
    BY <1>1, <1>3, <2>1, <2>2
<1>7. CASE left = <<>>
  <2>1. RootsKept(next)
    <3>1. root \in next.failed \/ RootTold(next, root)
      BY <1>6, <1>7 DEF RootTold
    <3> QED
      BY <1>1, <1>2, <1>3, <1>7, <3>1, RootsPassed DEF root
  <2>2. SealsKept(next)
    BY <1>2, <1>7 DEF SealsKept
  <2> QED
    <3>1. next.pc = "root"
      BY <1>2, <1>7
    <3> QED
      BY <1>1, <1>2, <2>1, <2>2, <3>1 DEF RequestKept
<1>8. CASE left # <<>>
  <2>1. RootsKept(next)
    BY <1>1, <1>2, <1>3, <1>8, RootsStay
  <2>2. SealsKept(next)
    <3>1. next.pc = "seal" /\ next.roots = request.roots /\ next.seals = left /\ Head(request.roots) = root
      BY <1>2, <1>8 DEF root
    <3>2. \/ Head(next.roots) \in next.failed
          \/ \A s \in Pages!ToSet(Children(file, Head(next.roots))) :
                SealTold(next, s) \/ \E k \in DOMAIN next.seals : next.seals[k].seal = s
      BY <1>6, <3>1
    <3>3. next.roots # <<>> /\ next.seals # <<>> /\ next.seals \in Seq(SealRecords)
      BY <1>1, <1>4, <1>8, <3>1
    <3> QED
      BY <3>1, <3>2, <3>3 DEF SealsKept
  <2> QED
    BY <1>1, <1>2, <1>8, <2>1, <2>2 DEF RequestKept
<1> QED
  BY <1>7, <1>8

\* A request for seals takes a step: what is to be shown is about seals of the
\* manifest it began with.
LEMMA SealsStep ==
  ASSUME PagesInv, UNCHANGED file, request.pc \in SealPlaces,
         request' = [f \in RequestFields |-> request'[f]],
         request'.pc \in SealPlaces \cup {"error"}, UNCHANGED <<request.page, request.began>>,
         RootsKept(request) /\ SealsKept(request) /\ request'.pc # "error"
            => RootsKept(request') /\ SealsKept(request')
  PROVE  RequestKept(request')
<1>1. request'.pc \notin {"walk", "definitions"}
  BY DEF SealPlaces
<1> QED
  BY <1>1 DEF PagesInv, RequestKept, SealPlaces

LEMMA PagesNext ==
  ASSUME PagesInv, Pages!Next
  PROVE  PagesInv'
<1>1. FileInstalled' /\ (file' = file \/ (file' = file + 1 /\ UNCHANGED request))
  BY FileNext
<1>2. request = [f \in RequestFields |-> request[f]] /\ file \in 0 .. MaxInstalls
  BY DEF PagesInv, RequestKept, FileInstalled
<1>3. CASE UNCHANGED request
  <2>1. CASE file' = file + 1
    BY <1>1, <1>2, <1>3, <2>1, BoundAssumption DEF PagesInv, RequestKept, SealPlaces
  <2>2. CASE file' = file
    BY <1>1, <1>3, <2>2, SameFile DEF PagesInv
  <2> QED
    BY <1>1, <2>1, <2>2
<1>4. ASSUME RequestKept(request'), UNCHANGED file PROVE PagesInv'
  BY <1>1, <1>4, SameFile DEF PagesInv
<1>5. ASSUME request' = [request EXCEPT !.pc = "error"] PROVE RequestKept(request')
  BY <1>2, <1>5 DEF RequestKept, RequestFields, SealPlaces
<1>6. ASSUME NEW page \in Pages!Pages, Pages!GetPage(page) PROVE RequestKept(request') /\ UNCHANGED file
  <2>1. /\ request' = [f \in RequestFields |-> request'[f]] /\ request'.pc = "walk" /\ request'.page = page
        /\ UNCHANGED file
    BY <1>6 DEF Pages!GetPage, Pages!Goes, Pages!Frame, Pages!NoRequest, RequestFields
  <2> QED
    BY <1>6, <2>1 DEF RequestKept, SealPlaces
<1>7. CASE Pages!Walk \/ Pages!WalkFails \/ Pages!ReadDefinitions \/ Pages!Tell
  <2>1. /\ UNCHANGED file /\ request.pc \in {"walk", "definitions"}
        /\ request' = [f \in RequestFields |-> request'[f]] /\ UNCHANGED request.page
        /\ request'.pc \in {"walk", "definitions", "answered", "error"}
    <3>1. CASE Pages!Walk
      BY <1>2, <3>1 DEF Pages!Walk, Pages!Goes, Pages!Frame, RequestFields
    <3>2. CASE Pages!WalkFails
      BY <1>2, <3>2 DEF Pages!WalkFails, Pages!GoesTo, Pages!Goes, Pages!Frame, RequestFields
    <3>3. CASE Pages!ReadDefinitions
      BY <1>2, <3>3 DEF Pages!ReadDefinitions, Pages!GoesTo, Pages!Goes, Pages!Frame, RequestFields
    <3>4. CASE Pages!Tell
      BY <1>2, <3>4 DEF Pages!Tell, Pages!GoesTo, Pages!Goes, Pages!Frame, RequestFields
    <3> QED
      BY <1>7, <3>1, <3>2, <3>3, <3>4
  <2>3. request.page \in Pages!Pages
    BY <2>1 DEF PagesInv, RequestKept
  <2>4. request'.page # "seals"
    BY <2>1, <2>3 DEF Pages!Pages
  <2>5. RequestKept(request')
    BY <2>1, <2>3, <2>4 DEF RequestKept, SealPlaces
  <2> QED
    BY <1>4, <2>1, <2>5
<1>8. CASE Pages!GetSeals
  <2>1. /\ request' = [f \in RequestFields |-> request'[f]] /\ request'.pc = "profile" /\ request'.began = file
        /\ request'.roots = SealRoots /\ UNCHANGED file
    BY <1>8 DEF Pages!GetSeals, Pages!Goes, Pages!Frame, Pages!NoRequest, RequestFields
  <2>2. RootsKept(request')
    <3>1. \A root \in Pages!ToSet(SealRoots) : \E k \in DOMAIN SealRoots : SealRoots[k] = root
      BY DEF Pages!ToSet
    <3> QED
      BY <2>1, <3>1, NodesAssumption DEF RootsKept
  <2>3. SealsKept(request')
    BY <2>1 DEF SealsKept
  <2>4. file \in 0 .. file
    BY <1>2, BoundAssumption
  <2>5. RequestKept(request')
    BY <2>1, <2>2, <2>3, <2>4 DEF RequestKept
  <2> QED
    BY <1>4, <2>1, <2>5
<1>9. ASSUME UNCHANGED file, request' = Pages!PassedOver, request.pc \in SealPlaces, request.roots # <<>>
      PROVE  RequestKept(request')
  <2>1. /\ request' = [f \in RequestFields |-> request'[f]] /\ request'.pc = "root"
        /\ UNCHANGED <<request.page, request.began, request.told>>
        /\ request'.roots = Tail(request.roots) /\ request'.failed = request.failed \cup {Head(request.roots)}
    BY <1>2, <1>9 DEF Pages!PassedOver, RequestFields
  <2>2. RootsKept(request) => RootsKept(request')
    BY <1>9, <2>1, RootsPassed
  <2>3. SealsKept(request')
    BY <2>1 DEF SealsKept
  <2> QED
    BY <1>9, <2>1, <2>2, <2>3, SealsStep DEF SealPlaces
<1>10. ASSUME NEW pc \in {"root", "answered"}, UNCHANGED file, request' = [request EXCEPT !.pc = pc],
              request.pc \in SealPlaces, pc = "answered" => request.roots = <<>>
       PROVE  RequestKept(request')
  <2>1. /\ request' = [f \in RequestFields |-> request'[f]] /\ request'.pc = pc
        /\ UNCHANGED <<request.page, request.began, request.told, request.roots, request.failed>>
    BY <1>2, <1>10 DEF RequestFields
  <2>2. RootsKept(request) => RootsKept(request')
    BY <2>1, RootsStay
  <2>3. SealsKept(request')
    BY <1>10, <2>1 DEF SealsKept
  <2> QED
    BY <1>10, <2>1, <2>2, <2>3, SealsStep DEF SealPlaces
<1>11. CASE Pages!ReadProfile
  <2>1. /\ request.pc = "profile" /\ UNCHANGED file
        /\ request' = [request EXCEPT !.pc = "root"] \/ request' = [request EXCEPT !.pc = "error"]
    BY <1>11 DEF Pages!ReadProfile, Pages!GoesTo, Pages!Goes, Pages!Frame
  <2> QED
    BY <1>4, <1>5, <1>10, <2>1 DEF SealPlaces
<1>12. CASE Pages!TellSeals
  <2>1. /\ request.pc = "root" /\ request.roots = <<>> /\ UNCHANGED file
        /\ request' = [request EXCEPT !.pc = "answered"]
    BY <1>12 DEF Pages!TellSeals, Pages!GoesTo, Pages!Goes, Pages!Frame
  <2> QED
    BY <1>4, <1>10, <2>1 DEF SealPlaces
<1>13. CASE Pages!ReadRoot
  <2> DEFINE seals == Children(file, Head(request.roots))
  <2>1. request.pc = "root" /\ request.roots # <<>> /\ UNCHANGED file /\ request.pc \in SealPlaces
    BY <1>13 DEF Pages!ReadRoot, Pages!Frame, SealPlaces
  <2>2. CASE seals = <<>> /\ request' = [request EXCEPT !.roots = Tail(@)]
    <3>1. /\ request' = [f \in RequestFields |-> request'[f]] /\ request'.pc = "root"
          /\ UNCHANGED <<request.page, request.began, request.told, request.failed>>
          /\ request'.roots = Tail(request.roots)
      BY <1>2, <2>1, <2>2 DEF RequestFields
    <3>2. RootTold(request', Head(request.roots))
      BY <2>2 DEF RootTold, Pages!ToSet
    <3>3. RootsKept(request) => RootsKept(request')
      BY <2>1, <3>1, <3>2, RootsPassed
    <3>4. SealsKept(request')
      BY <3>1 DEF SealsKept
    <3>5. RequestKept(request')
      BY <2>1, <3>1, <3>3, <3>4, SealsStep DEF SealPlaces
    <3> QED
      BY <1>4, <2>1, <3>5
  <2>3. CASE seals # <<>> /\ request' = [request EXCEPT !.pc = "sealNodes", !.seals = seals]
    <3>1. /\ request' = [f \in RequestFields |-> request'[f]] /\ request'.pc = "sealNodes"
          /\ UNCHANGED <<request.page, request.began, request.told, request.failed, request.roots>>
          /\ request'.seals = seals
      BY <1>2, <2>1, <2>3 DEF RequestFields
    <3>2. RootsKept(request) => RootsKept(request')
      BY <3>1, RootsStay
    <3>3. SealsKept(request')
      BY <2>1, <2>3, <3>1 DEF SealsKept
    <3>4. RequestKept(request')
      BY <2>1, <3>1, <3>2, <3>3, SealsStep DEF SealPlaces
    <3> QED
      BY <1>4, <2>1, <3>4
  <2>4. CASE request' = Pages!PassedOver
    BY <1>4, <1>9, <2>1, <2>4
  <2> QED
    BY <1>13, <2>2, <2>3, <2>4 DEF Pages!ReadRoot, Pages!Goes
<1>14. CASE Pages!ReadSealNodes
  <2> DEFINE nodes == [i \in DOMAIN request.seals |-> Pages!SealNode(request.seals[i])]
  <2>1. request.pc = "sealNodes" /\ UNCHANGED file /\ request.pc \in SealPlaces
    BY <1>14 DEF Pages!ReadSealNodes, Pages!Frame, SealPlaces
  <2>2. ASSUME request.began = file, request.page = "seals" PROVE RequestKept(request')
    <3>1. /\ RootsKept(request) /\ request.roots # <<>> /\ request.seals # <<>>
          /\ request.seals = Children(file, Head(request.roots))
      BY <2>1, <2>2 DEF PagesInv, RequestKept, SealsKept
    <3>2. request.seals \in Seq(Nodes)
      <4>1. Head(request.roots) \in Nodes
        BY <3>1 DEF RootsKept
      <4> QED
        BY <1>2, <3>1, <4>1, NodesAssumption
    <3>3. CASE request' = [request EXCEPT !.pc = "seal", !.seals = nodes]
      <4>1. /\ request' = [f \in RequestFields |-> request'[f]] /\ request'.pc = "seal"
            /\ UNCHANGED <<request.page, request.began, request.told, request.failed, request.roots>>
            /\ request'.seals = nodes
        BY <1>2, <3>3 DEF RequestFields
      <4>2. /\ nodes \in Seq(SealRecords) /\ nodes # <<>>
            /\ \A seal \in Pages!ToSet(request.seals) : \E k \in DOMAIN nodes : nodes[k].seal = seal
        <5>1. \A k \in DOMAIN request.seals : request.seals[k] \in Nodes
          BY <3>2
        <5>2. \A k \in DOMAIN nodes : nodes[k] \in SealRecords /\ nodes[k].seal = request.seals[k]
          BY <5>1 DEF SealRecords, Pages!SealNode
        <5>3. Len(request.seals) \in Nat /\ DOMAIN request.seals = 1 .. Len(request.seals)
              /\ Len(request.seals) # 0
          BY <3>1, <3>2
        <5>4. DOMAIN nodes = 1 .. Len(request.seals)
          BY <5>3
        <5>5. nodes = [k \in 1 .. Len(request.seals) |-> nodes[k]]
          BY <5>3
        <5> HIDE DEF nodes
        <5>6. nodes \in Seq(SealRecords)
          BY <5>2, <5>3, <5>4, <5>5
        <5>7. nodes # <<>>
          BY <5>3, <5>4
        <5>8. \A seal \in Pages!ToSet(request.seals) : \E k \in DOMAIN nodes : nodes[k].seal = seal
          BY <5>2, <5>3, <5>4 DEF Pages!ToSet
        <5> QED
          BY <5>6, <5>7, <5>8
      <4> HIDE DEF nodes
      <4>3. RootsKept(request')
        BY <3>1, <4>1, RootsStay
      <4>4. SealsKept(request')
        BY <3>1, <4>1, <4>2 DEF SealsKept
      <4> QED
        BY <2>1, <4>1, <4>3, <4>4, SealsStep DEF SealPlaces
    <3>4. CASE request' = Pages!PassedOver
      BY <1>9, <2>1, <3>1, <3>4
    <3> QED
      BY <1>14, <3>3, <3>4 DEF Pages!ReadSealNodes, Pages!Goes
  <2>3. ASSUME ~(request.began = file /\ request.page = "seals") PROVE RequestKept(request')
    <3>1. /\ request' = [f \in RequestFields |-> request'[f]] /\ request'.pc \in {"seal", "root"}
          /\ UNCHANGED <<request.page, request.began>>
      BY <1>2, <1>14, <2>1 DEF Pages!ReadSealNodes, Pages!Goes, Pages!PassedOver, RequestFields
    <3> QED
      BY <2>1, <2>3, <3>1 DEF PagesInv, RequestKept, SealPlaces
  <2> QED
    BY <1>4, <2>1, <2>2, <2>3
<1>15. CASE Pages!TellSeal
  <2> DEFINE seal == Head(request.seals)
             root == Head(request.roots)
  <2>1. request.pc = "seal" /\ UNCHANGED file /\ request.pc \in SealPlaces
    BY <1>15 DEF Pages!TellSeal, Pages!Frame, SealPlaces
  <2>2. ASSUME NEW triumphs
        PROVE  /\ Pages!ToldWith(triumphs) = [f \in RequestFields |-> Pages!ToldWith(triumphs)[f]]
               /\ Pages!ToldWith(triumphs).pc \in {"root", "seal"}
               /\ Pages!ToldWith(triumphs).page = request.page
               /\ Pages!ToldWith(triumphs).began = request.began
               /\ Pages!ToldWith(triumphs).failed = request.failed
    BY <1>2 DEF Pages!ToldWith, RequestFields
  <2>3. PICK triumphs, failed :
            /\ request' = [Pages!ToldWith(triumphs) EXCEPT !.failed = failed]
            /\ \/ triumphs = seal.records \o Pages!Below(file, seal.below) /\ failed = request.failed
               \/ failed = request.failed \cup {root}
    <3>1. CASE request' = Pages!ToldWith(seal.records \o Pages!Below(file, seal.below))
      <4> DEFINE triumphs == seal.records \o Pages!Below(file, seal.below)
                 next == Pages!ToldWith(triumphs)
      <4>1. next = [f \in RequestFields |-> next[f]] /\ next.failed = request.failed /\ request' = next
        BY <2>2, <3>1
      <4> HIDE DEF next, triumphs
      <4>2. request' = [next EXCEPT !.failed = request.failed]
        BY <4>1 DEF RequestFields
      <4> QED
        BY <4>2 DEF next, triumphs
    <3>2. CASE request' = [Pages!ToldWith(seal.records) EXCEPT !.failed = @ \cup {root}]
      <4>1. request' = [Pages!ToldWith(seal.records) EXCEPT !.failed = request.failed \cup {root}]
        BY <2>2, <3>2
      <4> QED
        BY <4>1
    <3> QED
      BY <1>15, <3>1, <3>2 DEF Pages!TellSeal, Pages!Goes
  <2>4. ASSUME request.began = file, request.page = "seals" PROVE RequestKept(request')
    BY <2>1, <2>3, <2>4, SealTells DEF PagesInv
  <2>5. ASSUME ~(request.began = file /\ request.page = "seals") PROVE RequestKept(request')
    <3>1. /\ request' = [f \in RequestFields |-> request'[f]] /\ request'.pc \in {"seal", "root"}
          /\ UNCHANGED <<request.page, request.began>>
      <4> DEFINE next == Pages!ToldWith(triumphs)
      <4>1. /\ next = [f \in RequestFields |-> next[f]] /\ next.pc \in {"root", "seal"}
            /\ next.page = request.page /\ next.began = request.began
        BY <2>2
      <4>2. request' = [next EXCEPT !.failed = failed]
        BY <2>3
      <4> HIDE DEF next
      <4> QED
        BY <4>1, <4>2 DEF RequestFields
    <3> QED
      BY <2>1, <2>5, <3>1 DEF PagesInv, RequestKept, SealPlaces
  <2> QED
    BY <1>4, <2>1, <2>4, <2>5
<1> QED
  BY <1>3, <1>4, <1>6, <1>7, <1>8, <1>11, <1>12, <1>13, <1>14, <1>15 DEF Pages!Next

\* A root that has not failed has been told, once there are none to come.
LEMMA PagesShow == PagesInv => Pages!OneRootFailsAlone
<1> SUFFICES ASSUME PagesInv, request.pc = "answered", request.page = "seals", request.began = file,
                    NEW root \in Pages!ToSet(SealRoots) \ request.failed,
                    NEW seal \in Pages!ToSet(Children(file, root))
             PROVE  SealTold(request, seal)
  BY DEF Pages!OneRootFailsAlone, SealTold
<1>1. RootsKept(request) /\ request.roots = <<>>
  BY DEF PagesInv, RequestKept, SealsKept, SealPlaces
<1> QED
  BY <1>1 DEF RootsKept, RootTold

-----------------------------------------------------------------------------
(* Induction, and the folds of the walk of nodes. *)

\* Induction on numbers, with a set in place of a predicate.
LEMMA Induction ==
  ASSUME NEW S, 0 \in S, \A n \in Nat : n \in S => n + 1 \in S
  PROVE  Nat \subseteq S
<1> DEFINE T == Nat \ S
<1>1. SUFFICES ASSUME T # {} PROVE FALSE
  OBVIOUS
<1>2. PICK x \in T : \A y \in T : <<y, x>> \notin OpToRel(<, Nat)
  <2>1. T \subseteq Nat
    OBVIOUS
  <2> HIDE DEF T
  <2> QED
    BY <1>1, <2>1, WFMin, NatLessThanWellFounded
<1>3. x # 0 /\ x - 1 \in T /\ x - 1 < x
  <2>1. x # 0 /\ x - 1 \in Nat /\ (x - 1) + 1 = x
    OBVIOUS
  <2> QED
    BY <2>1
<1>4. <<x - 1, x>> \in OpToRel(<, Nat)
  BY <1>3 DEF OpToRel
<1> QED
  BY <1>2, <1>3, <1>4

\* The greatest of 1 .. k + 1, and what is left without it.
LEMMA Greatest ==
  ASSUME NEW k \in Nat, NEW r \in SUBSET (1 .. k + 1), k + 1 \in r
  PROVE  Pages!Max(r) = k + 1 /\ r \ {k + 1} \in SUBSET (1 .. k)
<1>1. \A x \in r : x \in Int /\ x <= k + 1 /\ (x # k + 1 => x \in 1 .. k)
  OBVIOUS
<1>2. \A x \in r : (\A y \in r : x >= y) <=> x = k + 1
  BY <1>1
<1>3. Pages!Max(r) = k + 1
  BY <1>2 DEF Pages!Max
<1> QED
  BY <1>1, <1>3

LEMMA GreatestOfAll ==
  ASSUME NEW k \in Nat
  PROVE  Pages!Max(1 .. k + 1) = k + 1 /\ (1 .. k + 1) \ {k + 1} = 1 .. k /\ 1 .. k + 1 # {}
<1>1. 1 .. k + 1 \in SUBSET (1 .. k + 1) /\ k + 1 \in 1 .. k + 1
  OBVIOUS
<1>2. (1 .. k + 1) \ {k + 1} = 1 .. k
  OBVIOUS
<1> QED
  BY <1>1, <1>2, Greatest

\* FoldLeft over s of what Collect does: its value for the first places of s, and
\* for any set of places.
Collecting(b, s, r, f) ==
    IF r = {} THEN b ELSE Pages!Collect(f[r \ {Pages!Max(r)}], s[Pages!Max(r)])
Collection(b, s) == CHOOSE f : f = [r \in SUBSET DOMAIN s |-> Collecting(b, s, r, f)]

LEMMA CollectionDefined ==
  ASSUME NEW b, NEW s, NEW n \in Nat, DOMAIN s = 1 .. n
  PROVE  Collection(b, s) = [r \in SUBSET (1 .. n) |-> Collecting(b, s, r, Collection(b, s))]
<1> DEFINE Solves(k, f) == f = [r \in SUBSET (1 .. k) |-> Collecting(b, s, r, f)]
           S == {k \in Nat : \E f : Solves(k, f)}
<1>1. ASSUME NEW r, NEW f, NEW g, f[r \ {Pages!Max(r)}] = g[r \ {Pages!Max(r)}]
      PROVE  Collecting(b, s, r, f) = Collecting(b, s, r, g)
  BY <1>1 DEF Collecting
<1>2. 0 \in S
  <2> DEFINE f == [r \in SUBSET (1 .. 0) |-> b]
  <2>1. \A r \in SUBSET (1 .. 0) : Collecting(b, s, r, f) = b
    BY DEF Collecting
  <2>2. Solves(0, f)
    BY <2>1
  <2> QED
    BY <2>2
<1>3. ASSUME NEW k \in Nat, k \in S PROVE k + 1 \in S
  <2>1. PICK f : Solves(k, f)
    BY <1>3
  <2> DEFINE g == [r \in SUBSET (1 .. k + 1) |-> IF k + 1 \in r THEN Collecting(b, s, r, f) ELSE f[r]]
  <2>2. ASSUME NEW r \in SUBSET (1 .. k + 1) PROVE g[r] = Collecting(b, s, r, g)
    <3>1. \A q \in SUBSET (1 .. k) : g[q] = f[q]
      OBVIOUS
    <3>2. CASE k + 1 \in r
      <4>1. r \ {Pages!Max(r)} \in SUBSET (1 .. k)
        BY <3>2, Greatest
      <4>2. f[r \ {Pages!Max(r)}] = g[r \ {Pages!Max(r)}]
        BY <3>1, <4>1
      <4>3. g[r] = Collecting(b, s, r, f)
        BY <3>2
      <4> HIDE DEF g
      <4> QED
        BY <1>1, <4>2, <4>3
    <3>3. CASE k + 1 \notin r
      <4>1. \A x \in r : x \in 1 .. k
        BY <3>3
      <4>2. r \in SUBSET (1 .. k) /\ r \ {Pages!Max(r)} \in SUBSET (1 .. k)
        BY <4>1
      <4>3. g[r] = Collecting(b, s, r, f)
        BY <2>1, <3>3, <4>2
      <4>4. f[r \ {Pages!Max(r)}] = g[r \ {Pages!Max(r)}]
        BY <3>1, <4>2
      <4> HIDE DEF g
      <4> QED
        BY <1>1, <4>3, <4>4
    <3> QED
      BY <3>2, <3>3
  <2>3. Solves(k + 1, g)
    <3>1. g = [r \in SUBSET (1 .. k + 1) |-> g[r]]
      OBVIOUS
    <3> HIDE DEF g
    <3> QED
      BY <2>2, <3>1
  <2> HIDE DEF g
  <2>4. \E h : Solves(k + 1, h)
    BY <2>3
  <2> HIDE DEF Solves
  <2> QED
    BY <2>4
<1>4. n \in S
  <2> HIDE DEF S
  <2> QED
    BY <1>2, <1>3, Induction
<1> QED
  BY <1>4 DEF Collection

\* The same of what Queued does.
Lining(b, s, V, r, f) ==
    IF r = {} THEN b
    ELSE IF s[Pages!Max(r)] \in V THEN f[r \ {Pages!Max(r)}]
    ELSE Append(f[r \ {Pages!Max(r)}], s[Pages!Max(r)])
Line(b, s, V) == CHOOSE f : f = [r \in SUBSET DOMAIN s |-> Lining(b, s, V, r, f)]

LEMMA LineDefined ==
  ASSUME NEW V, NEW b, NEW s, NEW n \in Nat, DOMAIN s = 1 .. n
  PROVE  Line(b, s, V) = [r \in SUBSET (1 .. n) |-> Lining(b, s, V, r, Line(b, s, V))]
<1> DEFINE Solves(k, f) == f = [r \in SUBSET (1 .. k) |-> Lining(b, s, V, r, f)]
           S == {k \in Nat : \E f : Solves(k, f)}
<1>1. ASSUME NEW r, NEW f, NEW g, f[r \ {Pages!Max(r)}] = g[r \ {Pages!Max(r)}]
      PROVE  Lining(b, s, V, r, f) = Lining(b, s, V, r, g)
  BY <1>1 DEF Lining
<1>2. 0 \in S
  <2> DEFINE f == [r \in SUBSET (1 .. 0) |-> b]
  <2>1. \A r \in SUBSET (1 .. 0) : Lining(b, s, V, r, f) = b
    BY DEF Lining
  <2>2. Solves(0, f)
    BY <2>1
  <2> QED
    BY <2>2
<1>3. ASSUME NEW k \in Nat, k \in S PROVE k + 1 \in S
  <2>1. PICK f : Solves(k, f)
    BY <1>3
  <2> DEFINE g == [r \in SUBSET (1 .. k + 1) |-> IF k + 1 \in r THEN Lining(b, s, V, r, f) ELSE f[r]]
  <2>2. ASSUME NEW r \in SUBSET (1 .. k + 1) PROVE g[r] = Lining(b, s, V, r, g)
    <3>1. \A q \in SUBSET (1 .. k) : g[q] = f[q]
      OBVIOUS
    <3>2. CASE k + 1 \in r
      <4>1. r \ {Pages!Max(r)} \in SUBSET (1 .. k)
        BY <3>2, Greatest
      <4>2. f[r \ {Pages!Max(r)}] = g[r \ {Pages!Max(r)}]
        BY <3>1, <4>1
      <4>3. g[r] = Lining(b, s, V, r, f)
        BY <3>2
      <4> HIDE DEF g
      <4> QED
        BY <1>1, <4>2, <4>3
    <3>3. CASE k + 1 \notin r
      <4>1. \A x \in r : x \in 1 .. k
        BY <3>3
      <4>2. r \in SUBSET (1 .. k) /\ r \ {Pages!Max(r)} \in SUBSET (1 .. k)
        BY <4>1
      <4>3. g[r] = Lining(b, s, V, r, f)
        BY <2>1, <3>3, <4>2
      <4>4. f[r \ {Pages!Max(r)}] = g[r \ {Pages!Max(r)}]
        BY <3>1, <4>2
      <4> HIDE DEF g
      <4> QED
        BY <1>1, <4>3, <4>4
    <3> QED
      BY <3>2, <3>3
  <2>3. Solves(k + 1, g)
    <3>1. g = [r \in SUBSET (1 .. k + 1) |-> g[r]]
      OBVIOUS
    <3> HIDE DEF g
    <3> QED
      BY <2>2, <3>1
  <2> HIDE DEF g
  <2>4. \E h : Solves(k + 1, h)
    BY <2>3
  <2> HIDE DEF Solves
  <2> QED
    BY <2>4
<1>4. n \in S
  <2> HIDE DEF S
  <2> QED
    BY <1>2, <1>3, Induction
<1> QED
  BY <1>4 DEF Line

\* What is queued are nodes.
LEMMA QueuedAreNodes ==
  ASSUME NEW b \in Seq(Nodes), NEW s \in Seq(Nodes), NEW V
  PROVE  Pages!Queued(b, s, V) \in Seq(Nodes)
<1> DEFINE n == Len(s)
           S == {k \in Nat : k <= n => Line(b, s, V)[1 .. k] \in Seq(Nodes)}
<1>1. n \in Nat /\ DOMAIN s = 1 .. n /\ \A i \in 1 .. n : s[i] \in Nodes
  OBVIOUS
<1>2. \A r \in SUBSET (1 .. n) : Line(b, s, V)[r] = Lining(b, s, V, r, Line(b, s, V))
  <2>1. Line(b, s, V) = [r \in SUBSET (1 .. n) |-> Lining(b, s, V, r, Line(b, s, V))]
    <3> HIDE DEF n, S
    <3> QED
      BY <1>1, LineDefined, Zenon
  <2> QED
    BY <2>1, Zenon
<1> HIDE DEF n
<1>3. 0 \in S
  BY <1>1, <1>2 DEF Lining
<1>4. ASSUME NEW k \in Nat, k \in S, k + 1 <= n PROVE k + 1 \in S
  <2>1. Line(b, s, V)[1 .. k] \in Seq(Nodes)
    BY <1>1, <1>4
  <2>2. Pages!Max(1 .. k + 1) = k + 1 /\ (1 .. k + 1) \ {k + 1} = 1 .. k /\ 1 .. k + 1 # {}
    BY GreatestOfAll
  <2>3. 1 .. k + 1 \in SUBSET (1 .. n) /\ s[k + 1] \in Nodes
    BY <1>1, <1>4
  <2>4. \/ Line(b, s, V)[1 .. k + 1] = Line(b, s, V)[1 .. k]
        \/ Line(b, s, V)[1 .. k + 1] = Append(Line(b, s, V)[1 .. k], s[k + 1])
    BY <1>2, <2>2, <2>3 DEF Lining
  <2>5. \A q \in Seq(Nodes), x \in Nodes : Append(q, x) \in Seq(Nodes)
    OBVIOUS
  <2>6. Line(b, s, V)[1 .. k + 1] \in Seq(Nodes)
    BY <2>1, <2>3, <2>4, <2>5, Zenon
  <2> QED
    BY <2>6
<1>5. n \in S
  <2>1. \A k \in Nat : k \in S => k + 1 \in S
    BY <1>1, <1>4
  <2> HIDE DEF S
  <2> QED
    BY <1>1, <1>3, <2>1, Induction
<1>6. Pages!Queued(b, s, V) = Line(b, s, V)[DOMAIN s]
  BY DEF Pages!Queued, Pages!FoldLeft, Pages!MapThenFoldSet, Line, Lining
<1> QED
  BY <1>1, <1>5, <1>6

\* A walk goes through nodes, and collects each once.
Once(walk) ==
    /\ walk.visited \in SUBSET Nodes /\ walk.collected \in Seq(walk.visited) /\ walk.queue \in Seq(Nodes)
    /\ \A i, j \in DOMAIN walk.collected : walk.collected[i] = walk.collected[j] => i = j

LEMMA CollectsOnce ==
  ASSUME NEW walk, NEW node \in Nodes, Once(walk), file \in 0 .. MaxInstalls
  PROVE  Once(Pages!Collect(walk, node))
<1>1. CASE node \in walk.visited
  BY <1>1 DEF Pages!Collect
<1>2. CASE node \notin walk.visited
  <2> DEFINE next == Pages!Collect(walk, node)
  <2>1. /\ next.visited = walk.visited \cup {node} /\ next.collected = Append(walk.collected, node)
        /\ next.queue = Pages!Queued(walk.queue, Children(file, node), walk.visited \cup {node})
    BY <1>2 DEF Pages!Collect
  <2> HIDE DEF next
  <2>2. next.queue \in Seq(Nodes)
    BY <2>1, QueuedAreNodes, NodesAssumption DEF Once
  <2>3. next.visited \in SUBSET Nodes /\ walk.collected \in Seq(next.visited) /\ node \in next.visited
    BY <2>1 DEF Once
  <2>4. next.collected \in Seq(next.visited)
    BY <2>1, <2>3
  <2>5. ASSUME NEW i \in DOMAIN next.collected, NEW j \in DOMAIN next.collected,
               next.collected[i] = next.collected[j]
        PROVE  i = j
    BY <1>2, <2>1, <2>5 DEF Once
  <2>6. Once(next)
    BY <2>2, <2>3, <2>4, <2>5 DEF Once
  <2> QED
    BY <2>6 DEF next
<1> QED
  BY <1>1, <1>2

LEMMA WalksOnce ==
  ASSUME NEW b, NEW s \in Seq(Nodes), Once(b), file \in 0 .. MaxInstalls
  PROVE  Once(Pages!FoldLeft(Pages!Collect, b, s))
<1> DEFINE n == Len(s)
           S == {k \in Nat : k <= n => Once(Collection(b, s)[1 .. k])}
<1>1. n \in Nat /\ DOMAIN s = 1 .. n /\ \A i \in 1 .. n : s[i] \in Nodes
  OBVIOUS
<1>2. \A r \in SUBSET (1 .. n) : Collection(b, s)[r] = Collecting(b, s, r, Collection(b, s))
  <2>1. Collection(b, s) = [r \in SUBSET (1 .. n) |-> Collecting(b, s, r, Collection(b, s))]
    BY <1>1, CollectionDefined, Zenon
  <2> QED
    BY <2>1, Zenon
<1> HIDE DEF n
<1>3. 0 \in S
  <2>1. 1 .. 0 = {} /\ {} \in SUBSET (1 .. n)
    BY <1>1
  <2>2. Collection(b, s)[1 .. 0] = b
    BY <1>2, <2>1 DEF Collecting
  <2> QED
    BY <2>2
<1>4. ASSUME NEW k \in Nat, k \in S, k + 1 <= n PROVE k + 1 \in S
  <2>1. Once(Collection(b, s)[1 .. k])
    BY <1>1, <1>4
  <2>2. Pages!Max(1 .. k + 1) = k + 1 /\ (1 .. k + 1) \ {k + 1} = 1 .. k /\ 1 .. k + 1 # {}
    BY GreatestOfAll
  <2>3. 1 .. k + 1 \in SUBSET (1 .. n) /\ s[k + 1] \in Nodes
    BY <1>1, <1>4
  <2>4. Collection(b, s)[1 .. k + 1] = Pages!Collect(Collection(b, s)[1 .. k], s[k + 1])
    BY <1>2, <2>2, <2>3 DEF Collecting
  <2> QED
    BY <2>1, <2>3, <2>4, CollectsOnce
<1>5. n \in S
  <2>1. \A k \in Nat : k \in S => k + 1 \in S
    BY <1>1, <1>4
  <2> HIDE DEF S
  <2> QED
    BY <1>1, <1>3, <2>1, Induction
<1>6. Pages!FoldLeft(Pages!Collect, b, s) = Collection(b, s)[DOMAIN s]
  BY DEF Pages!FoldLeft, Pages!MapThenFoldSet, Collection, Collecting
<1> QED
  BY <1>1, <1>5, <1>6

-----------------------------------------------------------------------------
(* The types of the record pages. *)

\* The file, for bounds on the manifests installed.
FileTyped(max) ==
    /\ file \in 0 .. max /\ version \in 0 .. max
    /\ swap \in {"idle", "closed", "named", "reopened"}
    /\ faults \in 0 .. MaxFaults
    /\ swap = "closed" /\ file = version => file < max

\* A request's walk, and its way through the roots.
Roots == Pages!ToSet(SealRoots)
RequestTyped(r) ==
    /\ r = [f \in RequestFields |-> r[f]]
    /\ r.pc \in {"idle", "walk", "definitions", "profile", "root", "sealNodes", "seal", "error", "answered"}
    /\ r.page \in Pages!Pages \cup {"seals", None}
    /\ r.visited \in SUBSET Nodes /\ r.collected \in Seq(r.visited) /\ r.chunk \in Seq(Nodes)
    /\ \A i, j \in DOMAIN r.collected : r.collected[i] = r.collected[j] => i = j
    /\ r.roots \in Seq(Roots) /\ r.failed \in SUBSET Roots
    /\ r.pc \in {"sealNodes", "seal"} => r.roots # <<>>

PagesTyped == FileTyped(MaxInstalls) /\ RequestTyped(request)

LEMMA NoNodes == <<>> \in Seq(Nodes) /\ <<>> \in Seq(Roots) /\ <<>> \in Seq({}) /\ DOMAIN <<>> = {}
OBVIOUS

\* A request that has only begun.
LEMMA Begins ==
  ASSUME NEW r, r = [f \in RequestFields |-> r[f]], r.pc \in {"idle", "walk", "profile"},
         r.page \in Pages!Pages \cup {"seals", None}, r.chunk \in Seq(Nodes), r.roots \in Seq(Roots),
         r.visited = {}, r.collected = <<>>, r.failed = {}
  PROVE  RequestTyped(r)
BY NoNodes DEF RequestTyped

LEMMA PagesTypedInit == Pages!Init => PagesTyped
<1> SUFFICES ASSUME Pages!Init PROVE PagesTyped
  OBVIOUS
<1>1. FileTyped(MaxInstalls)
  BY BoundAssumption DEF Pages!Init, Pages!Found, FileTyped
<1>2. SealRoots \in Seq(Roots)
  BY NodesAssumption DEF Roots, Pages!ToSet
<1>3. RequestTyped(request)
  <2>1. /\ request = [f \in RequestFields |-> request[f]] /\ request.pc \in {"idle", "walk", "profile"}
        /\ request.page \in Pages!Pages \cup {"seals", None} /\ request.chunk \in Seq(Nodes) /\ request.roots \in Seq(Roots)
        /\ request.visited = {} /\ request.collected = <<>> /\ request.failed = {}
    BY NoNodes DEF Pages!Init, Pages!NoRequest, RequestFields
  <2> QED
    BY <2>1, Begins
<1> QED
  BY <1>1, <1>3 DEF PagesTyped

\* A step of the request leaves the file alone.
LEMMA RequestStep ==
  ASSUME FileTyped(MaxInstalls), UNCHANGED <<file, version, swap>>,
         faults' \in 0 .. MaxFaults, RequestTyped(request')
  PROVE  PagesTyped'
BY DEF PagesTyped, FileTyped

LEMMA FaultsCounted ==
  ASSUME faults \in 0 .. MaxFaults, UNCHANGED faults \/ Pages!Fault \/ Pages!QueryFails
  PROVE  faults' \in 0 .. MaxFaults
BY BoundAssumption DEF Pages!Fault, Pages!QueryFails

LEMMA PagesTypedNext ==
  ASSUME PagesTyped, Pages!Next
  PROVE  PagesTyped'
<1>1. FileTyped(MaxInstalls) /\ RequestTyped(request) /\ SealRoots \in Seq(Roots)
  BY NodesAssumption DEF PagesTyped, Roots, Pages!ToSet
<1>2. /\ request = [f \in RequestFields |-> request[f]] /\ file \in 0 .. MaxInstalls /\ faults \in 0 .. MaxFaults
      /\ request.visited \in SUBSET Nodes /\ request.collected \in Seq(request.visited)
      /\ request.chunk \in Seq(Nodes) /\ request.roots \in Seq(Roots) /\ request.failed \in SUBSET Roots
      /\ request.page \in Pages!Pages \cup {"seals", None}
      /\ \A i, j \in DOMAIN request.collected : request.collected[i] = request.collected[j] => i = j
      /\ request.pc \in {"sealNodes", "seal"} => request.roots # <<>>
  BY <1>1 DEF RequestTyped, FileTyped
<1>3. request.roots # <<>> =>
        /\ Head(request.roots) \in Roots /\ Tail(request.roots) \in Seq(Roots)
        /\ request.failed \cup {Head(request.roots)} \in SUBSET Roots
  BY <1>2
\* The file.
<1>4. CASE Pages!Download /\ UNCHANGED request
  <2>1. FileTyped(MaxInstalls)'
    BY <1>1, <1>4, BoundAssumption
    DEF FileTyped, Pages!Download, Pages!Close, Pages!Install, Pages!RollBack, Pages!Name, Pages!Reopen, Pages!Fault
  <2>2. RequestTyped(request')
    BY <1>1, <1>4
  <2> QED
    BY <2>1, <2>2 DEF PagesTyped
<1>5. CASE swap = "reopened" /\ swap' = "idle" /\ UNCHANGED <<file, version, faults, request>>
  BY <1>1, <1>5 DEF PagesTyped, FileTyped
\* The request; its next place in whole.
<1>6. ASSUME NEW pc \in {"error", "root", "answered", "definitions"},
             request' = [request EXCEPT !.pc = pc]
      PROVE  RequestTyped(request')
  BY <1>2, <1>6 DEF RequestTyped, RequestFields
<1>7. ASSUME UNCHANGED <<file, version, swap>>, UNCHANGED faults \/ Pages!Fault \/ Pages!QueryFails,
             RequestTyped(request')
      PROVE  PagesTyped'
  BY <1>1, <1>2, <1>7, FaultsCounted, RequestStep
<1>8. ASSUME NEW page \in Pages!Pages, Pages!GetPage(page) PROVE PagesTyped'
  <2>1. RequestTyped(request')
    <3>1. <<Root>> \in Seq(Nodes)
      BY NodesAssumption
    <3>2. /\ request' = [f \in RequestFields |-> request'[f]] /\ request'.pc \in {"idle", "walk", "profile"}
          /\ request'.page \in Pages!Pages \cup {"seals", None} /\ request'.chunk \in Seq(Nodes) /\ request'.roots \in Seq(Roots)
          /\ request'.visited = {} /\ request'.collected = <<>> /\ request'.failed = {}
      BY <1>8, <3>1, NoNodes DEF Pages!GetPage, Pages!Goes, Pages!NoRequest, RequestFields
    <3> QED
      BY <3>2, Begins
  <2> QED
    BY <1>7, <1>8, <2>1 DEF Pages!GetPage, Pages!Frame
<1>9. CASE Pages!Walk
  <2> DEFINE before == [visited |-> request.visited, collected |-> request.collected,
                        found |-> request.found, queue |-> <<>>]
             after == Pages!FoldLeft(Pages!Collect, before, request.chunk)
  <2>1. Once(before)
    <3>1. before.visited = request.visited /\ before.collected = request.collected /\ before.queue = <<>>
      OBVIOUS
    <3> HIDE DEF before
    <3> QED
      BY <1>2, <3>1, NoNodes DEF Once
  <2>2. Once(after)
    BY <1>2, <2>1, WalksOnce
  <2>3. request' = [request EXCEPT !.visited = after.visited, !.collected = after.collected,
                                   !.found = after.found, !.chunk = after.queue]
        /\ request.pc = "walk"
    BY <1>9 DEF Pages!Walk, Pages!Goes
  <2> HIDE DEF after
  <2>4. RequestTyped(request')
    BY <1>2, <2>2, <2>3 DEF RequestTyped, RequestFields, Once
  <2> QED
    BY <1>7, <1>9, <2>4 DEF Pages!Walk, Pages!Frame
<1>10. CASE Pages!WalkFails
  BY <1>6, <1>7, <1>10 DEF Pages!WalkFails, Pages!GoesTo, Pages!Goes, Pages!Frame
<1>11. CASE Pages!ReadDefinitions
  <2>1. ASSUME request' = [request EXCEPT !.pc = "definitions", !.found = <<>>] PROVE RequestTyped(request')
    BY <1>2, <2>1 DEF RequestTyped, RequestFields
  <2> QED
    BY <1>6, <1>7, <1>11, <2>1 DEF Pages!ReadDefinitions, Pages!GoesTo, Pages!Goes, Pages!Frame
<1>12. CASE Pages!Tell
  <2>1. ASSUME NEW found, request' = [request EXCEPT !.pc = "answered", !.found = found] PROVE RequestTyped(request')
    BY <1>2, <2>1 DEF RequestTyped, RequestFields
  <2> QED
    BY <1>6, <1>7, <1>12, <2>1 DEF Pages!Tell, Pages!GoesTo, Pages!Goes, Pages!Frame
<1>13. CASE Pages!GetSeals
  <2>1. RequestTyped(request')
    <3>1. /\ request' = [f \in RequestFields |-> request'[f]] /\ request'.pc \in {"idle", "walk", "profile"}
          /\ request'.page \in Pages!Pages \cup {"seals", None} /\ request'.chunk \in Seq(Nodes) /\ request'.roots \in Seq(Roots)
          /\ request'.visited = {} /\ request'.collected = <<>> /\ request'.failed = {}
      BY <1>1, <1>13, NoNodes DEF Pages!GetSeals, Pages!Goes, Pages!NoRequest, RequestFields
    <3> QED
      BY <3>1, Begins
  <2> QED
    BY <1>7, <1>13, <2>1 DEF Pages!GetSeals, Pages!Frame
<1>14. CASE Pages!ReadProfile
  BY <1>6, <1>7, <1>14 DEF Pages!ReadProfile, Pages!GoesTo, Pages!Goes, Pages!Frame
<1>15. ASSUME request.roots # <<>>, request' = Pages!PassedOver PROVE RequestTyped(request')
  BY <1>2, <1>3, <1>15 DEF RequestTyped, RequestFields, Pages!PassedOver
<1>16. CASE Pages!ReadRoot
  <2>1. ASSUME request' = [request EXCEPT !.roots = Tail(@)], request.roots # <<>>, request.pc = "root"
        PROVE  RequestTyped(request')
    BY <1>2, <1>3, <2>1 DEF RequestTyped, RequestFields
  <2>2. ASSUME NEW seals, request' = [request EXCEPT !.pc = "sealNodes", !.seals = seals], request.roots # <<>>
        PROVE  RequestTyped(request')
    BY <1>2, <2>2 DEF RequestTyped, RequestFields
  <2> QED
    BY <1>7, <1>15, <1>16, <2>1, <2>2 DEF Pages!ReadRoot, Pages!Goes, Pages!Frame
<1>17. CASE Pages!ReadSealNodes
  <2>1. ASSUME NEW seals, request' = [request EXCEPT !.pc = "seal", !.seals = seals], request.roots # <<>>
        PROVE  RequestTyped(request')
    BY <1>2, <2>1 DEF RequestTyped, RequestFields
  <2> QED
    BY <1>2, <1>7, <1>15, <1>17, <2>1 DEF Pages!ReadSealNodes, Pages!Goes, Pages!Frame
<1>18. CASE Pages!TellSeal
  <2>1. request.roots # <<>>
    BY <1>2, <1>18 DEF Pages!TellSeal
  <2>2. ASSUME NEW triumphs PROVE RequestTyped(Pages!ToldWith(triumphs))
    <3> DEFINE r == Pages!ToldWith(triumphs)
    <3>1. /\ r = [f \in RequestFields |-> r[f]] /\ r.visited = request.visited /\ r.page = request.page
          /\ r.collected = request.collected /\ r.chunk = request.chunk /\ r.failed = request.failed
          /\ \/ r.pc = "root" /\ r.roots = Tail(request.roots)
             \/ r.pc = "seal" /\ r.roots = request.roots
      BY <1>2 DEF Pages!ToldWith, RequestFields
    <3> HIDE DEF r
    <3>2. RequestTyped(r)
      BY <1>2, <1>3, <2>1, <3>1 DEF RequestTyped
    <3> QED
      BY <3>2 DEF r
  <2>3. ASSUME NEW r, RequestTyped(r),
               request' = [r EXCEPT !.failed = @ \cup {Head(request.roots)}]
        PROVE  RequestTyped(request')
    BY <1>3, <2>1, <2>3 DEF RequestTyped, RequestFields
  <2> QED
    BY <1>7, <1>18, <2>2, <2>3 DEF Pages!TellSeal, Pages!Goes, Pages!Frame
<1>19. CASE Pages!TellSeals
  BY <1>6, <1>7, <1>19 DEF Pages!TellSeals, Pages!GoesTo, Pages!Goes, Pages!Frame
<1> QED
  BY <1>4, <1>5, <1>8, <1>9, <1>10, <1>11, <1>12, <1>13, <1>14, <1>16, <1>17, <1>18, <1>19 DEF Pages!Next

\* The types of the record pages, as they are told.
LEMMA PagesTypes == PagesTyped => Pages!TypeOK
  BY DEF PagesTyped, FileTyped, RequestTyped, Roots, Pages!TypeOK, Pages!ManifestTypeOK, Pages!FileVersions

-----------------------------------------------------------------------------
(* The types of the characters. *)

\* A roster was fetched after some of the refreshes there may be, and a character
\* told of is on it.
CallTyped(asking) ==
    /\ asking.roster # None => asking.roster.fetched <= MaxRefreshes
    /\ asking.pc = "publish" => asking.roster # None
    /\ asking.pc = "detail" => asking.roster # None /\ asking.guardian \in asking.roster.ids

RostersTyped ==
    /\ FileTyped(MaxInstalls)
    /\ refresh[Rosters!player] <= MaxRefreshes
    /\ roster # None => roster.fetched <= MaxRefreshes
    /\ \A c \in Callers : CallTyped(call[c])

LEMMA RostersTypedInit == Rosters!Init => RostersTyped
  BY BoundAssumption, ThePlayer
     DEF Rosters!Init, Rosters!Found, Rosters!NewRefreshFence, Rosters!NoCall, RostersTyped, FileTyped, CallTyped

\* What a request becomes with the roster in hand.
LEMMA WithTyped ==
  ASSUME RostersInv, NEW c \in Callers, NEW found, found # None, found.fetched <= MaxRefreshes,
         Rosters!With(c, found)
  PROVE  \E next : call' = [call EXCEPT ![c] = next] /\ CallTyped(next)
<1>1. call[c] \in RosterCalls
  BY DEF RostersInv, RostersShape
<1> DEFINE told(outcome) == [Rosters!Answer(c, outcome) EXCEPT !.roster = found]
           detail == [call[c] EXCEPT !.pc = "detail", !.roster = found]
<1>2. \A outcome \in {"roster", "notFound"} : told(outcome).pc = "answered" /\ told(outcome).roster = found
  BY DEF Rosters!Answer, Rosters!NoCall
<1>3. detail.guardian = call[c].guardian /\ detail.pc = "detail" /\ detail.roster = found
  BY <1>1 DEF RosterCalls
<1>4. \/ \E outcome \in {"roster", "notFound"} : call' = [call EXCEPT ![c] = told(outcome)]
      \/ call' = [call EXCEPT ![c] = detail] /\ call[c].guardian \in found.ids
  BY DEF Rosters!With, Rosters!Goes
<1> HIDE DEF told, detail
<1>5. \A outcome \in {"roster", "notFound"} : CallTyped(told(outcome))
  BY <1>2 DEF CallTyped
<1>6. call[c].guardian \in found.ids => CallTyped(detail)
  BY <1>3 DEF CallTyped
<1> QED
  BY <1>4, <1>5, <1>6

LEMMA RostersTypedNext ==
  ASSUME RostersInv, RostersTyped, Rosters!Next
  PROVE  RostersTyped'
<1>1. /\ refresh \in [Members -> Nat] /\ refresh[Rosters!player] \in Nat /\ Rosters!player \in Members
      /\ roster \in Roster \cup {None} /\ call \in [Callers -> RosterCalls]
      /\ FileTyped(MaxInstalls) /\ refresh[Rosters!player] <= MaxRefreshes
      /\ \A c \in Callers : call[c] \in RosterCalls /\ CallTyped(call[c])
  BY ThePlayer DEF RostersInv, RostersShape, RostersTyped
\* The file, and the player.
<1>2. CASE Rosters!Download /\ UNCHANGED <<roster, refresh, guardians, call>>
  <2>1. FileTyped(MaxInstalls)'
    BY <1>1, <1>2, BoundAssumption
    DEF FileTyped, Rosters!Download, Rosters!Close, Rosters!Install, Rosters!RollBack, Rosters!Name,
        Rosters!Reopen, Rosters!Fault
  <2> QED
    BY <1>2, <2>1 DEF RostersTyped, CallTyped
<1>3. CASE swap = "reopened" /\ swap' = "idle" /\ UNCHANGED <<file, version, faults, roster, refresh, guardians, call>>
  BY <1>3 DEF RostersTyped, FileTyped, CallTyped
<1>4. CASE Rosters!Delete \/ Rosters!Expire
  BY <1>4 DEF Rosters!Delete, Rosters!Expire, RostersTyped, FileTyped, CallTyped
<1>5. CASE Rosters!InvalidateCache
  <2>1. refresh'[Rosters!player] <= MaxRefreshes
    BY <1>1, <1>5, BoundAssumption DEF Rosters!InvalidateCache, Rosters!Refreshed
  <2> QED
    BY <1>5, <2>1 DEF Rosters!InvalidateCache, RostersTyped, FileTyped, CallTyped
\* A request, and the roster it may keep.
<1>6. ASSUME NEW c \in Callers, Rosters!Frame, UNCHANGED faults \/ Rosters!Fault \/ Rosters!QueryFails,
             \E next : call' = [call EXCEPT ![c] = next] /\ CallTyped(next),
             roster' # None => roster'.fetched <= MaxRefreshes
      PROVE  RostersTyped'
  <2>1. FileTyped(MaxInstalls)'
    BY <1>1, <1>6, BoundAssumption DEF FileTyped, Rosters!Frame, Rosters!Fault, Rosters!QueryFails
  <2>2. \A d \in Callers : CallTyped(call'[d])
    BY <1>1, <1>6
  <2>3. refresh' = refresh
    BY <1>6 DEF Rosters!Frame
  <2> QED
    BY <1>1, <1>6, <2>1, <2>2, <2>3 DEF RostersTyped, CallTyped
<1>7. roster # None => roster.fetched <= MaxRefreshes
  BY DEF RostersTyped
<1>8. ASSUME NEW c \in Callers, NEW outcome, Rosters!Answers(c, outcome)
      PROVE  \E next : call' = [call EXCEPT ![c] = next] /\ CallTyped(next)
  <2> DEFINE next == Rosters!Answer(c, outcome)
  <2>1. next.pc = "answered" /\ next.roster = call[c].roster /\ call' = [call EXCEPT ![c] = next]
    BY <1>8 DEF Rosters!Answers, Rosters!Answer, Rosters!NoCall, Rosters!Goes
  <2> HIDE DEF next
  <2>2. CallTyped(next)
    BY <1>1, <2>1 DEF CallTyped
  <2> QED
    BY <2>1, <2>2
<1>9. ASSUME NEW c \in Callers, NEW pc \in {"fetch", "names"}, Rosters!GoesTo(c, pc)
      PROVE  \E next : call' = [call EXCEPT ![c] = next] /\ CallTyped(next)
  <2> DEFINE next == [call[c] EXCEPT !.pc = pc]
  <2>1. next.pc = pc /\ next.roster = call[c].roster /\ call' = [call EXCEPT ![c] = next]
    BY <1>1, <1>9 DEF Rosters!GoesTo, Rosters!Goes, RosterCalls
  <2> HIDE DEF next
  <2>2. CallTyped(next)
    BY <1>1, <2>1 DEF CallTyped
  <2> QED
    BY <2>1, <2>2
<1>10. ASSUME NEW c \in Callers, NEW kind, NEW g, Rosters!GetCharacters(c, kind, g) PROVE RostersTyped'
  <2> DEFINE next == [Rosters!NoCall EXCEPT !.pc = "lookup", !.kind = kind, !.guardian = g,
                                            !.asked = Rosters!BeginRefresh(refresh, Rosters!player)]
  <2>1. CallTyped(next)
    BY DEF CallTyped, Rosters!NoCall
  <2> QED
    BY <1>6, <1>7, <1>10, <2>1 DEF Rosters!GetCharacters, Rosters!Goes
<1>11. ASSUME NEW c \in Callers, Rosters!LookUp(c) PROVE RostersTyped'
  BY <1>6, <1>7, <1>9, <1>11, WithTyped DEF Rosters!LookUp
<1>12. ASSUME NEW c \in Callers, Rosters!FetchRoster(c) PROVE RostersTyped'
  <2> DEFINE got == [fetched |-> refresh[Rosters!player], ids |-> guardians]
             next == [call[c] EXCEPT !.pc = "publish", !.roster = got]
  <2>1. next.pc = "publish" /\ next.roster = got /\ got # None /\ got.fetched = refresh[Rosters!player]
    <3>1. got \in Roster /\ got.fetched = refresh[Rosters!player]
      BY <1>1 DEF Roster, RostersInv, RostersShape
    <3>2. next.pc = "publish" /\ next.roster = got
      BY <1>1 DEF RosterCalls
    <3>3. None \notin Roster
      BY NoneAssumption DEF Roster
    <3> QED
      BY <3>1, <3>2, <3>3
  <2>2. call' = [call EXCEPT ![c] = next] \/ Rosters!Answers(c, "error")
    BY <1>12 DEF Rosters!FetchRoster, Rosters!Goes
  <2> HIDE DEF got, next
  <2>3. CallTyped(next)
    BY <1>1, <2>1 DEF CallTyped
  <2> QED
    BY <1>6, <1>7, <1>8, <1>12, <2>2, <2>3 DEF Rosters!FetchRoster
<1>13. ASSUME NEW c \in Callers, Rosters!Publish(c) PROVE RostersTyped'
  <2>1. call[c].roster # None /\ call[c].roster.fetched <= MaxRefreshes
    BY <1>1, <1>13 DEF Rosters!Publish, CallTyped
  <2>2. roster' # None => roster'.fetched <= MaxRefreshes
    BY <1>7, <1>13, <2>1 DEF Rosters!Publish
  <2> QED
    BY <1>6, <1>13, <2>1, <2>2, WithTyped DEF Rosters!Publish
<1>14. ASSUME NEW c \in Callers, NEW g, Rosters!GetEquipment(c, g) PROVE RostersTyped'
  <2> DEFINE tells(outcome) == [Rosters!NoCall EXCEPT !.pc = "answered", !.outcome = outcome]
             worn == [Rosters!NoCall EXCEPT !.pc = "facts", !.kind = "equipment", !.guardian = g]
  <2>1. \E next : call' = [call EXCEPT ![c] = next] /\ CallTyped(next)
    <3>1. CallTyped(worn) /\ \A outcome : CallTyped(tells(outcome))
      BY DEF Rosters!NoCall, CallTyped
    <3>2. call' = [call EXCEPT ![c] = worn] \/ \E outcome : call' = [call EXCEPT ![c] = tells(outcome)]
      BY <1>14 DEF Rosters!GetEquipment, Rosters!Goes
    <3> HIDE DEF worn, tells
    <3> QED
      BY <3>1, <3>2
  <2> QED
    BY <1>6, <1>7, <1>14, <2>1 DEF Rosters!GetEquipment
<1>15. ASSUME NEW c \in Callers, Rosters!ResolveEquipment(c) \/ Rosters!NameMode(c) PROVE RostersTyped'
  BY <1>6, <1>7, <1>8, <1>15 DEF Rosters!ResolveEquipment, Rosters!NameMode
<1>16. ASSUME NEW c \in Callers, Rosters!GetActivity(c) PROVE RostersTyped'
  BY <1>6, <1>7, <1>8, <1>9, <1>16 DEF Rosters!GetActivity
<1>17. ASSUME NEW c \in Callers, Rosters!NameActivities(c) PROVE RostersTyped'
  <2>1. ASSUME NEW outcome, Rosters!Goes(c, [call[c] EXCEPT !.pc = "mode", !.outcome = outcome])
        PROVE  \E next : call' = [call EXCEPT ![c] = next] /\ CallTyped(next)
    <3> DEFINE next == [call[c] EXCEPT !.pc = "mode", !.outcome = outcome]
    <3>1. next.pc = "mode" /\ next.roster = call[c].roster /\ call' = [call EXCEPT ![c] = next]
      BY <1>1, <2>1 DEF Rosters!Goes, RosterCalls
    <3> HIDE DEF next
    <3>2. CallTyped(next)
      BY <1>1, <3>1 DEF CallTyped
    <3> QED
      BY <3>1, <3>2
  <2> QED
    BY <1>6, <1>7, <1>8, <1>17, <2>1 DEF Rosters!NameActivities
<1> QED
  BY <1>2, <1>3, <1>4, <1>5, <1>10, <1>11, <1>12, <1>13, <1>14, <1>15, <1>16, <1>17 DEF Rosters!Next

\* The types of the characters, as they are told.
LEMMA RostersTypes == RostersInv /\ RostersTyped => Rosters!TypeOK
<1> SUFFICES ASSUME RostersInv, RostersTyped PROVE Rosters!TypeOK
  OBVIOUS
<1>1. /\ refresh[Rosters!player] \in 0 .. MaxRefreshes /\ guardians \subseteq Guardians
      /\ roster \in Rosters!Roster \cup {None}
  BY ThePlayer, BoundAssumption DEF RostersInv, RostersShape, RostersTyped, Roster, Rosters!Roster
<1>2. ASSUME NEW c \in Callers
      PROVE  /\ call[c].pc \in {"idle", "lookup", "fetch", "publish", "detail", "facts", "names", "mode", "answered"}
             /\ call[c].kind \in Rosters!Kinds /\ call[c].outcome \in Rosters!Outcomes
             /\ call[c].roster \in Rosters!Roster \cup {None}
             /\ call[c].pc = "detail" => call[c].guardian \in call[c].roster.ids
  <2>1. call[c] \in RosterCalls /\ CallTyped(call[c])
    BY DEF RostersInv, RostersShape, RostersTyped
  <2> QED
    BY <2>1, BoundAssumption DEF RosterCalls, CallTyped, Roster, Rosters!Roster
<1> QED
  BY <1>1, <1>2 DEF Rosters!TypeOK, Rosters!ManifestTypeOK, Rosters!FileVersions, RostersTyped, FileTyped

-----------------------------------------------------------------------------
(* The types of the efficiency index. *)

\* What is being built is what the builds have entered, each an attempt of its own.
Busy(build) == build.pc \in {"rows", "publish", "done"}
Entered(builds, attempts) ==
    /\ attempts = {builds[b].attempt : b \in {x \in Callers : Busy(builds[x])}}
    /\ \A b, d \in Callers :
          Busy(builds[b]) /\ Busy(builds[d]) /\ builds[b].attempt = builds[d].attempt => b = d

\* The engine has been told of no more versions than there are.
EngineTyped ==
    /\ FileTyped(MaxIndexInstalls)
    /\ swap \in {"named", "reopened"} => version >= 1
    /\ fence.version = None => fence.generation = 1
    /\ fence.version # None => fence.version <= version /\ fence.generation <= fence.version + 1
    /\ \A b \in Callers : builder[b].attempt <= fence.generation
    /\ index # Engine!NoIndex => index.published <= fence.generation
    /\ Entered(builder, building)

LEMMA EngineTypedInit == Engine!Init => EngineTyped
<1> SUFFICES ASSUME Engine!Init PROVE EngineTyped
  OBVIOUS
<1>1. \A b \in Callers : ~Busy(builder[b]) /\ builder[b].attempt = 0
  BY DEF Engine!Init, Engine!NoBuild, Engine!Fences!InertAttempt, Busy
<1>2. Entered(builder, building)
  BY <1>1 DEF Engine!Init, Entered
<1> QED
  BY <1>1, <1>2, BoundAssumption
     DEF Engine!Init, Engine!Found, Engine!Fences!NewFence, EngineTyped, FileTyped

\* A build goes on, and is entered if it was; it enters; it leaves.
LEMMA GoesOn ==
  ASSUME NEW builds, NEW attempts, Entered(builds, attempts), NEW next, NEW b \in Callers, NEW after,
         after[b] = next, \A d \in Callers \ {b} : after[d] = builds[d],
         Busy(next) <=> Busy(builds[b]), Busy(next) => next.attempt = builds[b].attempt
  PROVE  Entered(after, attempts)
<1>1. {x \in Callers : Busy(after[x])} = {x \in Callers : Busy(builds[x])}
  OBVIOUS
<1>2. \A d \in Callers : Busy(after[d]) => after[d].attempt = builds[d].attempt
  OBVIOUS
<1>3. {after[d].attempt : d \in {x \in Callers : Busy(after[x])}}
        = {builds[d].attempt : d \in {x \in Callers : Busy(builds[x])}}
  BY <1>1, <1>2
<1> QED
  BY <1>1, <1>2, <1>3 DEF Entered

LEMMA GoesIn ==
  ASSUME NEW builds, NEW attempts, Entered(builds, attempts), NEW next, NEW b \in Callers, NEW after,
         after[b] = next, \A d \in Callers \ {b} : after[d] = builds[d],
         ~Busy(builds[b]), Busy(next), next.attempt \notin attempts
  PROVE  Entered(after, attempts \cup {next.attempt})
<1>1. \A d \in Callers : Busy(after[d]) <=> d = b \/ Busy(builds[d])
  OBVIOUS
<1>2. \A d \in Callers : Busy(builds[d]) => builds[d].attempt \in attempts /\ after[d] = builds[d]
  BY DEF Entered
<1>3. {after[d].attempt : d \in {x \in Callers : Busy(after[x])}}
        = {builds[d].attempt : d \in {x \in Callers : Busy(builds[x])}} \cup {next.attempt}
  BY <1>1, <1>2
<1> QED
  BY <1>1, <1>2, <1>3 DEF Entered

LEMMA GoesOut ==
  ASSUME NEW builds, NEW attempts, Entered(builds, attempts), NEW next, NEW b \in Callers, NEW after,
         after[b] = next, \A d \in Callers \ {b} : after[d] = builds[d],
         Busy(builds[b]), ~Busy(next)
  PROVE  Entered(after, attempts \ {builds[b].attempt})
<1>1. \A d \in Callers : Busy(after[d]) <=> d # b /\ Busy(builds[d])
  OBVIOUS
<1>2. \A d \in Callers : Busy(after[d]) => after[d] = builds[d] /\ builds[d].attempt # builds[b].attempt
  BY <1>1 DEF Entered
<1>3. {after[d].attempt : d \in {x \in Callers : Busy(after[x])}}
        = {builds[d].attempt : d \in {x \in Callers : Busy(builds[x])}} \ {builds[b].attempt}
  BY <1>1, <1>2
<1> QED
  BY <1>1, <1>2, <1>3 DEF Entered

LEMMA EngineTypedNext ==
  ASSUME EngineInv, EngineTyped, Engine!Next
  PROVE  EngineTyped'
<1>1. /\ FileTyped(MaxIndexInstalls) /\ file \in Nat /\ version \in Nat /\ fence.generation \in Nat
      /\ version <= file /\ builder \in [Callers -> Builds] /\ Entered(builder, building)
      /\ \A b \in Callers : builder[b] \in Builds /\ builder[b].attempt <= fence.generation
      /\ index \in Indices \cup {Engine!NoIndex} /\ fence.version \in Nat \cup {None}
  BY DEF EngineInv, EngineShape, EngineTyped
\* The file.
<1>2. CASE Engine!Download /\ UNCHANGED <<fence, index, building, builder>>
  <2>1. FileTyped(MaxIndexInstalls)'
    BY <1>1, <1>2, BoundAssumption
    DEF FileTyped, Engine!Download, Engine!Close, Engine!Install, Engine!RollBack, Engine!Name, Engine!Reopen,
        Engine!Fault
  <2>2. version' \in Nat /\ version <= version' /\ (swap' \in {"named", "reopened"} => version' >= 1)
    BY <1>1, <1>2 DEF EngineTyped, Engine!Download, Engine!Close, Engine!Install, Engine!RollBack, Engine!Name,
                      Engine!Reopen
  <2>3. fence.version # None => fence.version <= version'
    BY <1>1, <2>2 DEF EngineTyped
  <2>4. UNCHANGED <<fence, index, building, builder, Engine!NoIndex>>
    BY <1>2 DEF Engine!NoIndex
  <2> QED
    BY <2>1, <2>2, <2>3, <2>4 DEF EngineTyped, Entered, Busy
\* A build, which has begun in a generation there has been.
<1>3. ASSUME NEW b \in Callers, NEW next, builder' = [builder EXCEPT ![b] = next]
      PROVE  builder'[b] = next /\ \A d \in Callers \ {b} : builder'[d] = builder[d]
  BY <1>1, <1>3
<1>4. ASSUME NEW b \in Callers, Engine!Frame, UNCHANGED faults \/ Engine!QueryFails,
             NEW next, builder' = [builder EXCEPT ![b] = next], next.attempt <= fence.generation,
             Entered(builder', building'),
             index' # index => index'.published <= fence.generation
      PROVE  EngineTyped'
  <2>1. FileTyped(MaxIndexInstalls)' /\ UNCHANGED <<fence, swap, version>>
    BY <1>1, <1>4, BoundAssumption DEF FileTyped, Engine!Frame, Engine!QueryFails, Engine!Fault
  <2>2. \A d \in Callers : builder'[d].attempt <= fence'.generation
    BY <1>1, <1>3, <1>4, <2>1
  <2>3. index' # Engine!NoIndex => index'.published <= fence'.generation
    BY <1>4, <2>1 DEF EngineTyped
  <2>4. Engine!NoIndex' = Engine!NoIndex
    BY DEF Engine!NoIndex
  <2> QED
    BY <1>4, <2>1, <2>2, <2>3, <2>4 DEF EngineTyped, Entered, Busy
<1>5. ASSUME NEW b \in Callers, Engine!Starts(b)
      PROVE  Entered(builder', building) /\ \A d \in Callers : builder'[d].attempt = builder[d].attempt
  <2> DEFINE next == [builder[b] EXCEPT !.pc = "begin"]
  <2>1. builder' = [builder EXCEPT ![b] = next] /\ next.pc = "begin" /\ next.attempt = builder[b].attempt
        /\ builder[b].pc = "idle"
    BY <1>1, <1>5 DEF Engine!Starts, Builds
  <2> HIDE DEF next
  <2>2. builder'[b] = next /\ \A d \in Callers \ {b} : builder'[d] = builder[d]
    BY <1>3, <2>1
  <2>3. ~Busy(next) /\ ~Busy(builder[b])
    BY <2>1 DEF Busy
  <2>4. Entered(builder', building)
    BY <1>1, <2>2, <2>3, GoesOn
  <2> QED
    BY <2>1, <2>2, <2>4
<1>6. ASSUME NEW b \in Callers, Engine!OnVersionChanged(b) PROVE EngineTyped'
  <2>1. /\ swap = "reopened" /\ swap' = "idle" /\ UNCHANGED <<file, version, index, building, faults>>
        /\ fence' = Engine!Fences!Advanced(fence, version) /\ Engine!Starts(b)
    BY <1>6 DEF Engine!OnVersionChanged
  <2>2. /\ fence'.version = None => fence'.generation = 1
        /\ fence'.version # None => fence'.version <= version /\ fence'.generation <= fence'.version + 1
        /\ fence'.generation \in Nat /\ fence.generation <= fence'.generation
    <3>1. CASE version # fence.version
      <4>1. fence' = [generation |-> fence.generation + 1, version |-> version] /\ version # None
        BY <1>1, <2>1, <3>1, NoneAssumption DEF Engine!Fences!Advanced, Engine!Fences!Retires
      <4>2. fence'.version = version /\ fence'.generation = fence.generation + 1
        BY <4>1
      <4>3. fence.generation <= version
        BY <1>1, <2>1, <3>1 DEF EngineTyped
      <4> QED
        BY <1>1, <4>1, <4>2, <4>3
    <3>2. CASE version = fence.version
      BY <1>1, <2>1, <3>2 DEF Engine!Fences!Advanced, Engine!Fences!Retires, EngineTyped
    <3> QED
      BY <3>1, <3>2
  <2>3. \A d \in Callers : builder'[d].attempt <= fence'.generation
    BY <1>1, <1>5, <2>1, <2>2 DEF Builds
  <2>4. index # Engine!NoIndex => index.published <= fence'.generation
    <3>1. index # Engine!NoIndex => index.published \in Nat /\ index.published <= fence.generation
      BY <1>1 DEF Indices, EngineTyped
    <3> QED
      BY <1>1, <2>2, <3>1
  <2>5. FileTyped(MaxIndexInstalls)' /\ Engine!NoIndex' = Engine!NoIndex
    BY <1>1, <2>1 DEF FileTyped, Engine!NoIndex
  <2>6. Entered(builder', building)
    BY <1>5, <2>1
  <2> QED
    BY <2>1, <2>2, <2>3, <2>4, <2>5, <2>6 DEF EngineTyped, Entered, Busy
<1>7. ASSUME NEW b \in Callers, Engine!EnsureIndex(b) PROVE EngineTyped'
  <2>1. UNCHANGED <<file, version, swap, fence, index, building, faults>> /\ Engine!Starts(b)
    BY <1>7 DEF Engine!EnsureIndex
  <2>2. Entered(builder', building) /\ \A d \in Callers : builder'[d].attempt <= fence.generation
    BY <1>1, <1>5, <2>1
  <2> QED
    BY <1>1, <2>1, <2>2 DEF EngineTyped, FileTyped, Entered, Busy, Engine!NoIndex
\* Steps that leave what is being built alone.
<1>8. ASSUME NEW b \in Callers, Engine!Frame, UNCHANGED faults \/ Engine!QueryFails, UNCHANGED building,
             NEW next, builder' = [builder EXCEPT ![b] = next], next.attempt <= fence.generation,
             Busy(next) <=> Busy(builder[b]), Busy(next) => next.attempt = builder[b].attempt,
             index' # index => index'.published <= fence.generation
      PROVE  EngineTyped'
  <2>1. Entered(builder', building)
    BY <1>1, <1>3, <1>8, GoesOn
  <2> QED
    BY <1>4, <1>8, <2>1
<1>9. ASSUME NEW b \in Callers, Engine!Begin(b) PROVE EngineTyped'
  <2> DEFINE next == [builder[b] EXCEPT !.pc = "version", !.attempt = fence.generation]
  <2>1. /\ next.pc = "version" /\ next.attempt = fence.generation /\ builder' = [builder EXCEPT ![b] = next]
        /\ builder[b].pc = "begin" /\ Engine!Frame /\ UNCHANGED <<index, building, faults>>
    BY <1>1, <1>9 DEF Engine!Begin, Engine!Goes, Engine!Fences!Begin, Builds
  <2> HIDE DEF next
  <2>2. next.attempt <= fence.generation /\ ~Busy(next) /\ ~Busy(builder[b])
    BY <1>1, <2>1 DEF Busy
  <2> QED
    BY <1>8, <2>1, <2>2
<1>10. ASSUME NEW b \in Callers, Engine!ReadVersion(b) PROVE EngineTyped'
  <2> DEFINE next == [builder[b] EXCEPT !.pc = "enter", !.version = version]
  <2>1. /\ next.pc = "enter" /\ next.attempt = builder[b].attempt /\ builder' = [builder EXCEPT ![b] = next]
        /\ builder[b].pc = "version" /\ Engine!Frame /\ UNCHANGED <<index, building, faults>>
    BY <1>1, <1>10 DEF Engine!ReadVersion, Engine!Goes, Builds
  <2> HIDE DEF next
  <2>2. next.attempt <= fence.generation /\ ~Busy(next) /\ ~Busy(builder[b])
    BY <1>1, <2>1 DEF Busy
  <2> QED
    BY <1>8, <2>1, <2>2
<1>11. Engine!NoBuild.pc = "idle" /\ Engine!NoBuild.attempt <= fence.generation
  BY <1>1 DEF Engine!NoBuild, Engine!Fences!InertAttempt
<1>12. ASSUME NEW b \in Callers, Engine!Enter(b) PROVE EngineTyped'
  <2>1. builder[b].pc = "enter" /\ Engine!Frame /\ UNCHANGED <<index, faults>>
    BY <1>12 DEF Engine!Enter
  <2>2. CASE Engine!Skips(b)
    <3>1. builder' = [builder EXCEPT ![b] = Engine!NoBuild] /\ UNCHANGED building
      BY <1>12, <2>2 DEF Engine!Enter, Engine!Goes
    <3>2. ~Busy(Engine!NoBuild) /\ ~Busy(builder[b])
      BY <1>11, <2>1 DEF Busy
    <3> QED
      BY <1>8, <1>11, <2>1, <3>1, <3>2
  <2>3. CASE ~Engine!Skips(b)
    <3> DEFINE next == [builder[b] EXCEPT !.pc = "rows"]
    <3>1. /\ next.pc = "rows" /\ next.attempt = builder[b].attempt /\ builder' = [builder EXCEPT ![b] = next]
          /\ building' = building \cup {next.attempt} /\ next.attempt \notin building
      BY <1>1, <1>12, <2>3 DEF Engine!Enter, Engine!Goes, Engine!Skips, Builds
    <3> HIDE DEF next
    <3>2. Busy(next) /\ ~Busy(builder[b])
      BY <2>1, <3>1 DEF Busy
    <3>3. Entered(builder', building')
      BY <1>1, <1>3, <3>1, <3>2, GoesIn
    <3> QED
      BY <1>1, <1>4, <2>1, <3>1, <3>3
  <2> QED
    BY <2>2, <2>3
<1>13. ASSUME NEW b \in Callers, Engine!ReadRows(b) PROVE EngineTyped'
  <2> DEFINE next == [builder[b] EXCEPT !.pc = "publish", !.rows = file]
  <2>1. /\ next.pc = "publish" /\ next.attempt = builder[b].attempt /\ builder' = [builder EXCEPT ![b] = next]
        /\ builder[b].pc = "rows" /\ Engine!Frame /\ UNCHANGED <<index, building, faults>>
    BY <1>1, <1>13 DEF Engine!ReadRows, Engine!Goes, Builds
  <2> HIDE DEF next
  <2>2. next.attempt <= fence.generation /\ Busy(next) /\ Busy(builder[b])
    BY <1>1, <2>1 DEF Busy
  <2> QED
    BY <1>8, <2>1, <2>2
<1>14. ASSUME NEW b \in Callers, Engine!ReadFails(b) \/ Engine!Publish(b) PROVE EngineTyped'
  <2> DEFINE next == [builder[b] EXCEPT !.pc = "done"]
  <2>1. /\ next.pc = "done" /\ next.attempt = builder[b].attempt /\ builder' = [builder EXCEPT ![b] = next]
        /\ builder[b].pc \in {"rows", "publish"} /\ Engine!Frame /\ UNCHANGED building
        /\ UNCHANGED faults \/ Engine!QueryFails
    BY <1>1, <1>14 DEF Engine!ReadFails, Engine!Publish, Engine!Goes, Builds
  <2> HIDE DEF next
  <2>2. next.attempt <= fence.generation /\ Busy(next) /\ Busy(builder[b])
    BY <1>1, <2>1 DEF Busy
  <2>3. index' # index => index'.published <= fence.generation
    BY <1>1, <1>14 DEF Engine!ReadFails, Engine!Publish, Engine!IndexOf
  <2> QED
    BY <1>8, <2>1, <2>2, <2>3
<1>15. ASSUME NEW b \in Callers, Engine!Leave(b) PROVE EngineTyped'
  <2>1. /\ builder[b].pc = "done" /\ Engine!Frame /\ UNCHANGED <<index, faults>>
        /\ building' = building \ {builder[b].attempt} /\ builder' = [builder EXCEPT ![b] = Engine!NoBuild]
    BY <1>15 DEF Engine!Leave, Engine!Goes
  <2>2. Busy(builder[b]) /\ ~Busy(Engine!NoBuild)
    BY <1>11, <2>1 DEF Busy
  <2>3. Entered(builder', building')
    BY <1>1, <1>3, <2>1, <2>2, GoesOut
  <2> QED
    BY <1>4, <1>11, <2>1, <2>3
<1> QED
  BY <1>2, <1>6, <1>7, <1>9, <1>10, <1>12, <1>13, <1>14, <1>15 DEF Engine!Next

\* The types of the efficiency index, as they are told.
LEMMA EngineTypes == EngineInv /\ EngineTyped => Engine!TypeOK
<1> SUFFICES ASSUME EngineInv, EngineTyped PROVE Engine!TypeOK
  OBVIOUS
<1>1. fence.generation \in 0 .. MaxIndexInstalls + 1 /\ fence.generation \in Nat
  BY BoundAssumption DEF EngineInv, EngineShape, EngineTyped, FileTyped
<1>2. index \in [buckets: 0 .. MaxIndexInstalls, version: 0 .. MaxIndexInstalls,
                 published: 0 .. MaxIndexInstalls + 1] \cup {Engine!NoIndex}
  BY <1>1, BoundAssumption DEF EngineInv, EngineShape, EngineTyped, FileTyped, Indices
<1>3. building = {builder[b].attempt : b \in {x \in Callers : builder[x].pc \in {"rows", "publish", "done"}}}
  BY DEF EngineTyped, Entered, Busy
<1> QED
  BY <1>1, <1>2, <1>3
     DEF Engine!TypeOK, Engine!ManifestTypeOK, Engine!FileVersions, Engine!Attempts, EngineTyped, FileTyped

-----------------------------------------------------------------------------
(* The types of This Week. *)

\* A request holds a payload only while it builds one.
Holds(x) == x.pc \notin Building => x.building = None

WeekTyped ==
    /\ FileTyped(MaxInstalls)
    /\ ticks \in 0 .. MaxTicks
    /\ \A c \in Callers : Holds(call[c])

LEMMA WeekTypedInit == Week!Init => WeekTyped
  BY BoundAssumption DEF Week!Init, Week!Found, Week!NoCall, WeekTyped, FileTyped, Holds

LEMMA WeekTypedNext ==
  ASSUME WeekInv, WeekTyped, Week!Next
  PROVE  WeekTyped'
<1>1. /\ FileTyped(MaxInstalls) /\ call \in [Callers -> WeekCalls] /\ ticks \in 0 .. MaxTicks
      /\ \A c \in Callers : call[c] \in WeekCalls /\ Holds(call[c])
  BY DEF WeekInv, WeekShape, WeekTyped
<1>2. CASE Week!Download /\ UNCHANGED Week!weeklyVars
  <2>1. FileTyped(MaxInstalls)'
    BY <1>1, <1>2, BoundAssumption
    DEF FileTyped, Week!Download, Week!Close, Week!Install, Week!RollBack, Week!Name, Week!Reopen, Week!Fault
  <2> QED
    BY <1>2, <2>1 DEF Week!weeklyVars, WeekTyped, Holds
<1>3. CASE Week!OnVersionChanged
  BY <1>3 DEF Week!OnVersionChanged, WeekTyped, FileTyped, Holds
<1>4. CASE Week!Tick
  <2>1. ticks' \in 0 .. MaxTicks
    BY <1>1, <1>4, BoundAssumption DEF Week!Tick
  <2> QED
    BY <1>4, <2>1 DEF Week!Tick, WeekTyped, FileTyped, Holds
<1>5. ASSUME NEW c \in Callers, Week!Frame, UNCHANGED faults \/ Week!Fault \/ Week!QueryFails,
             \E next : call' = [call EXCEPT ![c] = next] /\ Holds(next)
      PROVE  WeekTyped'
  <2>1. FileTyped(MaxInstalls)' /\ UNCHANGED ticks
    BY <1>1, <1>5, BoundAssumption DEF FileTyped, Week!Frame, Week!Fault, Week!QueryFails
  <2>2. \A d \in Callers : Holds(call'[d])
    BY <1>1, <1>5
  <2> QED
    BY <1>1, <2>1, <2>2 DEF WeekTyped, Holds
<1>6. Holds(Week!NoCall) /\ Holds([Week!NoCall EXCEPT !.pc = "available", !.now = clock])
  BY DEF Holds, Week!NoCall
<1>7. ASSUME NEW c \in Callers, NEW now, Week!LooksUp(c, now)
      PROVE  \E next : call' = [call EXCEPT ![c] = next] /\ Holds(next)
  <2> DEFINE begun(pc) == [pc |-> pc, now |-> now, building |-> Week!Blank(now)]
  <2>1. \A pc \in {"xur", "milestones"} : Holds(begun(pc))
    BY DEF Holds, Building
  <2>2. \/ call' = [call EXCEPT ![c] = Week!NoCall]
        \/ \E pc \in {"xur", "milestones"} : call' = [call EXCEPT ![c] = begun(pc)]
    BY <1>7 DEF Week!LooksUp, Week!Goes
  <2> HIDE DEF begun
  <2> QED
    BY <1>6, <2>1, <2>2
<1>8. ASSUME NEW c \in Callers, NEW pc \in Building, NEW pub, Week!BuildsOn(c, pc, pub)
      PROVE  \E next : call' = [call EXCEPT ![c] = next] /\ Holds(next)
  <2> DEFINE next == [call[c] EXCEPT !.pc = pc, !.building = pub]
  <2>1. call' = [call EXCEPT ![c] = next] /\ next.pc = pc
    BY <1>1, <1>8 DEF Week!BuildsOn, Week!Goes, WeekCalls
  <2> HIDE DEF next
  <2> QED
    BY <2>1 DEF Holds
<1>9. {"milestones", "store"} \subseteq Building
  BY DEF Building
<1>10. ASSUME NEW c \in Callers, Week!GetWeekly(c) PROVE WeekTyped'
  BY <1>5, <1>7, <1>10 DEF Week!GetWeekly
<1>11. ASSUME NEW c \in Callers, Week!LiveVendorItemHashes(c) PROVE WeekTyped'
  BY <1>5, <1>6, <1>11 DEF Week!LiveVendorItemHashes, Week!Goes
<1>12. ASSUME NEW c \in Callers, Week!XurItemHashes(c) PROVE WeekTyped'
  BY <1>5, <1>6, <1>7, <1>12 DEF Week!XurItemHashes, Week!Goes
<1>13. ASSUME NEW c \in Callers, Week!FetchXurInventory(c) PROVE WeekTyped'
  BY <1>5, <1>8, <1>9, <1>13 DEF Week!FetchXurInventory
<1>14. ASSUME NEW c \in Callers, Week!FetchMilestones(c) PROVE WeekTyped'
  BY <1>5, <1>8, <1>9, <1>14 DEF Week!FetchMilestones
<1>15. ASSUME NEW c \in Callers, Week!Store(c) PROVE WeekTyped'
  BY <1>5, <1>6, <1>15 DEF Week!Store, Week!Goes
<1> QED
  BY <1>2, <1>3, <1>4, <1>10, <1>11, <1>12, <1>13, <1>14, <1>15 DEF Week!Next

\* The types of This Week, as they are told.
LEMMA WeekTypes == WeekInv /\ WeekTyped => Week!TypeOK
<1> SUFFICES ASSUME WeekInv, WeekTyped PROVE Week!TypeOK
  OBVIOUS
<1>1. ASSUME NEW c \in Callers
      PROVE  call[c].pc \in {"xur", "milestones", "store"} <=> call[c].building \in Week!Payload
  <2>1. InTime(call[c]) /\ Holds(call[c])
    BY DEF WeekInv, WeekTyped
  <2> QED
    BY <2>1, PayloadAssumption DEF InTime, Holds, Building
<1> QED
  BY <1>1 DEF Week!TypeOK, Week!ManifestTypeOK, Week!FileVersions, WeekInv, WeekShape, WeekTyped, FileTyped

-----------------------------------------------------------------------------
(* What the vendors sell. *)

StockCalls == [pc: {"idle", "vendors", "enrich", "keep", "location", "live"},
               now: Nat, key: 0 .. MaxInstalls, row: 0 .. MaxInstalls, at: Nat]

StockShape ==
    /\ ticks \in 0 .. MaxTicks /\ clock \in Nat
    /\ vendors \in Stock!Answer \cup {None} /\ live \in Stock!Answer \cup {None}
    /\ rows \in [0 .. MaxInstalls -> Stock!Rows \cup {None}]
    /\ call \in [Callers -> StockCalls]

\* A row is named no earlier than its key was chosen, by a file that has its name.
RowNamed(x) ==
    /\ x.pc \in {"enrich", "keep"} => x.key <= version
    /\ x.pc = "keep" => x.key <= x.row /\ x.row <= version

RowsNamed == \A v \in 0 .. MaxInstalls : rows[v] # None => v <= rows[v].row /\ rows[v].row <= version

\* The file has one name but for the moment between its rename and its naming.
StockInv ==
    /\ FileTyped(MaxInstalls) /\ version <= file /\ (file # version => swap = "closed")
    /\ StockShape /\ RowsNamed /\ \A c \in Callers : RowNamed(call[c])

LEMMA StockInit == Stock!Init => StockInv
<1> SUFFICES ASSUME Stock!Init PROVE StockInv
  OBVIOUS
<1>1. Stock!NoCall \in StockCalls /\ Stock!NoCall.pc = "idle"
  BY BoundAssumption DEF Stock!NoCall, StockCalls
<1>2. rows \in [0 .. MaxInstalls -> Stock!Rows \cup {None}] /\ \A v \in 0 .. MaxInstalls : rows[v] = None
  BY DEF Stock!Init, Stock!FileVersions
<1> QED
  BY <1>1, <1>2, WeekAssumption, BoundAssumption
     DEF Stock!Init, Stock!Found, StockInv, StockShape, FileTyped, RowsNamed, RowNamed

\* A request takes a step and the clock and the file stand.
LEMMA StockStep ==
  ASSUME StockInv, NEW c \in Callers, NEW next \in StockCalls, call' = [call EXCEPT ![c] = next],
         RowNamed(next), Stock!Frame, UNCHANGED faults \/ Stock!Fault \/ Stock!QueryFails,
         vendors' \in Stock!Answer \cup {None}, live' \in Stock!Answer \cup {None},
         rows' \in [0 .. MaxInstalls -> Stock!Rows \cup {None}], RowsNamed'
  PROVE  StockInv'
<1>1. call' \in [Callers -> StockCalls] /\ call'[c] = next /\ \A d \in Callers \ {c} : call'[d] = call[d]
  BY DEF StockInv, StockShape
<1>2. UNCHANGED <<file, version, swap, clock, ticks>>
  BY DEF Stock!Frame
<1>3. ASSUME NEW d \in Callers PROVE RowNamed(call[d])'
  BY <1>1, <1>2 DEF StockInv, RowNamed
<1>4. FileTyped(MaxInstalls)'
  BY <1>2, BoundAssumption DEF StockInv, FileTyped, Stock!Fault, Stock!QueryFails
<1> QED
  BY <1>1, <1>2, <1>3, <1>4 DEF StockInv, StockShape

LEMMA UntilResetCounts ==
  ASSUME NEW t \in Nat
  PROVE  Stock!UntilReset(t) \in Nat
<1>1. Floor \in Nat /\ Day \in Nat \ {0} /\ 0 \in Nat
  BY WeekAssumption
<1>2. Week!Following(t, 0, Day) \in Nat
  BY <1>1, Follows
<1>3. Stock!NextDailyReset(t) = Week!Following(t, 0, Day)
  BY DEF Stock!NextDailyReset, Stock!Following, Week!Following
<1>4. Stock!NextDailyReset(t) - t \in Int
  BY <1>2, <1>3
<1>5. /\ Week!Max({Stock!NextDailyReset(t) - t, Floor}) \in {Stock!NextDailyReset(t) - t, Floor}
      /\ Week!Max({Stock!NextDailyReset(t) - t, Floor}) >= Floor
  BY <1>1, <1>4, Larger
<1>6. Stock!UntilReset(t) = Week!Max({Stock!NextDailyReset(t) - t, Floor})
  BY DEF Stock!UntilReset, Stock!Max, Week!Max
<1> QED
  BY <1>1, <1>4, <1>5, <1>6

LEMMA StockNext ==
  ASSUME StockInv, Stock!Next
  PROVE  StockInv'
<1>1. /\ FileTyped(MaxInstalls) /\ version <= file /\ (file # version => swap = "closed")
      /\ file \in 0 .. MaxInstalls /\ version \in 0 .. MaxInstalls
      /\ ticks \in 0 .. MaxTicks /\ clock \in Nat /\ MaxInstalls \in Nat /\ Floor \in Nat
      /\ vendors \in Stock!Answer \cup {None} /\ live \in Stock!Answer \cup {None}
      /\ rows \in [0 .. MaxInstalls -> Stock!Rows \cup {None}]
      /\ \A c \in Callers : call[c] \in StockCalls /\ RowNamed(call[c])
  BY BoundAssumption, WeekAssumption DEF StockInv, StockShape, FileTyped
<1>2. CASE Stock!Download /\ UNCHANGED Stock!stockVars
  <2>1. UNCHANGED <<clock, ticks, vendors, live, rows, call>>
    BY <1>2 DEF Stock!stockVars
  <2>2. FileTyped(MaxInstalls)' /\ version' <= file' /\ (file' # version' => swap' = "closed") /\ version <= version'
    BY <1>1, <1>2, BoundAssumption
    DEF FileTyped, Stock!Download, Stock!Close, Stock!Install, Stock!RollBack, Stock!Name, Stock!Reopen, Stock!Fault
  <2>3. ASSUME NEW n \in 0 .. MaxInstalls, n <= version PROVE n <= version'
    BY <1>1, <2>2, <2>3 DEF FileTyped
  <2>4. RowsNamed'
    BY <1>1, <2>1, <2>3 DEF StockInv, RowsNamed, Stock!Rows, Stock!FileVersions
  <2>5. \A c \in Callers : RowNamed(call[c])'
    BY <1>1, <2>1, <2>3 DEF RowNamed, StockCalls
  <2> QED
    BY <2>1, <2>2, <2>4, <2>5 DEF StockInv, StockShape
<1>3. CASE Stock!OnVersionChanged
  BY <1>1, <1>3 DEF Stock!OnVersionChanged, Stock!stockVars, StockInv, StockShape, FileTyped, RowsNamed, RowNamed
<1>4. CASE Stock!Tick
  <2>1. /\ ticks < MaxTicks /\ clock' = clock + 1 /\ ticks' = ticks + 1
        /\ vendors' \in {vendors, None} /\ live' \in {live, None}
        /\ rows' = [v \in 0 .. MaxInstalls |-> Stock!Kept(rows[v], None, clock')]
        /\ UNCHANGED <<file, version, swap, faults, call>>
    BY <1>4 DEF Stock!Tick, Stock!Kept, Stock!FileVersions
  <2>2. \A v \in 0 .. MaxInstalls : rows'[v] \in {rows[v], None}
    BY <2>1 DEF Stock!Kept
  <2>3. rows' \in [0 .. MaxInstalls -> Stock!Rows \cup {None}] /\ RowsNamed'
    BY <1>1, <2>1, <2>2 DEF StockInv, RowsNamed
  <2>4. ticks' \in 0 .. MaxTicks
    BY <1>1, <2>1, BoundAssumption
  <2> QED
    BY <1>1, <2>1, <2>3, <2>4 DEF StockInv, StockShape, FileTyped, RowNamed
\* The rows stand in all the steps of a request but one.
<1>5. ASSUME NEW c \in Callers, Stock!Frame, UNCHANGED rows,
             UNCHANGED faults \/ Stock!Fault \/ Stock!QueryFails,
             vendors' \in Stock!Answer \cup {None}, live' \in Stock!Answer \cup {None},
             \E next \in StockCalls : call' = [call EXCEPT ![c] = next] /\ RowNamed(next)
      PROVE  StockInv'
  <2>1. RowsNamed'
    BY <1>5 DEF Stock!Frame, StockInv, RowsNamed
  <2> QED
    BY <1>1, <1>5, <2>1, StockStep
<1>6. Stock!CharacterVendors \in Stock!Answer
  BY <1>1 DEF Stock!CharacterVendors, Stock!Answer
<1>7. Stock!NoCall \in StockCalls /\ RowNamed(Stock!NoCall)
  BY <1>1 DEF Stock!NoCall, StockCalls, RowNamed
<1>8. ASSUME NEW pc \in {"vendors", "live"}
      PROVE  LET next == [Stock!NoCall EXCEPT !.pc = pc, !.now = clock]
             IN next \in StockCalls /\ RowNamed(next)
  <2> DEFINE next == [Stock!NoCall EXCEPT !.pc = pc, !.now = clock]
  <2>1. next \in StockCalls /\ next.pc = pc
    BY <1>1, <1>7 DEF StockCalls
  <2> QED
    BY <2>1 DEF RowNamed
<1>9. ASSUME NEW c \in Callers, Stock!Goes(c, "location")
      PROVE  \E next \in StockCalls : call' = [call EXCEPT ![c] = next] /\ RowNamed(next)
  <2> DEFINE next == [call[c] EXCEPT !.pc = "location"]
  <2>1. next \in StockCalls /\ next.pc = "location"
    BY <1>1 DEF StockCalls
  <2>2. call' = [call EXCEPT ![c] = next]
    BY <1>9 DEF Stock!Goes
  <2> HIDE DEF next
  <2> QED
    BY <2>1, <2>2 DEF RowNamed
<1>10. ASSUME NEW c \in Callers, Stock!GetWeekly(c) PROVE StockInv'
  BY <1>1, <1>5, <1>8, <1>10 DEF Stock!GetWeekly
<1>11. ASSUME NEW c \in Callers, Stock!LookUpVendors(c) PROVE StockInv'
  <2> DEFINE next == [call[c] EXCEPT !.pc = "enrich", !.key = version]
  <2>1. next \in StockCalls /\ next.pc = "enrich" /\ next.key = version
    BY <1>1 DEF StockCalls
  <2>2. Stock!Goes(c, "location") \/ call' = [call EXCEPT ![c] = next]
    BY <1>11 DEF Stock!LookUpVendors, Stock!DailyVendorsCacheKey
  <2> HIDE DEF next
  <2>3. RowNamed(next)
    BY <1>1, <2>1 DEF RowNamed
  <2> QED
    BY <1>1, <1>5, <1>9, <1>11, <2>1, <2>2, <2>3 DEF Stock!LookUpVendors
<1>12. ASSUME NEW c \in Callers, Stock!EnrichVendors(c) PROVE StockInv'
  <2> DEFINE next == [call[c] EXCEPT !.pc = "keep", !.row = file, !.at = Stock!CharacterVendors.at]
  <2>1. Stock!CharacterVendors.at \in Nat
    BY <1>6 DEF Stock!Answer
  <2>2. next \in StockCalls /\ next.pc = "keep" /\ next.key = call[c].key /\ next.row = file
    BY <1>1, <2>1 DEF StockCalls
  <2>3. \/ Stock!Goes(c, "location")
        \/ call' = [call EXCEPT ![c] = next] /\ file = version
    BY <1>1, <1>12 DEF Stock!EnrichVendors, Stock!Closed
  <2>4. call[c].key <= version
    BY <1>1, <1>12 DEF Stock!EnrichVendors, RowNamed
  <2> HIDE DEF next
  <2>5. file = version => RowNamed(next)
    BY <1>1, <2>2, <2>4 DEF RowNamed
  <2>6. vendors' \in Stock!Answer \cup {None} /\ (UNCHANGED faults \/ Stock!Fault \/ Stock!QueryFails)
    BY <1>1, <1>6, <1>12 DEF Stock!EnrichVendors, Stock!VendorsFail
  <2> QED
    BY <1>1, <1>5, <1>9, <1>12, <2>2, <2>3, <2>5, <2>6 DEF Stock!EnrichVendors
<1>13. ASSUME NEW c \in Callers, Stock!KeepVendors(c) PROVE StockInv'
  <2> DEFINE entry == [row |-> call[c].row, at |-> call[c].at,
                       expires |-> clock + Stock!UntilReset(call[c].now)]
  <2>1. /\ call[c].key \in 0 .. MaxInstalls /\ call[c].row \in 0 .. MaxInstalls
        /\ call[c].key <= call[c].row /\ call[c].row <= version
        /\ call[c].now \in Nat /\ call[c].at \in Nat
    BY <1>1, <1>13 DEF Stock!KeepVendors, RowNamed, StockCalls
  <2>2. clock + Stock!UntilReset(call[c].now) \in Nat
    <3>1. Stock!UntilReset(call[c].now) \in Nat
      BY <2>1, UntilResetCounts
    <3> QED
      BY <1>1, <3>1
  <2>3. entry \in Stock!Rows /\ entry.row = call[c].row
    BY <2>1, <2>2 DEF Stock!Rows, Stock!FileVersions
  <2>4. /\ rows' = [rows EXCEPT ![call[c].key] = entry] /\ Stock!Frame
        /\ UNCHANGED <<faults, vendors, live>> /\ Stock!Goes(c, "location")
    BY <1>13 DEF Stock!KeepVendors
  <2> HIDE DEF entry
  <2>5. rows' \in [0 .. MaxInstalls -> Stock!Rows \cup {None}] /\ RowsNamed'
    BY <1>1, <2>1, <2>3, <2>4 DEF StockInv, RowsNamed, Stock!Frame
  <2> QED
    BY <1>1, <1>9, <2>4, <2>5, StockStep
<1>14. ASSUME NEW c \in Callers, Stock!GetXurLocation(c) PROVE StockInv'
  <2>1. vendors' \in Stock!Answer \cup {None} /\ (UNCHANGED faults \/ Stock!Fault \/ Stock!QueryFails)
    BY <1>1, <1>6, <1>14 DEF Stock!GetXurLocation, Stock!VendorsFail
  <2> QED
    BY <1>1, <1>5, <1>8, <1>14, <2>1 DEF Stock!GetXurLocation
<1>15. ASSUME NEW c \in Callers, Stock!LiveVendorItemHashes(c) PROVE StockInv'
  BY <1>1, <1>5, <1>8, <1>15 DEF Stock!LiveVendorItemHashes
<1>16. ASSUME NEW c \in Callers, Stock!GetLiveVendorItems(c) PROVE StockInv'
  <2>1. [at |-> Stock!CharacterVendors.at, expires |-> clock + Stock!UntilReset(call[c].now)] \in Stock!Answer
    <3>1. call[c].now \in Nat
      BY <1>1 DEF StockCalls
    <3>2. Stock!UntilReset(call[c].now) \in Nat
      BY <3>1, UntilResetCounts
    <3> QED
      BY <1>1, <1>6, <3>2 DEF Stock!Answer
  <2>2. /\ vendors' \in Stock!Answer \cup {None} /\ live' \in Stock!Answer \cup {None}
        /\ (UNCHANGED faults \/ Stock!Fault \/ Stock!QueryFails)
    BY <1>1, <1>6, <1>16, <2>1 DEF Stock!GetLiveVendorItems, Stock!VendorsFail
  <2> QED
    BY <1>5, <1>7, <1>16, <2>2 DEF Stock!GetLiveVendorItems
<1> QED
  BY <1>2, <1>3, <1>4, <1>10, <1>11, <1>12, <1>13, <1>14, <1>15, <1>16 DEF Stock!Next

\* The types of what the vendors sell, and what the invariant says of the rows.
LEMMA StockShows == StockInv => Stock!TypeOK /\ Stock!RowsNamedByTheirVersion
<1> SUFFICES ASSUME StockInv PROVE Stock!TypeOK /\ Stock!RowsNamedByTheirVersion
  OBVIOUS
<1>1. Stock!TypeOK
  BY DEF Stock!TypeOK, Stock!ManifestTypeOK, Stock!FileVersions, StockInv, StockShape, StockCalls, FileTyped
<1>2. ASSUME rows[version] # None PROVE rows[version].row = version
  <2>1. version \in 0 .. MaxInstalls /\ rows[version] \in Stock!Rows
    BY <1>2 DEF StockInv, StockShape, FileTyped
  <2>2. rows[version].row \in 0 .. MaxInstalls
    BY <2>1 DEF Stock!Rows, Stock!FileVersions
  <2> QED
    BY <1>2, <2>1, <2>2, BoundAssumption DEF StockInv, RowsNamed
<1> QED
  BY <1>1, <1>2 DEF Stock!RowsNamedByTheirVersion, Stock!DailyVendorsCacheKey

-----------------------------------------------------------------------------
(* How long what the vendors sell is told. *)

LEMMA Divides ==
  ASSUME NEW n \in Nat, NEW d \in Nat \ {0}
  PROVE  /\ n \div d \in Int
         /\ n = d * (n \div d) + (n % d)
  OBVIOUS

\* The reset past a time is no later than the reset past a later time.
LEMMA ResetsInOrder ==
  ASSUME NEW t \in Nat, NEW u \in Nat, t <= u
  PROVE  Week!NextDailyReset(t) <= Week!NextDailyReset(u)
<1>1. Day \in Nat \ {0}
  BY WeekAssumption
<1> DEFINE before(x) == (x + Day) \div Day
           into(x) == (x + Day) % Day
<1>2. \A x \in {t, u} : /\ before(x) \in Int /\ into(x) \in 0 .. Day - 1
                        /\ x + Day = Day * before(x) + into(x)
  <2> SUFFICES ASSUME NEW x \in {t, u}
               PROVE  /\ before(x) \in Int /\ into(x) \in 0 .. Day - 1
                      /\ x + Day = Day * before(x) + into(x)
    OBVIOUS
  <2>1. x + Day \in Nat
    BY <1>1
  <2>2. (x + Day) \div Day \in Int /\ x + Day = Day * ((x + Day) \div Day) + ((x + Day) % Day)
    BY <1>1, <2>1, Divides
  <2>3. (x + Day) % Day \in 0 .. Day - 1
    BY <1>1, <2>1, Remainder
  <2> QED
    BY <2>2, <2>3
<1>3. \A x \in {t, u} : Week!NextDailyReset(x) = x + (Day - into(x))
  BY <1>1 DEF Week!NextDailyReset, Week!Following
<1> HIDE DEF before, into
<1>4. \A x \in {t, u} : Week!NextDailyReset(x) = Day * before(x)
  BY <1>1, <1>2, <1>3
<1>5. before(t) <= before(u)
  <2> SUFFICES ASSUME before(u) + 1 <= before(t) PROVE FALSE
    BY <1>2
  <2>1. Day * (before(u) + 1) <= Day * before(t)
    BY <1>1, <1>2
  <2>2. Day * (before(u) + 1) = Day * before(u) + Day
    BY <1>1, <1>2
  <2> QED
    BY <1>1, <1>2, <2>1, <2>2
<1>6. Day * before(t) <= Day * before(u)
  BY <1>1, <1>2, <1>5
<1> QED
  BY <1>4, <1>6

\* The end of what is drawn from an answer given at t: that of what is asked for
\* when the answer is last found.
LastTold(t) == LastEnd(t + Floor - 1)

Told(entry) == entry # None =>
    clock < entry.expires /\ entry.expires <= LastTold(entry.at) + MaxBuild

\* A request read the time no longer ago than it may, and no later than the last
\* time at which the answer it has is found.
ReadInTime(x) ==
    /\ x.pc # "idle" => x.now <= clock /\ clock <= x.now + MaxBuild
    /\ x.pc = "keep" => x.now <= x.at + Floor - 1

StockTimes ==
    /\ vendors # None => clock < vendors.expires /\ vendors.expires = vendors.at + Floor
    /\ Told(live) /\ \A v \in 0 .. MaxInstalls : Told(rows[v])
    /\ \A c \in Callers : ReadInTime(call[c])

\* What is asked for by then ends by the last end.
LEMMA ToldInTime ==
  ASSUME NEW now \in Nat, NEW at \in Nat, now <= at + Floor - 1
  PROVE  /\ Stock!UntilReset(now) \in Nat /\ Stock!UntilReset(now) >= 1
         /\ LastTold(at) \in Nat /\ now + Stock!UntilReset(now) <= LastTold(at)
<1> DEFINE found == at + Floor - 1
<1>1. /\ found \in Nat /\ Floor \in Nat \ {0} /\ Day \in Nat \ {0} /\ 0 \in Nat
      /\ now <= found
  BY WeekAssumption
<1> HIDE DEF found
<1>2. \A t \in Nat : Week!NextDailyReset(t) \in Nat
  BY <1>1, Follows DEF Week!NextDailyReset
<1>3. Stock!NextDailyReset(now) = Week!NextDailyReset(now)
  BY DEF Stock!NextDailyReset, Stock!Following, Week!NextDailyReset, Week!Following
<1>4. Stock!UntilReset(now) = Week!Max({Week!NextDailyReset(now) - now, Floor})
  BY <1>3 DEF Stock!UntilReset, Stock!Max, Week!Max
<1>5. Week!NextDailyReset(now) - now \in Int /\ Week!NextDailyReset(found) \in Int /\ found + Floor \in Int
  BY <1>1, <1>2
<1>6. /\ Stock!UntilReset(now) \in {Week!NextDailyReset(now) - now, Floor}
      /\ Stock!UntilReset(now) >= Floor
  <2> DEFINE reset == Week!NextDailyReset(now) - now
  <2>1. reset \in Int /\ Floor \in Int
    BY <1>1, <1>5
  <2> HIDE DEF reset
  <2>2. Week!Max({reset, Floor}) \in {reset, Floor} /\ Week!Max({reset, Floor}) >= Floor
    BY <2>1, Larger
  <2>3. Stock!UntilReset(now) = Week!Max({reset, Floor})
    BY <1>4 DEF reset
  <2>4. Stock!UntilReset(now) \in {reset, Floor} /\ Stock!UntilReset(now) >= Floor
    BY <2>2, <2>3
  <2> QED
    BY <2>4 DEF reset
<1>7. /\ LastEnd(found) \in {Week!NextDailyReset(found), found + Floor}
      /\ LastEnd(found) >= Week!NextDailyReset(found) /\ LastEnd(found) >= found + Floor
  BY <1>5, Larger DEF LastEnd
<1>8. Week!NextDailyReset(now) <= Week!NextDailyReset(found)
  BY <1>1, ResetsInOrder
<1>9. Stock!UntilReset(now) \in Nat /\ Stock!UntilReset(now) >= 1
  BY <1>1, <1>5, <1>6
<1>10. LastEnd(found) \in Nat /\ now + Stock!UntilReset(now) <= LastEnd(found)
  BY <1>1, <1>2, <1>6, <1>7, <1>8
<1>11. LastTold(at) = LastEnd(found)
  BY DEF LastTold, found
<1> QED
  BY <1>9, <1>10, <1>11

LEMMA StockTimesInit == Stock!Init => StockTimes
<1> SUFFICES ASSUME Stock!Init PROVE StockTimes
  OBVIOUS
<1>1. Stock!NoCall.pc = "idle"
  BY DEF Stock!NoCall
<1>2. \A v \in 0 .. MaxInstalls : rows[v] = None
  BY DEF Stock!Init, Stock!FileVersions
<1> QED
  BY <1>1, <1>2 DEF Stock!Init, StockTimes, Told, ReadInTime

LEMMA StockTimesNext ==
  ASSUME StockInv, StockTimes, Stock!Next
  PROVE  StockTimes'
<1>1. /\ clock \in Nat /\ MaxInstalls \in Nat /\ Floor \in Nat \ {0} /\ MaxBuild \in Nat
      /\ vendors \in Stock!Answer \cup {None}
      /\ DOMAIN rows = 0 .. MaxInstalls
      /\ \A c \in Callers : call[c] \in StockCalls /\ ReadInTime(call[c])
      /\ version \in 0 .. MaxInstalls
  BY BoundAssumption, WeekAssumption DEF StockInv, StockShape, StockTimes, FileTyped
<1>2. CASE Stock!Download /\ UNCHANGED Stock!stockVars
  BY <1>2 DEF Stock!stockVars, StockTimes, Told, ReadInTime, LastTold, LastEnd
<1>3. CASE Stock!OnVersionChanged
  BY <1>3 DEF Stock!OnVersionChanged, Stock!stockVars, StockTimes, Told, ReadInTime, LastTold, LastEnd
<1>4. CASE Stock!Tick
  <2>1. /\ clock' = clock + 1 /\ UNCHANGED call
        /\ vendors' \in {vendors, None} /\ (vendors' # None => clock' < vendors'.expires)
        /\ live' \in {live, None} /\ (live' # None => clock' < live'.expires)
        /\ rows' = [v \in 0 .. MaxInstalls |-> Stock!Kept(rows[v], None, clock')]
    BY <1>4 DEF Stock!Tick, Stock!Kept, Stock!FileVersions
  <2>2. Told(live)'
    BY <2>1 DEF StockTimes, Told, LastTold, LastEnd
  <2>3. ASSUME NEW v \in 0 .. MaxInstalls PROVE Told(rows[v])'
    <3>1. rows'[v] \in {rows[v], None} /\ (rows'[v] # None => clock' < rows'[v].expires)
      BY <2>1 DEF Stock!Kept
    <3> QED
      BY <3>1 DEF StockTimes, Told, LastTold, LastEnd
  <2>4. ASSUME NEW c \in Callers PROVE ReadInTime(call[c])'
    <3>1. call[c].pc # "idle" => clock - call[c].now < MaxBuild
      BY <1>4 DEF Stock!Tick
    <3>2. call[c].now \in Nat
      BY <1>1 DEF StockCalls
    <3> QED
      BY <1>1, <2>1, <3>1, <3>2 DEF ReadInTime
  <2> QED
    BY <2>1, <2>2, <2>3, <2>4 DEF StockTimes
\* The vendors' answer is of less than five minutes ago.
<1>5. /\ Stock!CharacterVendors.at \in Nat /\ clock <= Stock!CharacterVendors.at + Floor - 1
      /\ clock < Stock!CharacterVendors.expires
      /\ Stock!CharacterVendors.expires = Stock!CharacterVendors.at + Floor
  BY <1>1 DEF StockTimes, Stock!CharacterVendors, Stock!Answer
<1>6. ASSUME NEW c \in Callers, NEW next, call' = [call EXCEPT ![c] = next], ReadInTime(next),
             Stock!Frame, vendors' \in {vendors, Stock!CharacterVendors},
             Told(live'), \A v \in 0 .. MaxInstalls : Told(rows'[v])
      PROVE  StockTimes'
  <2>1. UNCHANGED clock
    BY <1>6 DEF Stock!Frame
  <2>2. ASSUME NEW d \in Callers PROVE ReadInTime(call[d])'
    <3>1. call'[d] = IF d = c THEN next ELSE call[d]
      BY <1>6 DEF StockInv, StockShape
    <3> QED
      BY <1>1, <1>6, <2>1, <3>1 DEF ReadInTime
  <2>3. vendors' # None => (clock < vendors.expires /\ vendors.expires = vendors.at + Floor)'
    BY <1>5, <1>6, <2>1 DEF StockTimes
  <2>4. Told(live)' /\ \A v \in 0 .. MaxInstalls : Told(rows[v])'
    BY <1>6, <2>1 DEF Told, LastTold, LastEnd
  <2> QED
    BY <2>2, <2>3, <2>4 DEF StockTimes
\* What is kept of an answer by a request of that time.
<1>7. ASSUME NEW now \in Nat, NEW at \in Nat, now <= at + Floor - 1, clock <= now + MaxBuild
      PROVE  /\ clock < clock + Stock!UntilReset(now)
             /\ clock + Stock!UntilReset(now) <= LastTold(at) + MaxBuild
  <2>1. /\ Stock!UntilReset(now) \in Nat /\ Stock!UntilReset(now) >= 1
        /\ LastTold(at) \in Nat /\ now + Stock!UntilReset(now) <= LastTold(at)
    BY <1>7, ToldInTime
  <2> QED
    BY <1>1, <1>7, <2>1
<1>8. ReadInTime(Stock!NoCall)
  BY DEF Stock!NoCall, ReadInTime
<1>9. ASSUME NEW pc \in {"vendors", "live"}
      PROVE  ReadInTime([Stock!NoCall EXCEPT !.pc = pc, !.now = clock])
  BY <1>1 DEF ReadInTime, Stock!NoCall
<1>10. ASSUME NEW c \in Callers, NEW pc \in {"enrich", "location"}, call[c].pc # "idle", NEW key
       PROVE  /\ ReadInTime([call[c] EXCEPT !.pc = pc])
              /\ ReadInTime([call[c] EXCEPT !.pc = pc, !.key = key])
  BY <1>1, <1>10 DEF ReadInTime, StockCalls
<1>11. Told(live) /\ \A v \in 0 .. MaxInstalls : Told(rows[v])
  BY DEF StockTimes
<1>12. ASSUME NEW c \in Callers, Stock!GetWeekly(c) \/ Stock!LiveVendorItemHashes(c) PROVE StockTimes'
  BY <1>6, <1>9, <1>11, <1>12 DEF Stock!GetWeekly, Stock!LiveVendorItemHashes
<1>13. ASSUME NEW c \in Callers, Stock!LookUpVendors(c) PROVE StockTimes'
  <2>1. \/ call' = [call EXCEPT ![c] = [call[c] EXCEPT !.pc = "location"]]
        \/ call' = [call EXCEPT ![c] = [call[c] EXCEPT !.pc = "enrich", !.key = version]]
    BY <1>13 DEF Stock!LookUpVendors, Stock!DailyVendorsCacheKey, Stock!Goes
  <2>2. call[c].pc # "idle" /\ Stock!Frame /\ UNCHANGED <<vendors, live, rows>>
    BY <1>13 DEF Stock!LookUpVendors
  <2> QED
    BY <1>6, <1>10, <1>11, <2>1, <2>2
<1>14. ASSUME NEW c \in Callers, Stock!EnrichVendors(c) PROVE StockTimes'
  <2> DEFINE next == [call[c] EXCEPT !.pc = "keep", !.row = file, !.at = Stock!CharacterVendors.at]
  <2>1. \/ call' = [call EXCEPT ![c] = [call[c] EXCEPT !.pc = "location"]]
        \/ call' = [call EXCEPT ![c] = next]
    BY <1>14 DEF Stock!EnrichVendors, Stock!Goes
  <2>2. /\ call[c].pc # "idle" /\ Stock!Frame /\ UNCHANGED <<live, rows>>
        /\ vendors' \in {vendors, Stock!CharacterVendors}
    BY <1>14 DEF Stock!EnrichVendors
  <2>3. next.pc = "keep" /\ next.now = call[c].now /\ next.at = Stock!CharacterVendors.at
    BY <1>1 DEF StockCalls
  <2>4. /\ call[c].now \in Nat
        /\ call[c].now <= clock /\ clock <= call[c].now + MaxBuild
    BY <1>1, <2>2 DEF ReadInTime, StockCalls
  <2> HIDE DEF next
  <2>5. ReadInTime(next)
    BY <1>1, <1>5, <2>3, <2>4 DEF ReadInTime
  <2> QED
    BY <1>6, <1>10, <1>11, <2>1, <2>2, <2>5
<1>15. ASSUME NEW c \in Callers, Stock!KeepVendors(c) PROVE StockTimes'
  <2> DEFINE entry == [row |-> call[c].row, at |-> call[c].at,
                       expires |-> clock + Stock!UntilReset(call[c].now)]
  <2>1. /\ call' = [call EXCEPT ![c] = [call[c] EXCEPT !.pc = "location"]]
        /\ call[c].pc = "keep" /\ Stock!Frame /\ UNCHANGED <<vendors, live>>
        /\ rows' = [rows EXCEPT ![call[c].key] = entry]
    BY <1>15 DEF Stock!KeepVendors, Stock!Goes
  <2>2. /\ call[c].now \in Nat /\ call[c].at \in Nat
        /\ call[c].now <= call[c].at + Floor - 1 /\ clock <= call[c].now + MaxBuild
    BY <1>1, <2>1 DEF ReadInTime, StockCalls
  <2>3. Told(entry)
    BY <1>7, <2>2 DEF Told
  <2> HIDE DEF entry
  <2>4. \A v \in 0 .. MaxInstalls : rows'[v] \in {rows[v], entry}
    BY <1>1, <2>1
  <2>5. \A v \in 0 .. MaxInstalls : Told(rows'[v])
    BY <1>11, <2>3, <2>4
  <2> QED
    BY <1>6, <1>10, <1>11, <2>1, <2>5
<1>16. ASSUME NEW c \in Callers, Stock!GetXurLocation(c) PROVE StockTimes'
  <2>1. vendors' \in {vendors, Stock!CharacterVendors}
    BY <1>16 DEF Stock!GetXurLocation
  <2> QED
    BY <1>6, <1>9, <1>11, <1>16, <2>1 DEF Stock!GetXurLocation
<1>17. ASSUME NEW c \in Callers, Stock!GetLiveVendorItems(c) PROVE StockTimes'
  <2> DEFINE entry == [at |-> Stock!CharacterVendors.at, expires |-> clock + Stock!UntilReset(call[c].now)]
  <2>1. /\ call' = [call EXCEPT ![c] = Stock!NoCall]
        /\ call[c].pc = "live" /\ Stock!Frame /\ UNCHANGED rows
        /\ vendors' \in {vendors, Stock!CharacterVendors} /\ live' \in {live, entry}
    BY <1>17 DEF Stock!GetLiveVendorItems
  <2>2. /\ call[c].now \in Nat /\ call[c].now <= clock /\ clock <= call[c].now + MaxBuild
    BY <1>1, <2>1 DEF ReadInTime, StockCalls
  <2>3. call[c].now <= Stock!CharacterVendors.at + Floor - 1
    BY <1>1, <1>5, <2>2
  <2>4. Told(entry)
    BY <1>5, <1>7, <2>2, <2>3 DEF Told
  <2> QED
    BY <1>6, <1>8, <1>11, <2>1, <2>4
<1> QED
  BY <1>2, <1>3, <1>4, <1>12, <1>13, <1>14, <1>15, <1>16, <1>17 DEF Stock!Next

LEMMA TimesShow == StockInv /\ StockTimes => Stock!StockEndsAtEvent
<1> SUFFICES ASSUME StockInv, StockTimes, NEW entry \in {live} \cup {rows[v] : v \in 0 .. MaxInstalls},
                    entry # None
             PROVE  clock < Stock!Max({Stock!NextDailyReset(entry.at + Floor - 1),
                                       entry.at + Floor - 1 + Floor}) + MaxBuild
  BY DEF Stock!StockEndsAtEvent, Stock!FileVersions
<1>1. /\ clock \in Nat /\ Floor \in Nat \ {0} /\ MaxBuild \in Nat
      /\ entry.at \in Nat /\ entry.expires \in Nat /\ Told(entry)
  BY WeekAssumption DEF StockInv, StockShape, StockTimes, Stock!Answer, Stock!Rows
<1>2. LastTold(entry.at) = Stock!Max({Stock!NextDailyReset(entry.at + Floor - 1),
                                      entry.at + Floor - 1 + Floor})
  BY DEF LastTold, LastEnd, Stock!Max, Week!Max, Stock!NextDailyReset, Stock!Following,
         Week!NextDailyReset, Week!Following
<1>3. LastTold(entry.at) \in Nat
  <2>1. 0 \in Nat /\ 0 <= entry.at + Floor - 1
    BY <1>1
  <2> QED
    BY <1>1, <2>1, ToldInTime
<1> QED
  BY <1>1, <1>2, <1>3 DEF Told

-----------------------------------------------------------------------------
(* The types of the profile's records. *)

\* A load was asked for, and has fetched, after some of the refreshes there may be.
LoadTyped(x) ==
    /\ x.key # None => x.key.refresh <= MaxRefreshes
    /\ x.result # None => x.result <= MaxRefreshes

\* Only a caller that waits has a load.
Waits(x) == x.pc # "waiting" => x.flight = None

ProfilesTyped ==
    /\ refresh[Profiles!player] <= MaxRefreshes
    /\ cache # None => cache.fetched <= MaxRefreshes
    /\ \A f \in Flights : LoadTyped(flight[f])
    /\ \A c \in Callers : Waits(call[c])

LEMMA FreeTyped == LoadTyped(Profiles!Free) /\ Waits(Profiles!NoCall)
  BY DEF Profiles!Free, Profiles!NoCall, LoadTyped, Waits

LEMMA ProfilesTypedInit == Profiles!Init => ProfilesTyped
<1> SUFFICES ASSUME Profiles!Init PROVE ProfilesTyped
  OBVIOUS
<1>1. (\A f \in Flights : LoadTyped(flight[f])) /\ \A c \in Callers : Waits(call[c])
  BY FreeTyped DEF Profiles!Init
<1> QED
  BY <1>1, ThePlayer, BoundAssumption DEF Profiles!Init, Profiles!NewRefreshFence, ProfilesTyped

LEMMA ProfilesTypedNext ==
  ASSUME ProfilesInv, ProfilesTyped, Profiles!Next
  PROVE  ProfilesTyped'
<1>1. /\ refresh \in [Members -> Nat] /\ Profiles!player \in Members /\ refresh[Profiles!player] \in Nat
      /\ refresh[Profiles!player] <= MaxRefreshes /\ MaxRefreshes \in Nat
      /\ cache \in Entry \cup {None} /\ (cache # None => cache.fetched <= MaxRefreshes)
      /\ flight \in [Flights -> ProfileLoads] /\ call \in [Callers -> ProfileCalls]
      /\ \A f \in Flights : flight[f] \in ProfileLoads /\ Loads(flight[f]) /\ LoadTyped(flight[f])
      /\ \A c \in Callers : call[c] \in ProfileCalls /\ Asked(call[c]) /\ Shares(call[c]) /\ Waits(call[c])
  BY ThePlayer, BoundAssumption DEF ProfilesInv, ProfilesShape, ProfilesTyped
\* The cache.
<1>2. CASE Profiles!Expire \/ Profiles!CleanUp
  <2>1. cache' # None => cache'.fetched <= MaxRefreshes
    BY <1>1, <1>2 DEF Profiles!Expire, Profiles!CleanUp, Profiles!Hit, Entry
  <2> QED
    BY <1>2, <2>1 DEF Profiles!Expire, Profiles!CleanUp, ProfilesTyped, LoadTyped, Waits
<1>3. CASE Profiles!InvalidateCache
  <2>1. refresh'[Profiles!player] <= MaxRefreshes
    BY <1>1, <1>3 DEF Profiles!InvalidateCache, Profiles!Refreshed
  <2> QED
    BY <1>3, <2>1 DEF Profiles!InvalidateCache, ProfilesTyped, LoadTyped, Waits
\* The rest change none of the refreshes.
<1>4. ASSUME UNCHANGED refresh, cache' \in {cache, None},
             \A f \in Flights : LoadTyped(flight'[f]), \A c \in Callers : Waits(call'[c])
      PROVE  ProfilesTyped'
  BY <1>1, <1>4 DEF ProfilesTyped, LoadTyped, Waits
<1>5. ASSUME NEW c \in Callers, NEW next, Waits(next), call' = [call EXCEPT ![c] = next]
      PROVE  \A d \in Callers : Waits(call'[d])
  BY <1>1, <1>5
<1>6. ASSUME NEW f \in Flights, NEW next, LoadTyped(next), flight' = [flight EXCEPT ![f] = next]
      PROVE  \A g \in Flights : LoadTyped(flight'[g])
  BY <1>1, <1>6
<1>7. ASSUME NEW flights, NEW calls, \A f \in Flights : LoadTyped(flights[f])
      PROVE  \A f \in Flights : LoadTyped(Profiles!Freed(flights, calls)[f])
  BY <1>7, FreeTyped DEF Profiles!Freed
\* Callers.
<1>8. ASSUME NEW c \in Callers, NEW credential, Profiles!GetProfileRecords(c, credential) PROVE ProfilesTyped'
  <2> DEFINE next == [Profiles!NoCall EXCEPT !.pc = "lookup",
                         !.key = [refresh |-> Profiles!BeginRefresh(refresh, Profiles!player),
                                  credential |-> credential]]
  <2>1. Waits(next)
    BY DEF Profiles!NoCall, Waits
  <2>2. call' = [call EXCEPT ![c] = next] /\ UNCHANGED <<cache, refresh, flight>>
    BY <1>8 DEF Profiles!GetProfileRecords, Profiles!Goes
  <2> HIDE DEF next
  <2> QED
    BY <1>1, <1>4, <1>5, <2>1, <2>2
<1>9. ASSUME NEW c \in Callers, Profiles!LookUp(c) \/ Profiles!Drop(c) \/ Profiles!GiveUp(c)
      PROVE  ProfilesTyped'
  <2> DEFINE at(pc) == [call[c] EXCEPT !.pc = pc]
             hit == [Profiles!NoCall EXCEPT !.pc = "answered", !.answer = cache.fetched, !.key = call[c].key]
  <2>1. call[c].flight = None /\ call[c] \in ProfileCalls
    BY <1>1, <1>9 DEF Profiles!LookUp, Profiles!Drop, Profiles!GiveUp, Waits
  <2>2. Waits(hit) /\ \A pc \in {"drop", "join"} : Waits(at(pc))
    BY <2>1 DEF Profiles!NoCall, Waits, ProfileCalls
  <2>3. \E next \in {hit, at("drop"), at("join"), Profiles!NoCall} : call' = [call EXCEPT ![c] = next]
    BY <1>9 DEF Profiles!LookUp, Profiles!Drop, Profiles!GiveUp, Profiles!Returns, Profiles!Goes
  <2>4. cache' \in {cache, None} /\ UNCHANGED <<refresh, flight>>
    BY <1>9 DEF Profiles!LookUp, Profiles!Drop, Profiles!GiveUp, Profiles!Dropped
  <2> HIDE DEF at, hit
  <2> QED
    BY <1>1, <1>4, <1>5, <2>2, <2>3, <2>4, FreeTyped
<1>10. ASSUME NEW c \in Callers, Profiles!Join(c) PROVE ProfilesTyped'
  <2>1. call[c].pc = "join" /\ call[c].key.refresh <= MaxRefreshes /\ UNCHANGED <<cache, refresh>>
    <3>1. call[c].pc = "join" /\ UNCHANGED <<cache, refresh>>
      BY <1>10 DEF Profiles!Join
    <3>2. call[c].key \in ProfileKeys /\ call[c].key.refresh <= refresh[Profiles!player]
      BY <1>1, <3>1 DEF Asked
    <3> QED
      BY <1>1, <3>1, <3>2 DEF ProfileKeys
  <2>2. PICK f \in Flights :
           /\ Profiles!Waits(c, f)
           /\ \/ flight' = [flight EXCEPT ![f].waiters = @ + 1]
              \/ flight' = [flight EXCEPT ![f] = [Profiles!Free EXCEPT !.pc = "lookup",
                                                         !.key = call[c].key, !.waiters = 1]]
    BY <1>10 DEF Profiles!Join, Profiles!Found, ProfilesInv, ProfilesShape
  <2> DEFINE next == [call[c] EXCEPT !.pc = "waiting", !.flight = f]
             joined == [flight[f] EXCEPT !.waiters = @ + 1]
             begun == [Profiles!Free EXCEPT !.pc = "lookup", !.key = call[c].key, !.waiters = 1]
  <2>3. Waits(next) /\ call' = [call EXCEPT ![c] = next]
    BY <1>1, <2>2 DEF Profiles!Waits, Profiles!Goes, Waits, ProfileCalls
  <2>4. LoadTyped(joined)
    <3>1. joined.key = flight[f].key /\ joined.result = flight[f].result
      BY <1>1 DEF ProfileLoads
    <3> HIDE DEF joined
    <3> QED
      BY <1>1, <3>1 DEF LoadTyped
  <2>5. LoadTyped(begun)
    <3>1. begun.key = call[c].key /\ begun.result = None
      BY DEF Profiles!Free
    <3> HIDE DEF begun
    <3> QED
      BY <2>1, <3>1 DEF LoadTyped
  <2>6. flight' = [flight EXCEPT ![f] = joined] \/ flight' = [flight EXCEPT ![f] = begun]
    BY <2>2
  <2> HIDE DEF next, joined, begun
  <2>7. \A g \in Flights : LoadTyped(flight'[g])
    BY <1>6, <2>4, <2>5, <2>6
  <2> QED
    BY <1>4, <1>5, <2>1, <2>3, <2>7
<1>11. ASSUME NEW c \in Callers, Profiles!Answered(c) PROVE ProfilesTyped'
  <2> DEFINE next == [Profiles!NoCall EXCEPT !.pc = "answered", !.answer = flight[call[c].flight].result,
                                             !.key = call[c].key]
  <2>1. Waits(next)
    BY DEF Profiles!NoCall, Waits
  <2>2. call' = [call EXCEPT ![c] = next] /\ flight' = Profiles!Freed(flight, call') /\ UNCHANGED <<cache, refresh>>
    BY <1>11 DEF Profiles!Answered, Profiles!Returns, Profiles!Goes
  <2> HIDE DEF next
  <2> QED
    BY <1>1, <1>4, <1>5, <1>7, <2>1, <2>2
<1>12. ASSUME NEW c \in Callers, Profiles!Leave(c) PROVE ProfilesTyped'
  <2> DEFINE f == call[c].flight
             next == [flight[f] EXCEPT !.waiters = @ - 1,
                                       !.ctx = IF flight[f].waiters = 1 /\ @ = "live" THEN "cancelled" ELSE @]
  <2>1. f \in Flights /\ call' = [call EXCEPT ![c] = Profiles!NoCall] /\ UNCHANGED <<cache, refresh>>
    BY <1>1, <1>12 DEF Profiles!Leave, Profiles!Departs, Profiles!Goes, Shares
  <2>2. next.key = flight[f].key /\ next.result = flight[f].result
    <3>1. flight[f] \in ProfileLoads
      BY <1>1, <2>1
    <3> HIDE DEF f
    <3> QED
      BY <3>1 DEF ProfileLoads
  <2>3. flight' = [flight EXCEPT ![f] = next]
    BY <1>12, <2>1 DEF Profiles!Leave, Profiles!Departs, ProfilesInv, ProfilesShape
  <2> HIDE DEF f, next
  <2>4. LoadTyped(next)
    BY <1>1, <2>1, <2>2 DEF LoadTyped
  <2> QED
    BY <1>4, <1>5, <1>6, <2>1, <2>3, <2>4, FreeTyped
\* Loads.
<1>13. ASSUME NEW f \in Flights, Profiles!Deadline(f) PROVE ProfilesTyped'
  <2> DEFINE late == [flight[f] EXCEPT !.ctx = "deadline"]
  <2>1. late.key = flight[f].key /\ late.result = flight[f].result
    BY <1>1 DEF ProfileLoads
  <2>2. flight' = [flight EXCEPT ![f] = late] /\ UNCHANGED <<cache, refresh, call>>
    BY <1>13 DEF Profiles!Deadline, Profiles!Becomes
  <2> HIDE DEF late
  <2>3. LoadTyped(late)
    BY <1>1, <2>1 DEF LoadTyped
  <2> QED
    BY <1>1, <1>4, <1>6, <2>2, <2>3
<1>14. ASSUME NEW f \in Flights, NEW pc \in {"finish", "drop", "fetch", "publish"}, NEW result,
              result # None => result <= MaxRefreshes, Profiles!BecomesAt(f, pc, result)
       PROVE  \A g \in Flights : LoadTyped(flight'[g])
  <2> DEFINE next == [flight[f] EXCEPT !.pc = pc, !.result = result]
  <2>1. next.key = flight[f].key /\ next.result = result /\ flight' = [flight EXCEPT ![f] = next]
    BY <1>1, <1>14 DEF Profiles!BecomesAt, Profiles!Becomes, ProfileLoads
  <2> HIDE DEF next
  <2>2. LoadTyped(next)
    BY <1>1, <1>14, <2>1 DEF LoadTyped
  <2> QED
    BY <1>6, <2>1, <2>2
<1>15. ASSUME NEW f \in Flights,
              Profiles!Recheck(f) \/ Profiles!DropStale(f) \/ Profiles!Fetch(f) \/ Profiles!FetchFails(f)
       PROVE  ProfilesTyped'
  <2>1. cache' \in {cache, None} /\ UNCHANGED <<refresh, call>>
    BY <1>15 DEF Profiles!Recheck, Profiles!DropStale, Profiles!Fetch, Profiles!FetchFails, Profiles!Dropped
  <2>2. \E pc \in {"finish", "drop", "fetch", "publish"} : \E result :
           Profiles!BecomesAt(f, pc, result) /\ (result # None => result <= MaxRefreshes)
    BY <1>1, <1>15 DEF Profiles!Recheck, Profiles!DropStale, Profiles!Fetch, Profiles!FetchFails, Profiles!Hit
  <2> QED
    BY <1>1, <1>4, <1>14, <2>1, <2>2
<1>16. ASSUME NEW f \in Flights, Profiles!Publish(f) PROVE ProfilesTyped'
  <2>1. UNCHANGED <<refresh, call>> /\ Profiles!BecomesAt(f, "finish", flight[f].result)
    BY <1>16 DEF Profiles!Publish
  <2>2. flight[f].result # None /\ flight[f].result <= MaxRefreshes
    BY <1>1, <1>16 DEF Profiles!Publish, Loads, LoadTyped
  <2>3. \A g \in Flights : LoadTyped(flight'[g])
    BY <1>14, <2>1, <2>2
  <2>4. cache' # None => cache'.fetched <= MaxRefreshes
    BY <1>1, <1>16, <2>2 DEF Profiles!Publish
  <2> QED
    BY <1>1, <2>1, <2>3, <2>4 DEF ProfilesTyped, LoadTyped, Waits
<1>17. ASSUME NEW f \in Flights, Profiles!Finish(f) PROVE ProfilesTyped'
  <2> DEFINE next == [flight[f] EXCEPT !.pc = "exited",
                                       !.result = IF flight[f].ctx = "live" THEN @ ELSE None]
             flights == [flight EXCEPT ![f] = next]
  <2>1. next.key = flight[f].key /\ next.result \in {flight[f].result, None}
    BY <1>1 DEF ProfileLoads
  <2>2. flights = [flight EXCEPT ![f].pc = "exited",
                                 ![f].result = IF flight[f].ctx = "live" THEN @ ELSE None]
    BY <1>1
  <2>3. flight' = Profiles!Freed(flights, call) /\ UNCHANGED <<cache, refresh, call>>
    BY <1>17, <2>2 DEF Profiles!Finish
  <2> HIDE DEF next
  <2>4. LoadTyped(next)
    BY <1>1, <2>1 DEF LoadTyped
  <2>5. \A g \in Flights : LoadTyped(flights[g])
    BY <1>1, <2>4
  <2> HIDE DEF flights
  <2> QED
    BY <1>1, <1>4, <1>7, <2>3, <2>5
<1> QED
  BY <1>2, <1>3, <1>8, <1>9, <1>10, <1>11, <1>12, <1>13, <1>15, <1>16, <1>17 DEF Profiles!Next

\* The types of the profile's records, as they are told.
LEMMA ProfilesTypes == ProfilesInv /\ ProfilesTyped => Profiles!TypeOK
<1> SUFFICES ASSUME ProfilesInv, ProfilesTyped PROVE Profiles!TypeOK
  OBVIOUS
<1>1. /\ refresh[Profiles!player] \in 0 .. MaxRefreshes
      /\ cache \in [fetched: 0 .. MaxRefreshes, expired: BOOLEAN] \cup {None}
  BY ThePlayer, BoundAssumption DEF ProfilesInv, ProfilesShape, ProfilesTyped, Entry
<1>2. ASSUME NEW f \in registry
      PROVE  flight[f].pc \in {"lookup", "drop", "fetch", "publish", "finish"}
  BY DEF ProfilesInv, ProfilesShape, ProfileLoads
<1>3. ASSUME NEW f \in Flights
      PROVE  flight[f].key \in Profiles!Keys \cup {None} /\ flight[f].result \in (0 .. MaxRefreshes) \cup {None}
  <2>1. flight[f] \in ProfileLoads /\ LoadTyped(flight[f])
    BY DEF ProfilesInv, ProfilesShape, ProfilesTyped
  <2> QED
    BY <2>1, BoundAssumption DEF ProfileLoads, ProfileKeys, LoadTyped, Profiles!Keys
<1>4. ASSUME NEW c \in Callers PROVE call[c].pc = "waiting" <=> call[c].flight \in Flights
  <2>1. Shares(call[c]) /\ Waits(call[c])
    BY DEF ProfilesInv, ProfilesTyped
  <2> QED
    BY <2>1, NoneAssumption DEF Shares, Waits
<1> QED
  BY <1>1, <1>2, <1>3, <1>4 DEF Profiles!TypeOK

-----------------------------------------------------------------------------
(* The types of the facts of items. *)

\* The bounded caches hold no more than they may.
Bounded(c) == c \in [Hashes -> Items!Cached] /\ Cardinality(Items!Entries(c)) <= MaxEntries

ItemsTyped == installs \in 0 .. MaxItemInstalls /\ Bounded(facts) /\ Bounded(perks)

LEMMA NothingBounded == Bounded(Items!Nothing)
<1>1. Items!Nothing \in [Hashes -> Items!Cached] /\ Items!Entries(Items!Nothing) = {}
  BY DEF Items!Nothing, Items!Entries, Items!Cached
<1> QED
  BY <1>1, FS_EmptySet, ItemsAssumption DEF Bounded

\* What is kept of a cache and a batch is no more than the cache may hold.
LEMMA StoredBounded ==
  ASSUME NEW cached \in [Hashes -> Items!Cached], NEW got \in [Hashes -> Items!Cached],
         NEW batch \in SUBSET Hashes, NEW after \in Items!Stored(cached, got, batch)
  PROVE  Bounded(after)
<1> DEFINE all == Items!Entries(cached) \cup batch
<1>1. PICK kept \in Items!kSubset(Items!Min({Items!Cardinality(all), MaxEntries}), all) :
         after = [h \in Hashes |-> IF h \notin kept THEN None
                                   ELSE IF h \in batch THEN got[h] ELSE cached[h]]
  BY DEF Items!Stored
<1>2. all \in SUBSET Hashes
  BY DEF Items!Entries
<1>3. IsFiniteSet(all) /\ Cardinality(all) \in Nat
  BY <1>2, ItemsAssumption, FS_Subset, FS_CardinalityType
<1>4. Items!Cardinality(all) = Cardinality(all) /\ Items!Cardinality(kept) = Cardinality(kept)
  BY DEF Items!Cardinality, Cardinality
<1> HIDE DEF all
<1>5. Items!Min({Cardinality(all), MaxEntries}) <= MaxEntries
  <2>1. \E x \in {Cardinality(all), MaxEntries} : \A y \in {Cardinality(all), MaxEntries} : x <= y
    BY <1>3, ItemsAssumption
  <2> QED
    BY <2>1 DEF Items!Min
<1>6. kept \in SUBSET all /\ Cardinality(kept) <= MaxEntries
  BY <1>1, <1>4, <1>5 DEF Items!kSubset
<1>7. Items!Entries(after) \in SUBSET kept
  BY <1>1 DEF Items!Entries
<1>8. Cardinality(Items!Entries(after)) <= Cardinality(kept) /\ Cardinality(kept) \in Nat
      /\ Cardinality(Items!Entries(after)) \in Nat
  BY <1>3, <1>6, <1>7, FS_Subset, FS_CardinalityType
<1>9. Cardinality(Items!Entries(after)) <= MaxEntries
  BY <1>6, <1>8, ItemsAssumption
<1> QED
  BY <1>9, StoredAtMost DEF Bounded

LEMMA ItemsTypedInit == Items!Init => ItemsTyped
  BY NothingBounded, BoundAssumption DEF Items!Init, ItemsTyped

LEMMA ItemsTypedNext ==
  ASSUME ItemsInv, ItemsTyped, Items!Next
  PROVE  ItemsTyped'
<1>1. /\ installs \in 0 .. MaxItemInstalls /\ Bounded(facts) /\ Bounded(perks)
      /\ facts \in [Hashes -> Items!Cached] /\ perks \in [Hashes -> Items!Cached]
      /\ \A c \in Callers : caller[c].got \in [Hashes -> Items!Cached] /\ caller[c].batch \in SUBSET Hashes
  BY DEF ItemsInv, ItemsShape, ItemCalls, ItemsTyped, Bounded
<1>2. ASSUME installs' \in 0 .. MaxItemInstalls, Bounded(facts'), Bounded(perks') PROVE ItemsTyped'
  <2>1. ASSUME NEW c PROVE Items!Entries(c)' = Items!Entries(c') /\ Items!Cached' = Items!Cached
    BY DEF Items!Entries, Items!Cached
  <2> QED
    BY <1>2 DEF ItemsTyped, Bounded, Items!Entries, Items!Cached
<1>3. ASSUME NEW v, Items!Install(v) PROVE ItemsTyped'
  BY <1>1, <1>2, <1>3, BoundAssumption DEF Items!Install
<1>4. CASE Items!OnVersionChanged
  BY <1>1, <1>2, <1>4, NothingBounded DEF Items!OnVersionChanged
<1>5. ASSUME NEW c \in Callers, Items!StoreFacts(c) PROVE ItemsTyped'
  <2>1. facts' = facts \/ facts' \in Items!Stored(facts, caller[c].got, caller[c].batch)
    BY <1>5 DEF Items!StoreFacts
  <2>2. Bounded(facts')
    BY <1>1, <2>1, StoredBounded
  <2> QED
    BY <1>1, <1>2, <1>5, <2>2 DEF Items!StoreFacts, Items!manifestVars
<1>6. ASSUME NEW c \in Callers, Items!StorePerks(c) PROVE ItemsTyped'
  <2>1. Bounded(perks')
    BY <1>1, <1>6, StoredBounded DEF Items!StorePerks
  <2> QED
    BY <1>1, <1>2, <1>6, <2>1 DEF Items!StorePerks, Items!manifestVars
<1>7. ASSUME UNCHANGED <<installs, facts, perks>> PROVE ItemsTyped'
  BY <1>1, <1>2, <1>7
<1> QED
  BY <1>3, <1>4, <1>5, <1>6, <1>7
  DEF Items!Next, Items!StartLookup, Items!Scan, Items!Query, Items!Answer, Items!StartPerks,
      Items!QueryPerks, Items!Fail, Items!manifestVars

\* The types of the facts of items, as they are told.
LEMMA ItemsTypes == ItemsInv /\ ItemsTyped => Items!TypeOK
<1> SUFFICES ASSUME ItemsInv, ItemsTyped PROVE Items!TypeOK
  OBVIOUS
<1>1. \A S : Items!Cardinality(S) = Cardinality(S)
  BY DEF Items!Cardinality, Cardinality
<1> QED
  BY <1>1 DEF Items!TypeOK, ItemsInv, ItemsShape, ItemsTyped, Bounded, ItemCalls

-----------------------------------------------------------------------------
(* The types of the owned rolls. *)

ReadingTyped(r) ==
    /\ r.pc \in {"idle", "profile", "copies", "error", "answered"}
    /\ r.pools \in [Weapons -> (0 .. MaxInstalls) \cup {None}]
    /\ \A m \in r.matches : m.target \in Targets /\ m.copy \in DOMAIN Copies
    /\ \A u \in r.unmatched : u.target \in Targets /\ u.near \in DOMAIN Copies \cup {None}

ArmsTyped == FileTyped(MaxInstalls) /\ ReadingTyped(reading)

\* Of some numbers there is a least.
LEMMA LeastOf ==
  ASSUME NEW S \in SUBSET Nat, S # {}
  PROVE  \E x \in S : \A y \in S : x <= y
<1>1. PICK x \in S : \A y \in S : <<y, x>> \notin OpToRel(<, Nat)
  BY WFMin, NatLessThanWellFounded
<1>2. \A y \in S : ~(y < x)
  BY <1>1 DEF OpToRel
<1> QED
  BY <1>2

\* Of the first places some have the best score.
LEMMA BestOf ==
  ASSUME NEW n \in Nat, NEW near \in SUBSET (1 .. n), near # {},
         NEW score, \A i \in near : score[i] \in Int
  PROVE  \E i \in near : \A j \in near : score[j] <= score[i]
<1> DEFINE first(k) == near \cap (1 .. k)
           S == {k \in Nat : first(k) # {} => \E i \in first(k) : \A j \in first(k) : score[j] <= score[i]}
<1>1. 0 \in S
  OBVIOUS
<1>2. ASSUME NEW k \in Nat, k \in S PROVE k + 1 \in S
  <2>1. first(k + 1) = IF k + 1 \in near THEN first(k) \cup {k + 1} ELSE first(k)
    <3>1. \A x \in Int : x \in 1 .. k + 1 <=> x \in 1 .. k \/ x = k + 1
      OBVIOUS
    <3>2. \A x \in near : x \in Int
      OBVIOUS
    <3> QED
      BY <3>1, <3>2
  <2>2. first(k) \subseteq near
    OBVIOUS
  <2>3. first(k) # {} => \E i \in first(k) : \A j \in first(k) : score[j] <= score[i]
    BY <1>2
  <2> HIDE DEF first
  <2>4. first(k + 1) # {} => \E i \in first(k + 1) : \A j \in first(k + 1) : score[j] <= score[i]
    <3>1. CASE k + 1 \notin near
      BY <2>1, <2>3, <3>1
    <3>2. CASE k + 1 \in near /\ first(k) = {}
      BY <2>1, <3>2
    <3>3. CASE k + 1 \in near /\ first(k) # {}
      <4>1. PICK i \in first(k) : \A j \in first(k) : score[j] <= score[i]
        BY <2>3, <3>3
      <4>2. CASE score[k + 1] <= score[i]
        BY <2>1, <3>3, <4>1, <4>2
      <4>3. CASE ~(score[k + 1] <= score[i])
        <5>1. score[i] \in Int /\ score[k + 1] \in Int /\ \A j \in first(k) : score[j] \in Int
          BY <2>2, <3>3
        <5>2. \A j \in first(k) \cup {k + 1} : score[j] <= score[k + 1]
          BY <4>1, <4>3, <5>1
        <5> QED
          BY <2>1, <3>3, <5>2
      <4> QED
        BY <4>2, <4>3
    <3> QED
      BY <3>1, <3>2, <3>3
  <2> QED
    BY <2>4
<1>3. n \in S
  <2> HIDE DEF S
  <2> QED
    BY <1>1, <1>2, Induction
<1> QED
  BY <1>3

\* The nearest of some rolls is a copy.
LEMMA NearestIsACopy ==
  ASSUME NEW n \in Nat, NEW rolls, DOMAIN rolls = 1 .. n,
         \A i \in DOMAIN rolls : rolls[i].copy \in DOMAIN Copies, NEW target
  PROVE  Arms!NearMiss(rolls, target) \in DOMAIN Copies \cup {None}
<1> DEFINE near == {i \in DOMAIN rolls : Arms!Applies(target, rolls[i]) /\ Arms!IsNearMiss(rolls[i], target)}
           score == [i \in DOMAIN rolls |-> Arms!Score(rolls[i], target)]
           best == {i \in near : \A j \in near : Arms!Score(rolls[j], target) <= Arms!Score(rolls[i], target)}
<1>1. \A i \in near : score[i] \in Int /\ score[i] = Arms!Score(rolls[i], target)
  BY DEF Arms!IsNearMiss
<1>2. near \in SUBSET (1 .. n)
  OBVIOUS
<1>3. CASE near # {}
  <2>1. best # {}
    <3> HIDE DEF near, score
    <3>1. PICK i \in near : \A j \in near : score[j] <= score[i]
      BY <1>1, <1>2, <1>3, BestOf
    <3>2. \A j \in near : Arms!Score(rolls[j], target) <= Arms!Score(rolls[i], target)
      BY <1>1, <3>1
    <3> QED
      BY <3>2
  <2>2. best \subseteq near /\ best \in SUBSET Nat
    BY <1>2
  <2>3. \E i \in best : \A j \in best : i <= j
    <3> HIDE DEF best
    <3> QED
      BY <2>1, <2>2, LeastOf
  <2>4. (CHOOSE i \in best : \A j \in best : i <= j) \in DOMAIN rolls
    <3> HIDE DEF best
    <3>1. (CHOOSE i \in best : \A j \in best : i <= j) \in best
      BY <2>3
    <3> QED
      BY <1>2, <2>2, <3>1
  <2>5. Arms!NearMiss(rolls, target) = rolls[CHOOSE i \in best : \A j \in best : i <= j].copy
    BY <1>3 DEF Arms!NearMiss
  <2> QED
    BY <2>4, <2>5
<1>4. CASE near = {}
  BY <1>4 DEF Arms!NearMiss
<1> QED
  BY <1>3, <1>4

\* A report tells of the targets, and of copies.
LEMMA ReportTyped ==
  ASSUME NEW n \in Nat, NEW rolls, DOMAIN rolls = 1 .. n,
         \A i \in DOMAIN rolls : rolls[i].copy \in DOMAIN Copies
  PROVE  ReadingTyped(Arms!Report(rolls))
<1> DEFINE r == Arms!Report(rolls)
<1>1. /\ r.pc = "answered" /\ r.pools = [w \in Weapons |-> None]
      /\ r.matches = UNION {Arms!MatchesOf(rolls, target) : target \in Targets}
      /\ r.unmatched = {[target |-> target, near |-> Arms!NearMiss(rolls, target)] :
                           target \in {t \in Targets : Arms!MatchesOf(rolls, t) = {}}}
  BY DEF Arms!Report, Arms!NoReading
<1> HIDE DEF r
<1>2. ASSUME NEW m \in r.matches PROVE m.target \in Targets /\ m.copy \in DOMAIN Copies
  <2>1. PICK target \in Targets : m \in Arms!MatchesOf(rolls, target)
    BY <1>1, <1>2
  <2>2. PICK i \in DOMAIN rolls : m = [target |-> target, copy |-> rolls[i].copy]
    BY <2>1 DEF Arms!MatchesOf
  <2> QED
    BY <2>2
<1>3. ASSUME NEW u \in r.unmatched PROVE u.target \in Targets /\ u.near \in DOMAIN Copies \cup {None}
  <2>1. PICK target \in Targets : u = [target |-> target, near |-> Arms!NearMiss(rolls, target)]
    BY <1>1, <1>3
  <2> QED
    BY <2>1, NearestIsACopy
<1>4. r.pools \in [Weapons -> (0 .. MaxInstalls) \cup {None}]
  BY <1>1
<1>5. ReadingTyped(r)
  BY <1>1, <1>2, <1>3, <1>4 DEF ReadingTyped
<1> QED
  BY <1>5 DEF r

LEMMA NothingTyped ==
  ReadingTyped(Arms!NoReading) /\ \A pc \in {"profile", "error"} : ReadingTyped([Arms!NoReading EXCEPT !.pc = pc])
  BY DEF ReadingTyped, Arms!NoReading

LEMMA ArmsTypedInit == Arms!Init => ArmsTyped
  BY NothingTyped, BoundAssumption DEF Arms!Init, Arms!Found, ArmsTyped, FileTyped

LEMMA ArmsTypedNext ==
  ASSUME ArmsInv, ArmsTyped, Arms!Next
  PROVE  ArmsTyped'
<1>1. /\ FileTyped(MaxInstalls) /\ ReadingTyped(reading) /\ file \in 0 .. MaxInstalls /\ MaxInstalls \in Nat
      /\ reading = [f \in ReadingFields |-> reading[f]]
  BY BoundAssumption DEF ArmsInv, ArmsShape, ArmsTyped, FileTyped
<1>2. CASE Arms!Download /\ UNCHANGED reading
  <2>1. FileTyped(MaxInstalls)'
    BY <1>1, <1>2, BoundAssumption
    DEF FileTyped, Arms!Download, Arms!Close, Arms!Install, Arms!RollBack, Arms!Name, Arms!Reopen, Arms!Fault
  <2> QED
    BY <1>1, <1>2, <2>1 DEF ArmsTyped, ReadingTyped
<1>3. CASE swap = "reopened" /\ swap' = "idle" /\ UNCHANGED <<file, version, faults, reading>>
  BY <1>1, <1>3 DEF ArmsTyped, FileTyped, ReadingTyped
<1>4. ASSUME Arms!Frame, UNCHANGED faults \/ Arms!Fault \/ Arms!QueryFails, ReadingTyped(reading')
      PROVE  ArmsTyped'
  BY <1>1, <1>4, BoundAssumption DEF ArmsTyped, FileTyped, ReadingTyped, Arms!Frame, Arms!Fault, Arms!QueryFails
<1>5. CASE Arms!Matches
  <2>1. DOMAIN <<>> = 1 .. 0
    OBVIOUS
  <2>2. ReadingTyped(Arms!Report(<<>>))
    BY <2>1, ReportTyped
  <2> QED
    BY <1>4, <1>5, <2>2, NothingTyped DEF Arms!Matches, Arms!Goes
<1>6. CASE Arms!ReadProfile
  <2>1. ASSUME NEW left, reading' = [reading EXCEPT !.pc = "copies", !.left = left] PROVE ReadingTyped(reading')
    BY <1>1, <2>1 DEF ReadingTyped, ReadingFields
  <2> QED
    BY <1>4, <1>6, <2>1, NothingTyped DEF Arms!ReadProfile, Arms!Goes
<1>7. CASE Arms!ReadCopy
  <2> DEFINE i == Head(reading.left)
             weapon == Copies[i].item
  <2>1. weapon \in Weapons
    <3>1. reading.left \in Seq(DOMAIN Copies) /\ reading.left # <<>>
      BY <1>7 DEF Arms!ReadCopy, ArmsInv, ArmsShape
    <3>2. i \in DOMAIN Copies
      BY <3>1
    <3> QED
      BY <3>2, CopiesAssumption
  <2>2. ASSUME NEW v \in Arms!PoolsFor(weapon), NEW rolls,
               reading' = [reading EXCEPT !.left = Tail(@), !.pools[weapon] = v, !.rolls = rolls]
        PROVE  ReadingTyped(reading')
    <3> HIDE DEF weapon
    <3>1. v \in (0 .. MaxInstalls) \cup {None}
      BY <1>1, <2>1, <2>2 DEF Arms!PoolsFor, ReadingTyped
    <3>2. /\ reading'.pools = [reading.pools EXCEPT ![weapon] = v]
          /\ UNCHANGED <<reading.pc, reading.matches, reading.unmatched>>
      BY <1>1, <2>2 DEF ReadingFields
    <3>3. [reading.pools EXCEPT ![weapon] = v] \in [Weapons -> (0 .. MaxInstalls) \cup {None}]
      BY <1>1, <2>1, <3>1 DEF ReadingTyped
    <3> QED
      BY <1>1, <3>2, <3>3 DEF ReadingTyped
  <2>3. \/ /\ \E v \in Arms!PoolsFor(weapon) :
                 reading' = [reading EXCEPT !.left = Tail(@), !.pools[weapon] = v,
                                            !.rolls = @ \o Arms!Rolls(i, Pool(v, weapon))]
           /\ UNCHANGED faults
        \/ reading' = [Arms!NoReading EXCEPT !.pc = "error"] /\ Arms!QueryFails
    BY <1>7 DEF Arms!ReadCopy, Arms!Goes
  <2>4. ReadingTyped(reading')
    BY <2>2, <2>3, NothingTyped
  <2> QED
    BY <1>4, <1>7, <2>3, <2>4 DEF Arms!ReadCopy
<1>8. CASE Arms!Compare
  <2>1. reading' = Arms!Report(reading.rolls) /\ reading.pc = "copies" /\ Arms!Frame /\ UNCHANGED faults
    BY <1>8 DEF Arms!Compare, Arms!Goes
  <2>2. reading.rolls \in Seq(ReadRolls) /\ \A k \in DOMAIN reading.rolls : reading.rolls[k].copy \in DOMAIN Copies
    BY <2>1 DEF ArmsInv, ArmsShape, RollsPooled
  <2>3. Len(reading.rolls) \in Nat /\ DOMAIN reading.rolls = 1 .. Len(reading.rolls)
    BY <2>2
  <2> QED
    BY <1>4, <2>1, <2>2, <2>3, ReportTyped
<1> QED
  BY <1>2, <1>3, <1>5, <1>6, <1>7, <1>8 DEF Arms!Next

\* The types of the owned rolls, as they are told.
LEMMA ArmsTypes == ArmsTyped => Arms!TypeOK
  BY DEF ArmsTyped, FileTyped, ReadingTyped, Arms!TypeOK, Arms!ManifestTypeOK, Arms!FileVersions

-----------------------------------------------------------------------------
(* Every service. *)

\* The invariant of the efficiency index holds while they are what is worked on.
LEMMA EngineAlways == Spec => [](part = "engine" => EngineInv)
<1> DEFINE Inv == part = "engine" => EngineInv
<1>1. Init => Inv
  BY EngineInit DEF Init
<1>2. Inv /\ [Next]_vars => Inv'
  <2> SUFFICES ASSUME Inv, [Next]_vars, part' = "engine" PROVE EngineInv'
    OBVIOUS
  <2>1. CASE Engine!Next /\ part = "engine"
    BY <2>1, EngineNext
  <2>2. CASE UNCHANGED vars
    BY <2>2 DEF vars, manifestVars, engineVars, EngineInv, EngineShape, Labelled, Builds, Indices, Engine!NoIndex
  <2> QED
    BY <2>1, <2>2 DEF Next
<1> QED
  BY <1>1, <1>2, PTL DEF Spec

\* The invariant of the characters holds while they are what is worked on.
LEMMA RostersAlways == Spec => [](part = "rosters" => RostersInv)
<1> DEFINE Inv == part = "rosters" => RostersInv
<1>1. Init => Inv
  BY RostersInit DEF Init
<1>2. Inv /\ [Next]_vars => Inv'
  <2> SUFFICES ASSUME Inv, [Next]_vars, part' = "rosters" PROVE RostersInv'
    OBVIOUS
  <2>1. CASE Rosters!Next /\ part = "rosters"
    BY <2>1, RostersNext
  <2>2. CASE UNCHANGED vars
    BY <2>2 DEF vars, rosterVars, profileVars, RostersInv, RostersShape, Since
  <2> QED
    BY <2>1, <2>2 DEF Next
<1> QED
  BY <1>1, <1>2, PTL DEF Spec

\* The invariant of the profile's records holds while they are what is worked on.
LEMMA ProfilesAlways == Spec => [](part = "profiles" => ProfilesInv)
<1> DEFINE Inv == part = "profiles" => ProfilesInv
<1>1. Init => Inv
  BY ProfilesInit DEF Init
<1>2. Inv /\ [Next]_vars => Inv'
  <2> SUFFICES ASSUME Inv, [Next]_vars, part' = "profiles" PROVE ProfilesInv'
    OBVIOUS
  <2>1. CASE Profiles!Next /\ part = "profiles"
    BY <2>1, ProfilesNext
  <2>2. CASE UNCHANGED vars
    BY <2>2 DEF vars, profileVars, flightVars, ProfilesInv, ProfilesShape, Asked, Loads, Shares
  <2> QED
    BY <2>1, <2>2 DEF Next
<1> QED
  BY <1>1, <1>2, PTL DEF Spec

\* The invariant of This Week holds while they are what is worked on.
LEMMA WeekAlways == Spec => [](part = "week" => WeekInv)
<1> DEFINE Inv == part = "week" => WeekInv
<1>1. Init => Inv
  BY WeekInit DEF Init
<1>2. Inv /\ [Next]_vars => Inv'
  <2> SUFFICES ASSUME Inv, [Next]_vars, part' = "week" PROVE WeekInv'
    OBVIOUS
  <2>1. CASE Week!Next /\ part = "week"
    BY <2>1, WeekNext
  <2>2. CASE UNCHANGED vars
    BY <2>2 DEF vars, clockVars, WeekInv, WeekShape, Expires, InTime
  <2> QED
    BY <2>1, <2>2 DEF Next
<1> QED
  BY <1>1, <1>2, PTL DEF Spec

\* The invariant of what the vendors sell holds while they are what is worked on.
LEMMA StockAlways == Spec => [](part = "stock" => StockInv)
<1> DEFINE Inv == part = "stock" => StockInv
<1>1. Init => Inv
  BY StockInit DEF Init
<1>2. Inv /\ [Next]_vars => Inv'
  <2> SUFFICES ASSUME Inv, [Next]_vars, part' = "stock" PROVE StockInv'
    OBVIOUS
  <2>1. CASE Stock!Next /\ part = "stock"
    BY <2>1, StockNext
  <2>2. CASE UNCHANGED vars
    BY <2>2 DEF vars, manifestVars, clockVars, stockVars, StockInv, StockShape, FileTyped, RowsNamed, RowNamed
  <2> QED
    BY <2>1, <2>2 DEF Next
<1> QED
  BY <1>1, <1>2, PTL DEF Spec

\* And what is told of them ends in time.
LEMMA StockTimesAlways == Spec => [](part = "stock" => StockTimes)
<1> DEFINE Inv == part = "stock" => StockInv
           Times == part = "stock" => StockTimes
<1>1. Init => Times
  BY StockTimesInit DEF Init
<1>2. Inv /\ Times /\ [Next]_vars => Times'
  <2> SUFFICES ASSUME Inv, Times, [Next]_vars, part' = "stock" PROVE StockTimes'
    OBVIOUS
  <2>1. CASE Stock!Next /\ part = "stock"
    BY <2>1, StockTimesNext
  <2>2. CASE UNCHANGED vars
    BY <2>2 DEF vars, clockVars, stockVars, StockTimes, Told, ReadInTime, LastTold, LastEnd
  <2> QED
    BY <2>1, <2>2 DEF Next
<1> QED
  BY <1>1, <1>2, StockAlways, PTL DEF Spec

\* The invariant of the items holds while they are what is worked on.
LEMMA ItemsAlways == Spec => [](part = "items" => ItemsInv)
<1> DEFINE Inv == part = "items" => ItemsInv
<1>1. Init => Inv
  BY ItemsInit DEF Init
<1>2. Inv /\ [Next]_vars => Inv'
  <2> SUFFICES ASSUME Inv, [Next]_vars, part' = "items" PROVE ItemsInv'
    OBVIOUS
  <2>1. CASE Items!Next /\ part = "items"
    BY <2>1, ItemsNext
  <2>2. CASE UNCHANGED vars
    BY <2>2 DEF vars, itemVars, ItemsInv, ItemsShape, Settled, Announced, ReadsInstalled
  <2> QED
    BY <2>1, <2>2 DEF Next
<1> QED
  BY <1>1, <1>2, PTL DEF Spec

\* The invariant of the record pages holds while they are what is worked on.
LEMMA PagesAlways == Spec => [](part = "pages" => PagesInv)
<1> DEFINE Inv == part = "pages" => PagesInv
<1>1. Init => Inv
  BY PagesInit DEF Init
<1>2. Inv /\ [Next]_vars => Inv'
  <2> SUFFICES ASSUME Inv, [Next]_vars, part' = "pages" PROVE PagesInv'
    OBVIOUS
  <2>1. CASE Pages!Next /\ part = "pages"
    BY <2>1, PagesNext
  <2>2. CASE UNCHANGED vars
    <3>1. UNCHANGED <<file, version, swap, request>>
      BY <2>2 DEF vars, manifestVars
    <3>2. FileInstalled' /\ RequestKept(request')
      BY <2>2, <3>1 DEF PagesInv, FileInstalled, Next, vars
    <3> QED
      BY <3>1, <3>2, SameFile DEF PagesInv
  <2> QED
    BY <2>1, <2>2 DEF Next
<1> QED
  BY <1>1, <1>2, PTL DEF Spec

\* The invariant of the owned rolls holds while they are what is worked on.
LEMMA ArmsAlways == Spec => [](part = "arms" => ArmsInv)
<1> DEFINE Inv == part = "arms" => ArmsInv
<1>1. Init => Inv
  BY ArmsInit DEF Init
<1>2. Inv /\ [Next]_vars => Inv'
  <2> SUFFICES ASSUME Inv, [Next]_vars, part' = "arms" PROVE ArmsInv'
    OBVIOUS
  <2>1. CASE Arms!Next /\ part = "arms"
    BY <2>1, ArmsNext
  <2>2. CASE UNCHANGED vars
    BY <2>2 DEF vars, manifestVars, ArmsInv, ArmsShape, RollsPooled, CopiesRolled, Remaining, Pooled, Columns, Arms!CopiesToldAlike
  <2> QED
    BY <2>1, <2>2 DEF Next
<1> QED
  BY <1>1, <1>2, PTL DEF Spec

\* Every service keeps its types while it is what is worked on.
Typed ==
    /\ part = "items" => ItemsTyped
    /\ part = "profiles" => ProfilesTyped
    /\ part = "rosters" => RostersTyped
    /\ part = "engine" => EngineTyped
    /\ part = "week" => WeekTyped
    /\ part = "pages" => PagesTyped
    /\ part = "arms" => ArmsTyped
Kept ==
    /\ part = "items" => ItemsInv
    /\ part = "profiles" => ProfilesInv
    /\ part = "rosters" => RostersInv
    /\ part = "engine" => EngineInv
    /\ part = "week" => WeekInv
    /\ part = "stock" => StockInv
    /\ part = "arms" => ArmsInv

LEMMA KeptAlways == Spec => []Kept
  BY ItemsAlways, ProfilesAlways, RostersAlways, EngineAlways, WeekAlways, StockAlways, ArmsAlways, PTL DEF Kept

\* In a step that changes nothing.
LEMMA TypedStays ==
  ASSUME Typed, UNCHANGED vars
  PROVE  Typed'
<1>1. part' = part /\ (FileTyped(MaxInstalls) <=> FileTyped(MaxInstalls)')
      /\ (FileTyped(MaxIndexInstalls) <=> FileTyped(MaxIndexInstalls)')
  BY DEF vars, manifestVars, FileTyped
<1>2. part = "items" => ItemsTyped'
  BY DEF vars, itemVars, Typed, ItemsTyped, Bounded, Items!Entries, Items!Cached
<1>3. part = "profiles" => ProfilesTyped'
  BY DEF vars, profileVars, flightVars, Typed, ProfilesTyped, LoadTyped, Waits
<1>4. part = "rosters" => RostersTyped'
  BY <1>1 DEF vars, profileVars, rosterVars, Typed, RostersTyped, CallTyped
<1>5. part = "engine" => EngineTyped'
  BY <1>1 DEF vars, manifestVars, engineVars, Typed, EngineTyped, Entered, Busy, Engine!NoIndex
<1>6. part = "week" => WeekTyped'
  BY <1>1 DEF vars, clockVars, Typed, WeekTyped, Holds
<1>7. part = "pages" => PagesTyped'
  BY <1>1 DEF vars, Typed, PagesTyped
<1>8. part = "arms" => ArmsTyped'
  BY <1>1 DEF vars, Typed, ArmsTyped, ReadingTyped
<1> QED
  BY <1>1, <1>2, <1>3, <1>4, <1>5, <1>6, <1>7, <1>8 DEF Typed

LEMMA TypedAlways == Spec => []Typed
<1>1. Init => Typed
  BY ItemsTypedInit, ProfilesTypedInit, RostersTypedInit, EngineTypedInit, WeekTypedInit, PagesTypedInit,
     ArmsTypedInit DEF Init, Typed
<1>2. Kept /\ Typed /\ [Next]_vars => Typed'
  <2> SUFFICES ASSUME Kept, Typed, Next \/ UNCHANGED vars PROVE Typed'
    OBVIOUS
  <2>1. CASE part = "items" /\ part' = part /\ Items!Next
    BY <2>1, ItemsTypedNext DEF Kept, Typed
  <2>2. CASE part = "profiles" /\ part' = part /\ Profiles!Next
    BY <2>2, ProfilesTypedNext DEF Kept, Typed
  <2>3. CASE part = "rosters" /\ part' = part /\ Rosters!Next
    BY <2>3, RostersTypedNext DEF Kept, Typed
  <2>4. CASE part = "engine" /\ part' = part /\ Engine!Next
    BY <2>4, EngineTypedNext DEF Kept, Typed
  <2>5. CASE part = "week" /\ part' = part /\ Week!Next
    BY <2>5, WeekTypedNext DEF Kept, Typed
  <2>6. CASE part = "pages" /\ part' = part /\ Pages!Next
    BY <2>6, PagesTypedNext DEF Typed
  <2>7. CASE part = "arms" /\ part' = part /\ Arms!Next
    BY <2>7, ArmsTypedNext DEF Kept, Typed
  <2>8. CASE part = "stock" /\ part' = part
    BY <2>8 DEF Typed
  <2>9. CASE UNCHANGED vars
    BY <2>9, TypedStays
  <2> QED
    BY <2>1, <2>2, <2>3, <2>4, <2>5, <2>6, <2>7, <2>8, <2>9 DEF Next
<1> QED
  BY <1>1, <1>2, KeptAlways, PTL DEF Spec

\* The state of every service has its types: no bounded cache is past its
\* capacity, no two builds of the efficiency index are of one attempt and what is
\* said to be building is what is, a caller waits for a load or for none, a
\* character told of is on the roster, and the nearest copy is one of the player's.
THEOREM ViewsTyped == Spec => []TypeOK
<1>1. Kept /\ Typed => TypeOK
  BY ItemsTypes, ProfilesTypes, RostersTypes, EngineTypes, WeekTypes, StockShows, PagesTypes, ArmsTypes
  DEF Kept, Typed, TypeOK
<1> QED
  BY <1>1, KeptAlways, TypedAlways, PTL

\* Once a manifest is announced, every cached fact of an item is of it: lookups
\* begun before it, and the retirement of the facts, may meet in any order.
THEOREM FactsFresh == Spec => []FactsFreshWhenSettled
<1>1. (part = "items" => ItemsInv) => FactsFreshWhenSettled
  BY DEF FactsFreshWhenSettled, Items!FactsFreshWhenSettled, ItemsInv, Settled
<1> QED
  BY <1>1, ItemsAlways, PTL

\* What was fetched before a refresh is neither kept nor answered after it, by
\* Records, whose loads are shared, nor by Characters.
THEOREM RefreshIsSeen == Spec => []RefreshStays
<1>1. (part = "profiles" => ProfilesInv) /\ (part = "rosters" => RostersInv) => RefreshStays
  BY DEF RefreshStays, Profiles!RefreshStays, Rosters!RosterSinceRefresh, ProfilesInv, ProfilesShape, Asked,
         RostersInv, RostersShape, Since
<1> QED
  BY <1>1, ProfilesAlways, RostersAlways, PTL

\* A good entry leaves the memory cache by expiring or by a refresh, and never by
\* a Get, a load or a clean-up that found the one before it expired.
THEOREM GoodEntriesStay == Spec => FreshEntryKept
<1>1. (part = "profiles" => ProfilesInv) /\ [Next]_vars =>
        [Profiles!Hit /\ cache' = None => refresh' # refresh]_cache
  <2> SUFFICES ASSUME part = "profiles" => ProfilesInv, [Next]_vars, Profiles!Hit, cache' = None, cache' # cache
               PROVE  refresh' # refresh
    OBVIOUS
  <2>1. Next
    BY DEF vars, profileVars, flightVars
  <2>2. part = "profiles" /\ Profiles!Next
    BY <2>1 DEF Next, profileVars, flightVars
  <2> QED
    BY <2>2, EntryKept
<1> QED
  BY <1>1, ProfilesAlways, PTL DEF Spec, FreshEntryKept, Profiles!FreshEntryKept

\* The index that bears the version of the file holds that version's rows.
THEOREM IndexBearsItsVersion == Spec => []IndexNotMislabelled
<1>1. (part = "engine" => EngineInv) => IndexNotMislabelled
  BY NoneAssumption DEF IndexNotMislabelled, Engine!IndexNotMislabelled, EngineInv, EngineShape, Indices, Engine!NoIndex
<1> QED
  BY <1>1, EngineAlways, PTL

\* This Week shows nothing fetched before a daily reset, or before Xur came or
\* left, past it, but for the time a request may take; or, when its build began
\* within five minutes of the event, but for what is left of the five and that
\* time.  What the vendors sold on one day is told on the next, but for the time
\* a request takes, only if they were asked within five minutes of the reset.
\* Any number of requests ask, and may end in any order.
THEOREM WeekEndsAtEvent == Spec => []PayloadEndsAtEvent
<1>1. (part = "week" => WeekInv) /\ (part = "stock" => StockInv) /\ (part = "stock" => StockTimes)
      => PayloadEndsAtEvent
  BY WeekShows, TimesShow DEF PayloadEndsAtEvent
<1> QED
  BY <1>1, WeekAlways, StockAlways, StockTimesAlways, PTL

\* The vendor rows found under the version in force were named by it.
THEOREM RowsBearTheirVersion == Spec => []RowsNamedByTheirVersion
<1>1. (part = "stock" => StockInv) => RowsNamedByTheirVersion
  BY StockShows DEF RowsNamedByTheirVersion
<1> QED
  BY <1>1, StockAlways, PTL

\* Whatever fails under one root of the seals, and however the manifest changes
\* between two queries, a request that ends with the manifest it began with has
\* told every seal of every other root, in full.
THEOREM RootsFailAlone == Spec => []OneRootFailsAlone
<1>1. (part = "pages" => PagesInv) => OneRootFailsAlone
  BY PagesShow DEF OneRootFailsAlone
<1> QED
  BY <1>1, PagesAlways, PTL

\* However the nodes are linked and cut into chunks, and whatever is installed
\* between two of them, the walk collects no node twice.
THEOREM WalkCollectsNoneTwice == Spec => []WalkCollectsOnce
<1>1. Typed => WalkCollectsOnce
  BY DEF Typed, WalkCollectsOnce, Pages!WalkCollectsOnce, Pages!IsInjective, PagesTyped, RequestTyped
<1> QED
  BY <1>1, TypedAlways, PTL

\* Copies that are alike match the same targets, whatever is installed, or fails,
\* between the reading of one and of the other.
THEOREM CopiesMatchAlike == Spec => []CopiesToldAlike
<1>1. (part = "arms" => ArmsInv) => CopiesToldAlike
  BY DEF CopiesToldAlike, ArmsInv
<1> QED
  BY <1>1, ArmsAlways, PTL

=============================================================================
