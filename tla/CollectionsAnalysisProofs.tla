---------------------- MODULE CollectionsAnalysisProofs ----------------------
(***************************************************************************)
(* Theorems about CollectionsAnalysis, for any number of memberships,      *)
(* callers, loads, credentials, swaps and refreshes.                       *)
(***************************************************************************)
EXTENDS CollectionsAnalysis, FiniteSetTheorems, TLAPS

\* The fields of a flight and of a request, whatever their values.
FlightFields == {"pc", "key", "waiters", "ctx", "base", "fetched", "catalog", "tree",
                 "result"}
RequestFields == {"pc", "key", "flight"}

IsFlight(x) == x = [field \in FlightFields |-> x[field]]
IsRequest(x) == x = [field \in RequestFields |-> x[field]]

Shape ==
    /\ refreshes \in [Members -> Nat]
    /\ cache = [m \in Members |-> cache[m]]
    /\ flight = [f \in Flights |-> flight[f]]
    /\ request = [r \in Requests |-> request[r]]
    /\ \A f \in Flights : IsFlight(flight[f])
    /\ \A r \in Requests : IsRequest(request[r])

\* A key of a known membership, under a refresh generation already reached.
CapturedBy(key) ==
    /\ key.member \in Members
    /\ key.refresh \in Nat
    /\ key.refresh <= refreshes[key.member]

\* By these steps a load has its profile, from Bungie or from the cache.
HasProfile(f) == flight[f].pc \in {"catalog", "tree", "nodes", "storeTree", "publish"}

\* The inductive strengthening: no load is asked for under a refresh yet to
\* come, and a load has fetched no earlier than the refresh it was asked for
\* under.  One whose generation is still current, which is all that the fence
\* publishes, has thus fetched since the last refresh.
LoadsSinceRefresh ==
    /\ refresh = refreshes
    /\ \A m \in Members :
          cache[m] # None => cache[m].fetched \in Nat /\ cache[m].fetched >= refreshes[m]
    /\ \A r \in Requests : request[r].pc = "asked" => CapturedBy(request[r].key)
    /\ \A f \in Flights :
          flight[f].pc \notin {"free", "finish", "exited"} =>
              /\ CapturedBy(flight[f].key)
              /\ HasProfile(f) =>
                    /\ flight[f].fetched \in Nat
                    /\ flight[f].fetched >= flight[f].key.refresh

IInv == Shape /\ LoadsSinceRefresh

-----------------------------------------------------------------------------
(* What the helpers of the flights leave alone. *)

\* Collecting exited flights changes no other flight.
LEMMA CollectedOnlyFrees ==
    ASSUME NEW fl, NEW rq, \A f \in Flights : IsFlight(fl[f])
    PROVE  /\ Collected(fl, rq) = [f \in Flights |-> Collected(fl, rq)[f]]
           /\ \A f \in Flights :
                 /\ IsFlight(Collected(fl, rq)[f])
                 /\ Collected(fl, rq)[f] = fl[f] \/ Collected(fl, rq)[f].pc = "free"
BY DEF Collected, IsFlight, FlightFields, FreeFlight

\* A step of a load that keeps its key, to a state of it that is right for the
\* refreshes so far, preserves the invariant.
LEMMA LoadStep ==
    ASSUME IInv, NEW f \in Flights, NEW new,
           IsFlight(new), new.key = flight[f].key,
           flight[f].pc \notin {"free", "finish", "exited"},
           new.pc \in {"catalog", "tree", "nodes", "storeTree", "publish"} =>
               new.fetched \in Nat /\ new.fetched >= new.key.refresh,
           flight' = [flight EXCEPT ![f] = new],
           UNCHANGED <<refresh, refreshes, cache, request>>
    PROVE  IInv'
BY DEF IInv, Shape, LoadsSinceRefresh, CapturedBy, HasProfile

\* So does a step that leaves each flight free, or as it was but for its
\* waiters and its context, and moves one caller out of "asked".
LEMMA CallerStep ==
    ASSUME IInv, NEW r \in Requests, NEW new,
           IsRequest(new), new.pc # "asked",
           request' = [request EXCEPT ![r] = new],
           flight' = [f \in Flights |-> flight'[f]],
           \A f \in Flights :
              /\ IsFlight(flight'[f])
              /\ \/ flight'[f].pc = "free"
                 \/ /\ flight'[f].pc = flight[f].pc
                    /\ flight'[f].key = flight[f].key
                    /\ flight'[f].fetched = flight[f].fetched,
           UNCHANGED <<refresh, refreshes, cache>>
    PROVE  IInv'
BY DEF IInv, Shape, LoadsSinceRefresh, CapturedBy, HasProfile

\* A step that touches one flight, but neither its place, its key nor its
\* profile, leaves them alone in every flight.
LEMMA FlightTouched ==
    ASSUME Shape, NEW f, NEW new,
           f \in Flights => /\ IsFlight(new) /\ new.pc = flight[f].pc
                           /\ new.key = flight[f].key /\ new.fetched = flight[f].fetched,
           flight' = [flight EXCEPT ![f] = new]
    PROVE  /\ flight' = [g \in Flights |-> flight'[g]]
           /\ \A g \in Flights : /\ IsFlight(flight'[g])
                                  /\ flight'[g].pc = flight[g].pc
                                  /\ flight'[g].key = flight[g].key
                                  /\ flight'[g].fetched = flight[g].fetched
BY DEF Shape

-----------------------------------------------------------------------------
\* The strengthening holds initially and is preserved by every step.
LEMMA Inductive == Spec => []IInv
<1>1. Init => IInv
  BY DEF Init, IInv, Shape, LoadsSinceRefresh, IsFlight, FlightFields, IsRequest,
         RequestFields, NewRefreshFence, FreeFlight, NoRequest
<1>2. IInv /\ [Next]_vars => IInv'
  <2> SUFFICES ASSUME IInv, [Next]_vars
               PROVE  IInv'
    OBVIOUS
  <2> USE DEF IInv, Shape, LoadsSinceRefresh
  <2>1. CASE Download
    <3>1. UNCHANGED <<refresh, refreshes, cache, flight, request>>
      BY <2>1 DEF Download, CloseForSwap, RollBack, InstallAndReopen, TellItems,
                  TellCollections, generationVars
    <3> QED
      BY <3>1 DEF CapturedBy, HasProfile
  <2>2. ASSUME NEW m \in Members, Invalidate(m)
        PROVE  IInv'
    BY <2>2 DEF Invalidate, Refreshed, CapturedBy, HasProfile
  <2>3. ASSUME NEW m \in Members, Expire(m)
        PROVE  IInv'
    BY <2>3 DEF Expire, CapturedBy, HasProfile, generationVars
  <2>4. ASSUME NEW r \in Requests, NEW m \in Members, NEW c \in Credentials, Ask(r, m, c)
        PROVE  IInv'
    <3> DEFINE key == [member |-> m, credential |-> c, manifest |-> Begin(fence),
                       refresh |-> refresh[m]]
               new == [NoRequest EXCEPT !.pc = "asked", !.key = key]
    <3>1. request' = [request EXCEPT ![r] = new]
      BY <2>4 DEF Ask, BeginRefresh
    <3>2. CapturedBy(key)
      BY DEF CapturedBy
    <3>3. UNCHANGED <<refresh, refreshes, cache, flight>>
      BY <2>4 DEF Ask, generationVars
    <3> HIDE DEF key
    <3>4. IsRequest(new) /\ new.key = key
      BY DEF NoRequest, IsRequest, RequestFields
    <3> HIDE DEF new
    <3> QED
      BY <3>1, <3>2, <3>3, <3>4 DEF CapturedBy, HasProfile
  <2>5. ASSUME NEW r \in Requests, Hit(r) \/ GiveUp(r)
        PROVE  IInv'
    <3>1. /\ request' = [request EXCEPT ![r] = NoRequest]
          /\ UNCHANGED <<refresh, refreshes, cache, flight>>
      BY <2>5 DEF Hit, GiveUp, generationVars
    <3>2. IsRequest(NoRequest) /\ NoRequest.pc # "asked"
      BY DEF NoRequest, IsRequest, RequestFields
    <3> QED
      BY <3>1, <3>2, CallerStep
  <2>6. ASSUME NEW r \in Requests, Join(r)
        PROVE  IInv'
    <3>1. /\ request[r].pc = "asked" /\ CapturedBy(request[r].key)
          /\ UNCHANGED <<refresh, refreshes, cache>>
      BY <2>6 DEF Join, generationVars
    <3>2. ASSUME NEW f, flight' = [flight EXCEPT ![f].waiters = @ + 1],
                 request' = [request EXCEPT ![r].pc = "waiting", ![r].flight = f]
          PROVE  IInv'
      <4> DEFINE new == [request[r] EXCEPT !.pc = "waiting", !.flight = f]
      <4>1. request' = [request EXCEPT ![r] = new]
        BY <3>2
      <4> DEFINE touched == [flight[f] EXCEPT !.waiters = @ + 1]
      <4>2. f \in Flights => /\ IsFlight(touched) /\ touched.pc = flight[f].pc
                             /\ touched.key = flight[f].key
                             /\ touched.fetched = flight[f].fetched
        BY DEF IsFlight, FlightFields
      <4>3. flight' = [flight EXCEPT ![f] = touched]
        BY <3>2
      <4> HIDE DEF touched
      <4>4. IsRequest(new) /\ new.pc # "asked"
        BY DEF IsRequest, RequestFields
      <4>5. /\ flight' = [g \in Flights |-> flight'[g]]
            /\ \A g \in Flights : /\ IsFlight(flight'[g])
                                   /\ flight'[g].pc = flight[g].pc
                                   /\ flight'[g].key = flight[g].key
                                   /\ flight'[g].fetched = flight[g].fetched
        BY <4>2, <4>3, FlightTouched
      <4> HIDE DEF new, IInv, Shape, LoadsSinceRefresh
      <4> QED
        BY <3>1, <4>1, <4>4, <4>5, CallerStep
    <3>3. ASSUME NEW f \in Flights, flight' = [flight EXCEPT ![f] = NewFlight(request[r].key)],
                 request' = [request EXCEPT ![r].pc = "waiting", ![r].flight = f]
          PROVE  IInv'
      <4> DEFINE new == NewFlight(request[r].key)
      <4>1. IsFlight(new) /\ new.pc = "recheck" /\ new.key = request[r].key
        BY DEF NewFlight, FreeFlight, IsFlight, FlightFields
      <4>2. \A q \in Requests : /\ IsRequest(request'[q])
                                /\ request'[q].pc = "asked" =>
                                      request'[q] = request[q]
        BY <3>3 DEF IsRequest, RequestFields
      <4>3. request' = [q \in Requests |-> request'[q]]
        BY <3>3
      <4> HIDE DEF new
      <4> QED
        BY <3>1, <3>3, <4>1, <4>2, <4>3 DEF CapturedBy, HasProfile, new
    <3> QED
      BY <2>6, <3>2, <3>3 DEF Join
  <2>7. ASSUME NEW r \in Requests, Answered(r)
        PROVE  IInv'
    <3>1. flight' = Collected(flight, [request EXCEPT ![r] = NoRequest])
      BY <2>7 DEF Answered
    <3>2. UNCHANGED <<refresh, refreshes, cache>>
      BY <2>7 DEF Answered, generationVars
    <3>3. /\ flight' = [f \in Flights |-> flight'[f]]
          /\ \A f \in Flights :
                /\ IsFlight(flight'[f])
                /\ flight'[f] = flight[f] \/ flight'[f].pc = "free"
      BY <3>1, CollectedOnlyFrees
    <3>4. request' = [request EXCEPT ![r] = NoRequest]
      BY <2>7 DEF Answered
    <3> QED
      BY <3>2, <3>3, <3>4
         DEF CapturedBy, HasProfile, NoRequest, IsRequest, RequestFields
  <2>8. ASSUME NEW r \in Requests, Depart(r)
        PROVE  IInv'
    <3>1. UNCHANGED <<refresh, refreshes, cache>>
      BY <2>8 DEF Depart, generationVars
    <3>2. request' = [request EXCEPT ![r] = NoRequest]
      BY <2>8 DEF Depart
    <3>3. /\ flight' = [g \in Flights |-> flight'[g]]
          /\ \A g \in Flights : /\ IsFlight(flight'[g])
                                 /\ flight'[g].pc = flight[g].pc
                                 /\ flight'[g].key = flight[g].key
                                 /\ flight'[g].fetched = flight[g].fetched
      <4> DEFINE f == request[r].flight
      <4>1. PICK w, x : flight' = [flight EXCEPT ![f].waiters = w, ![f].ctx = x]
        BY <2>8 DEF Depart
      <4> DEFINE new == [flight[f] EXCEPT !.waiters = w, !.ctx = x]
      <4>2. f \in Flights => /\ IsFlight(new) /\ new.pc = flight[f].pc
                             /\ new.key = flight[f].key /\ new.fetched = flight[f].fetched
        <5>1. f \in Flights => IsFlight(flight[f])
          OBVIOUS
        <5> HIDE DEF f, IInv, Shape, LoadsSinceRefresh
        <5> QED
          BY <5>1 DEF IsFlight, FlightFields
      <4>3. flight' = [flight EXCEPT ![f] = new]
        BY <4>1
      <4> HIDE DEF new, f
      <4> QED
        BY <4>2, <4>3, FlightTouched
    <3>5. IsRequest(NoRequest) /\ NoRequest.pc # "asked"
      BY DEF NoRequest, IsRequest, RequestFields
    <3> QED
      BY <3>1, <3>2, <3>3, <3>5, CallerStep
  <2>9. ASSUME NEW f \in Flights, Deadline(f)
        PROVE  IInv'
    <3> DEFINE new == [flight[f] EXCEPT !.ctx = "deadline"]
    <3>1. /\ flight' = [flight EXCEPT ![f] = new]
          /\ UNCHANGED <<refresh, refreshes, cache, request>>
      BY <2>9 DEF Deadline, generationVars
    <3>2. /\ IsFlight(new) /\ new.key = flight[f].key
          /\ new.pc = flight[f].pc /\ new.fetched = flight[f].fetched
      BY DEF IsFlight, FlightFields
    <3> HIDE DEF new
    <3> QED
      BY <3>1, <3>2 DEF CapturedBy, HasProfile
  <2>10. ASSUME NEW f \in Flights, Load(f)
         PROVE  IInv'
    <3> USE DEF IsFlight, FlightFields
    <3>0. /\ IsFlight(flight[f])
          /\ flight[f].pc \notin {"free", "finish", "exited"} =>
                /\ CapturedBy(flight[f].key)
                /\ HasProfile(f) => /\ flight[f].fetched \in Nat
                                   /\ flight[f].fetched >= flight[f].key.refresh
      OBVIOUS
    <3>a. ASSUME NEW new, Continue(f, new), UNCHANGED cache, IsFlight(new),
                 new.key = flight[f].key,
                 flight[f].pc \notin {"free", "finish", "exited"},
                 new.pc \in {"catalog", "tree", "nodes", "storeTree", "publish"} =>
                     new.fetched \in Nat /\ new.fetched >= new.key.refresh
          PROVE  IInv'
      <4>1. flight' = [flight EXCEPT ![f] = new]
        BY <3>a DEF Continue
      <4>2. UNCHANGED <<refresh, refreshes, cache, request>>
        BY <3>a DEF Continue, generationVars
      <4> HIDE DEF IInv, Shape, LoadsSinceRefresh, IsFlight, FlightFields
      <4> QED
        BY <3>a, <4>1, <4>2, LoadStep
    <3>b. ASSUME NEW x PROVE /\ IsFlight(Ended(f, x)) /\ Ended(f, x).pc = "finish"
                             /\ Ended(f, x).key = flight[f].key
                             /\ IsFlight([Ended(f, x) EXCEPT !.base = flight[f].base])
                             /\ [Ended(f, x) EXCEPT !.base = flight[f].base].pc = "finish"
                             /\ [Ended(f, x) EXCEPT !.base = flight[f].base].key
                                  = flight[f].key
      BY DEF Ended, FreeFlight
    <3> HIDE DEF IInv, Shape, LoadsSinceRefresh
    <3>1. CASE RecheckCache(f)
      <4> DEFINE a == cache[flight[f].key.member]
      <4>1. /\ flight[f].pc = "recheck"
            /\ UNCHANGED cache
        BY <3>1 DEF RecheckCache
      <4>2. CASE a = None
        <5> DEFINE new == [flight[f] EXCEPT !.pc = "profile"]
        <5>1. Continue(f, new)
          BY <3>1, <4>2 DEF RecheckCache
        <5>2. IsFlight(new) /\ new.key = flight[f].key /\ new.pc = "profile"
          BY <3>0
        <5> HIDE DEF new
        <5> QED
          BY <3>a, <4>1, <5>1, <5>2
      <4>3. CASE a # None /\ a.builtUnder = flight[f].key.manifest
        <5>1. Continue(f, Ended(f, a))
          BY <3>1, <4>3 DEF RecheckCache
        <5> QED
          BY <3>a, <3>b, <4>1, <5>1
      <4>4. CASE a # None /\ a.builtUnder # flight[f].key.manifest
        <5> DEFINE new == [flight[f] EXCEPT !.pc = "catalog", !.base = a, !.fetched = a.fetched]
        <5>1. Continue(f, new)
          BY <3>1, <4>4 DEF RecheckCache
        <5>2. /\ IsFlight(new) /\ new.key = flight[f].key
              /\ new.fetched = a.fetched
          BY <3>0
        <5>3. a.fetched \in Nat /\ a.fetched >= flight[f].key.refresh
          BY <3>0, <4>1, <4>4 DEF IInv, Shape, LoadsSinceRefresh, CapturedBy
        <5> HIDE DEF new
        <5> QED
          BY <3>a, <4>1, <5>1, <5>2, <5>3
      <4> QED
        BY <4>2, <4>3, <4>4
    <3>2. CASE ReadProfile(f)
      <4> DEFINE new == [flight[f] EXCEPT !.pc = "catalog",
                                          !.fetched = refreshes[flight[f].key.member]]
      <4>1. flight[f].pc = "profile" /\ Continue(f, new) /\ UNCHANGED cache
        BY <3>2 DEF ReadProfile
      <4>2. /\ IsFlight(new) /\ new.key = flight[f].key
            /\ new.fetched = refreshes[flight[f].key.member]
        BY <3>0
      <4>3. /\ refreshes[flight[f].key.member] \in Nat
            /\ refreshes[flight[f].key.member] >= flight[f].key.refresh
        BY <3>0, <4>1 DEF IInv, Shape, CapturedBy
      <4> HIDE DEF new
      <4> QED
        BY <3>a, <4>1, <4>2, <4>3
    <3>3. CASE LoadFails(f)
      <4>1. /\ flight[f].pc \in {"profile", "catalog", "nodes"}
            /\ Continue(f, Ended(f, None)) /\ UNCHANGED cache
        BY <3>3 DEF LoadFails
      <4> QED
        BY <3>a, <3>b, <4>1
    <3>4. CASE LookUpCatalog(f)
      <4>1. PICK c : flight' = [flight EXCEPT ![f].pc = "tree", ![f].catalog = c]
        BY <3>4 DEF LookUpCatalog
      <4> DEFINE new == [flight[f] EXCEPT !.pc = "tree", !.catalog = c]
      <4>2. flight' = [flight EXCEPT ![f] = new]
        BY <4>1
      <4>3. /\ flight[f].pc = "catalog"
            /\ UNCHANGED <<refresh, refreshes, cache, request>>
        BY <3>4 DEF LookUpCatalog, generationVars
      <4>4. /\ IsFlight(new) /\ new.key = flight[f].key
            /\ new.fetched = flight[f].fetched
        BY <3>0
      <4> HIDE DEF new
      <4> QED
        BY <3>0, <4>2, <4>3, <4>4, LoadStep DEF HasProfile
    <3>5. CASE NotReady(f)
      <4>1. /\ flight[f].pc \in {"nodes", "catalog"}
            /\ Continue(f, [Ended(f, flight[f].base) EXCEPT !.base = flight[f].base])
            /\ UNCHANGED cache
        BY <3>5 DEF NotReady
      <4> QED
        BY <3>a, <3>b, <4>1
    <3>6. CASE LookUpTree(f)
      <4>1. PICK new \in {[flight[f] EXCEPT !.pc = "publish", !.base = None, !.tree = tree],
                          [flight[f] EXCEPT !.pc = "nodes"]} :
               Continue(f, new)
        BY <3>6 DEF LookUpTree
      <4>2. flight[f].pc = "tree" /\ UNCHANGED cache
        BY <3>6 DEF LookUpTree
      <4>3. /\ IsFlight(new) /\ new.key = flight[f].key
            /\ new.fetched = flight[f].fetched
        BY <3>0, <4>1
      <4> QED
        BY <3>0, <3>a, <4>1, <4>2, <4>3 DEF HasProfile
    <3>7. CASE ReadNodes(f)
      <4>1. PICK t : Continue(f, [flight[f] EXCEPT !.pc = "storeTree", !.base = None,
                                                   !.tree = t])
        BY <3>7 DEF ReadNodes
      <4> DEFINE new == [flight[f] EXCEPT !.pc = "storeTree", !.base = None, !.tree = t]
      <4>2. flight[f].pc = "nodes" /\ UNCHANGED cache
        BY <3>7 DEF ReadNodes
      <4>3. /\ IsFlight(new) /\ new.key = flight[f].key
            /\ new.fetched = flight[f].fetched
        BY <3>0
      <4>4. Continue(f, new)
        BY <4>1
      <4> HIDE DEF new
      <4> QED
        BY <3>0, <3>a, <4>2, <4>3, <4>4 DEF HasProfile
    <3>8. CASE PublishTree(f)
      <4> DEFINE new == [flight[f] EXCEPT !.pc = "publish"]
      <4>1. flight[f].pc = "storeTree" /\ Continue(f, new) /\ UNCHANGED cache
        BY <3>8 DEF PublishTree
      <4>2. /\ IsFlight(new) /\ new.key = flight[f].key
            /\ new.fetched = flight[f].fetched
        BY <3>0
      <4> HIDE DEF new
      <4> QED
        BY <3>0, <3>a, <4>1, <4>2 DEF HasProfile
    <3> HIDE DEF IsFlight, FlightFields
    <3> USE DEF IInv, Shape, LoadsSinceRefresh
    <3>9. CASE PublishAnalysis(f)
      <4> DEFINE m == flight[f].key.member
                 new == Ended(f, Built(f))
      <4>1. /\ CapturedBy(flight[f].key)
            /\ flight[f].fetched \in Nat
            /\ flight[f].fetched >= flight[f].key.refresh
        BY <3>9 DEF PublishAnalysis, HasProfile
      <4>2. IsFlight(new) /\ new.pc = "finish"
        BY DEF Ended, FreeFlight, IsFlight, FlightFields
      <4>3. flight' = [flight EXCEPT ![f] = new]
        BY <3>9 DEF PublishAnalysis, Continue
      <4>4. UNCHANGED <<refresh, refreshes, request>>
        BY <3>9 DEF PublishAnalysis, Continue, generationVars
      <4>5. /\ cache' = [k \in Members |-> cache'[k]]
            /\ \A k \in Members : cache'[k] # None =>
                  cache'[k].fetched \in Nat /\ cache'[k].fetched >= refreshes[k]
        <5>1. CASE cache' = cache
          BY <5>1
        <5>2. CASE cache' # cache
          <6>1. cache' = [cache EXCEPT ![m] = Built(f)] /\ Belongs(flight[f].key)
            BY <3>9, <5>2 DEF PublishAnalysis
          <6>2. flight[f].key.refresh = refreshes[m]
            BY <6>1 DEF Belongs, IsUnrefreshed
          <6>3. Built(f).fetched = flight[f].fetched
            BY DEF Built
          <6> QED
            BY <4>1, <6>1, <6>2, <6>3 DEF CapturedBy
        <5> QED
          BY <5>1, <5>2
      <4> HIDE DEF new
      <4> QED
        BY <4>2, <4>3, <4>4, <4>5 DEF CapturedBy, HasProfile
    <3>10. CASE Finish(f)
      <4>1. PICK res : flight' = Collected([flight EXCEPT ![f] =
                  [flight[f] EXCEPT !.pc = "exited", !.ctx = "cancelled", !.waiters = 0,
                                    !.result = res]], request)
        BY <3>10 DEF Finish
      <4> DEFINE done == [flight[f] EXCEPT !.pc = "exited", !.ctx = "cancelled",
                                           !.waiters = 0, !.result = res]
                 fl == [flight EXCEPT ![f] = done]
      <4>2. IsFlight(done) /\ done.pc = "exited"
        BY DEF IsFlight, FlightFields
      <4> HIDE DEF done
      <4>3. /\ \A g \in Flights : IsFlight(fl[g])
            /\ \A g \in Flights : fl[g] = flight[g] \/ fl[g].pc = "exited"
        BY <4>2
      <4>4. flight' = Collected(fl, request)
        BY <4>1 DEF done
      <4> HIDE DEF fl
      <4>5. /\ flight' = [g \in Flights |-> flight'[g]]
            /\ \A g \in Flights :
                  /\ IsFlight(flight'[g])
                  /\ flight'[g] = flight[g] \/ flight'[g].pc \in {"free", "exited"}
        BY <4>3, <4>4, CollectedOnlyFrees
      <4>6. UNCHANGED <<refresh, refreshes, cache, request>>
        BY <3>10 DEF Finish, generationVars
      <4> QED
        BY <4>5, <4>6 DEF CapturedBy, HasProfile
    <3> QED
      BY <2>10, <3>1, <3>2, <3>3, <3>4, <3>5, <3>6, <3>7, <3>8, <3>9, <3>10 DEF Load
  <2>11. CASE UNCHANGED vars
    BY <2>11 DEF vars, CapturedBy, HasProfile, generationVars
  <2> QED
    BY <2>1, <2>2, <2>3, <2>4, <2>5, <2>6, <2>7, <2>8, <2>9, <2>10, <2>11
       DEF Next, Caller, Cancel, TimeOut
<1> QED
  BY <1>1, <1>2, PTL DEF Spec

\* A refresh sticks: the cache never holds what was fetched before the last
\* refresh of its membership, whatever loads were running when it was made.
THEOREM RefreshSticks == Spec => []RefreshNotUndone
<1>1. IInv => RefreshNotUndone
  BY DEF IInv, LoadsSinceRefresh, RefreshNotUndone
<1> QED
  BY <1>1, Inductive, PTL

-----------------------------------------------------------------------------
(* Who waits on what. *)

Unfinished(f) == flight[f].pc \notin {"free", "exited"}

\* A waiting caller waits on the load it asked for.
WaitingOnTheirs ==
    \A r \in Requests :
        IF request[r].pc = "waiting"
        THEN /\ request[r].flight \in Flights
             /\ flight[request[r].flight].pc # "free"
             /\ flight[request[r].flight].key = request[r].key
        ELSE request[r].flight = None

\* A running load counts its callers, and is cancelled only for want of any.
WaitersCounted ==
    \A f \in Flights : Unfinished(f) =>
        /\ IsFiniteSet(Waiting(f))
        /\ flight[f].waiters = Cardinality(Waiting(f))
        /\ flight[f].ctx = "cancelled" => Waiting(f) = {}

\* The registry holds every live load that somebody waits on, no finished or
\* abandoned one, and no two of the same key.
RegistryInStep ==
    /\ registry \subseteq Flights
    /\ \A f \in registry : Unfinished(f) /\ flight[f].ctx # "cancelled" /\ Waiting(f) # {}
    /\ \A f \in Flights :
          Unfinished(f) /\ StillLive(f) /\ Waiting(f) # {} => f \in registry
    /\ \A f, g \in registry : f # g => flight[f].key # flight[g].key

Sharing == WaitingOnTheirs /\ WaitersCounted /\ RegistryInStep

\* What a load started from, and what it returns, was fetched since the refresh
\* it was asked for under.
FlightResults(x) ==
    /\ x.base # None => x.base.fetched \in Nat /\ x.base.fetched >= x.key.refresh
    /\ x.result # None => x.result.fetched \in Nat /\ x.result.fetched >= x.key.refresh

ResultsSinceRefresh == \A f \in Flights : FlightResults(flight[f])

\* Manifest data no newer than the file, nor older than the manifest that began
\* a generation.
Labelled(v, generation) == v \in Nat /\ v <= installed /\ v >= generation - 1

LabelledTree(t, generation) ==
    /\ t = [nodes |-> t.nodes, catalog |-> t.catalog]
    /\ Labelled(t.nodes, generation) /\ Labelled(t.catalog, generation)

LabelledAnalysis(a, generation) ==
    Labelled(a.catalog, generation) /\ LabelledTree(a.tree, generation)

\* A generation begun, the first being 1.
Begun(generation) == generation \in Nat \ {0} /\ generation <= fence.generation

\* Items hears of a swap before Collections, whose fence then follows.
InstallInStep ==
    /\ installed \in Nat
    /\ swap \in {"idle", "closed", "items", "collections"}
    /\ fence.generation \in Nat \ {0} /\ fence.version = fence.generation - 1
    /\ fence.generation = IF swap \in {"items", "collections"} THEN installed ELSE installed + 1
    /\ itemsCatalog # None => itemsCatalog \in {v \in Nat :
          v = installed \/ (swap = "items" /\ v = installed - 1)}

SharedLabels ==
    /\ tree # None => LabelledTree(tree, fence.generation)
    /\ \A m \in Members : cache[m] # None =>
          Begun(cache[m].builtUnder) /\ LabelledAnalysis(cache[m], cache[m].builtUnder)
    /\ \A r \in Requests : request[r].pc = "asked" => Begun(request[r].key.manifest)

FlightLabels(x) ==
    /\ x.pc \notin {"free", "exited"} => Begun(x.key.manifest)
    /\ x.pc \notin {"finish", "exited"} => x.result = None
    /\ x.pc \in {"tree", "nodes", "storeTree", "publish"} =>
          Labelled(x.catalog, x.key.manifest)
    /\ x.pc \in {"storeTree", "publish"} => LabelledTree(x.tree, x.key.manifest)
    /\ x.result # None /\ x.base = None => LabelledAnalysis(x.result, x.key.manifest)

Labels == InstallInStep /\ SharedLabels /\ \A f \in Flights : FlightLabels(flight[f])

\* A step of a load that does not finish changes that flight alone, and neither
\* its key, nor who waits on it, nor its context.
LEMMA LoadMoves ==
    ASSUME Shape, NEW f \in Flights, Load(f), ~Finish(f)
    PROVE  \E new :
              /\ flight' = [flight EXCEPT ![f] = new] /\ IsFlight(new)
              /\ Unfinished(f) /\ new.pc \notin {"free", "exited"}
              /\ new.key = flight[f].key /\ new.waiters = flight[f].waiters
              /\ new.ctx = flight[f].ctx
              /\ UNCHANGED <<registry, request>>
<1>0. IsFlight(flight[f])
  BY DEF Shape
<1> DEFINE Moved(new) == /\ IsFlight(new) /\ new.pc \notin {"free", "exited"}
                         /\ new.key = flight[f].key /\ new.waiters = flight[f].waiters
                         /\ new.ctx = flight[f].ctx
<1>a. ASSUME NEW x
      PROVE  Moved(Ended(f, x)) /\ Moved([Ended(f, x) EXCEPT !.base = flight[f].base])
  BY DEF Ended, FreeFlight, IsFlight, FlightFields
<1>b. ASSUME NEW new, Continue(f, new), Moved(new), Unfinished(f)
      PROVE  \E x : /\ flight' = [flight EXCEPT ![f] = x] /\ Moved(x) /\ Unfinished(f)
                    /\ UNCHANGED <<registry, request>>
  BY <1>b DEF Continue
<1>1. CASE RecheckCache(f)
  <2> DEFINE a == cache[flight[f].key.member]
  <2>1. PICK new \in {[flight[f] EXCEPT !.pc = "profile"], Ended(f, a),
                      [flight[f] EXCEPT !.pc = "catalog", !.base = a, !.fetched = a.fetched]} :
           Continue(f, new)
    BY <1>1 DEF RecheckCache
  <2>2. /\ Moved([flight[f] EXCEPT !.pc = "profile"])
        /\ Moved([flight[f] EXCEPT !.pc = "catalog", !.base = a, !.fetched = a.fetched])
    BY <1>0 DEF IsFlight, FlightFields
  <2>3. Moved(new)
    <3>1. Moved(Ended(f, a))
      BY <1>a
    <3> HIDE DEF Moved
    <3> QED
      BY <2>1, <2>2, <3>1
  <2> HIDE DEF Moved
  <2> QED
    BY <1>1, <1>b, <2>1, <2>3 DEF RecheckCache, Unfinished, Moved
<1>2. CASE ReadProfile(f)
  <2> DEFINE new == [flight[f] EXCEPT !.pc = "catalog",
                                      !.fetched = refreshes[flight[f].key.member]]
  <2>1. Continue(f, new) /\ Unfinished(f)
    BY <1>2 DEF ReadProfile, Unfinished
  <2>2. Moved(new)
    BY <1>0 DEF IsFlight, FlightFields
  <2> HIDE DEF new
  <2> QED
    BY <1>b, <2>1, <2>2
<1>3. CASE LoadFails(f)
  BY <1>a, <1>b, <1>3 DEF LoadFails, Unfinished
<1>4. CASE LookUpCatalog(f)
  <2>1. PICK c : flight' = [flight EXCEPT ![f].pc = "tree", ![f].catalog = c]
    BY <1>4 DEF LookUpCatalog
  <2> DEFINE new == [flight[f] EXCEPT !.pc = "tree", !.catalog = c]
  <2>2. Moved(new)
    BY <1>0 DEF IsFlight, FlightFields
  <2>3. flight' = [flight EXCEPT ![f] = new] /\ Unfinished(f)
        /\ UNCHANGED <<registry, request>>
    BY <1>4, <2>1 DEF LookUpCatalog, Unfinished
  <2> HIDE DEF new
  <2> QED
    BY <2>2, <2>3
<1>5. CASE NotReady(f)
  BY <1>a, <1>b, <1>5 DEF NotReady, Unfinished
<1>6. CASE LookUpTree(f)
  <2>1. PICK new \in {[flight[f] EXCEPT !.pc = "publish", !.base = None, !.tree = tree],
                      [flight[f] EXCEPT !.pc = "nodes"]} : Continue(f, new)
    BY <1>6 DEF LookUpTree
  <2>2. Moved(new)
    BY <1>0, <2>1 DEF IsFlight, FlightFields
  <2> QED
    BY <1>6, <1>b, <2>1, <2>2 DEF LookUpTree, Unfinished
<1>7. CASE ReadNodes(f)
  <2>1. PICK t : Continue(f, [flight[f] EXCEPT !.pc = "storeTree", !.base = None, !.tree = t])
    BY <1>7 DEF ReadNodes
  <2>2. Moved([flight[f] EXCEPT !.pc = "storeTree", !.base = None, !.tree = t])
    BY <1>0 DEF IsFlight, FlightFields
  <2> QED
    BY <1>7, <1>b, <2>1, <2>2 DEF ReadNodes, Unfinished
<1>8. CASE PublishTree(f)
  <2>1. Moved([flight[f] EXCEPT !.pc = "publish"])
    BY <1>0 DEF IsFlight, FlightFields
  <2> QED
    BY <1>8, <1>b, <2>1 DEF PublishTree, Unfinished
<1>9. CASE PublishAnalysis(f)
  BY <1>a, <1>b, <1>9 DEF PublishAnalysis, Unfinished
<1> QED
  BY <1>1, <1>2, <1>3, <1>4, <1>5, <1>6, <1>7, <1>8, <1>9 DEF Load

\* A step that keeps who waits on what, and every load's key and place in its
\* life, keeps callers, loads and registry in step.
LEMMA SharingKept ==
    ASSUME Sharing, UNCHANGED registry,
           \A r \in Requests :
              \/ request'[r] = request[r]
              \/ /\ request[r].pc # "waiting" /\ request'[r].pc # "waiting"
                 /\ request'[r].flight = None,
           \A f \in Flights :
              /\ flight'[f].pc = "free" <=> flight[f].pc = "free"
              /\ flight'[f].pc = "exited" <=> flight[f].pc = "exited"
              /\ flight'[f].key = flight[f].key /\ flight'[f].waiters = flight[f].waiters
              /\ flight'[f].ctx = flight[f].ctx \/ flight'[f].ctx = "deadline"
    PROVE  Sharing'
<1>0. WaitingOnTheirs /\ WaitersCounted /\ RegistryInStep /\ None \notin Flights
  BY CollectionsAssumption DEF Sharing
<1>1. \A f \in Flights : Unfinished(f)' <=> Unfinished(f)
  BY DEF Unfinished
<1>2. \A f \in Flights : Waiting(f)' = Waiting(f)
  BY <1>0 DEF WaitingOnTheirs, Waiting
<1>3. WaitingOnTheirs'
  BY <1>0 DEF WaitingOnTheirs
<1>4. WaitersCounted'
  BY <1>0, <1>1, <1>2 DEF WaitersCounted
<1>5. RegistryInStep'
  BY <1>0, <1>1, <1>2 DEF RegistryInStep, StillLive
<1> QED
  BY <1>3, <1>4, <1>5 DEF Sharing

\* Who waits on what once a caller has moved.
LEMMA WaitingAfter ==
    ASSUME NEW r \in Requests, NEW new, request = [q \in Requests |-> request[q]],
           request' = [request EXCEPT ![r] = new]
    PROVE  \A f : Waiting(f)' = IF new.flight = f THEN Waiting(f) \cup {r}
                                ELSE Waiting(f) \ {r}
<1>1. \A q \in Requests : request'[q] = IF q = r THEN new ELSE request[q]
  OBVIOUS
<1> QED
  BY <1>1 DEF Waiting

\* A flight stays as it was or, exited and of no more use, is free again.
LEMMA CollectedExited ==
    ASSUME NEW fl, NEW rq, NEW f \in Flights
    PROVE  /\ Collected(fl, rq)[f] \in {fl[f], FreeFlight}
           /\ Collected(fl, rq)[f] # fl[f] =>
                 fl[f].pc = "exited" /\ \A r \in Requests : rq[r].flight # f
BY DEF Collected

\* A caller that joins a live load is counted there; one that finds none starts a
\* load that takes the place of any ended one with its key.
LEMMA JoinShares ==
    ASSUME Sharing, Shape, NEW r \in Requests, Join(r)
    PROVE  Sharing'
<1>0. /\ WaitingOnTheirs /\ WaitersCounted /\ RegistryInStep /\ None \notin Flights
      /\ request = [q \in Requests |-> request[q]] /\ flight = [f \in Flights |-> flight[f]]
      /\ IsRequest(request[r]) /\ \A f \in Flights : IsFlight(flight[f])
  BY CollectionsAssumption DEF Sharing, Shape
<1>1. request[r].pc = "asked" /\ request[r].flight = None
  BY <1>0 DEF Join, WaitingOnTheirs
<1> DEFINE same == {f \in registry : SameLoad(flight[f].key, request[r].key)}
           joinable == {f \in same : StillLive(f)}
<1>2. ASSUME NEW f \in Flights,
             request' = [request EXCEPT ![r].pc = "waiting", ![r].flight = f]
      PROVE  /\ \A g \in Flights : Waiting(g)' = IF g = f THEN Waiting(g) \cup {r}
                                                ELSE Waiting(g)
             /\ r \notin Waiting(f)
             /\ \A q \in Requests : q # r => request'[q] = request[q]
             /\ request'[r].pc = "waiting" /\ request'[r].flight = f
             /\ request'[r].key = request[r].key
  <2> DEFINE new == [request[r] EXCEPT !.pc = "waiting", !.flight = f]
  <2>1. /\ request' = [request EXCEPT ![r] = new]
        /\ new.pc = "waiting" /\ new.flight = f /\ new.key = request[r].key
    BY <1>0, <1>2 DEF IsRequest, RequestFields
  <2> HIDE DEF new
  <2>2. \A g \in Flights : Waiting(g)' = IF g = f THEN Waiting(g) \cup {r}
                                       ELSE Waiting(g) \ {r}
    BY <1>0, <2>1, WaitingAfter
  <2>3. \A g \in Flights : r \notin Waiting(g)
    BY <1>0, <1>1 DEF Waiting
  <2>4. \A g \in Flights : Waiting(g)' = IF g = f THEN Waiting(g) \cup {r} ELSE Waiting(g)
    BY <2>2, <2>3
  <2>5. \A q \in Requests : request'[q] = IF q = r THEN new ELSE request[q]
    BY <1>0, <2>1
  <2> QED
    BY <2>1, <2>3, <2>4, <2>5
<1>3. CASE joinable # {}
  <2>1. PICK f \in joinable :
           /\ flight' = [flight EXCEPT ![f].waiters = @ + 1]
           /\ request' = [request EXCEPT ![r].pc = "waiting", ![r].flight = f]
           /\ UNCHANGED registry
    BY <1>3 DEF Join
  <2>2. f \in Flights /\ f \in registry /\ flight[f].key = request[r].key /\ Unfinished(f)
    BY <1>0 DEF RegistryInStep, SameLoad
  <2> DEFINE new == [flight[f] EXCEPT !.waiters = @ + 1]
  <2>3. /\ flight' = [flight EXCEPT ![f] = new]
        /\ new.pc = flight[f].pc /\ new.key = flight[f].key /\ new.ctx = flight[f].ctx
        /\ new.waiters = flight[f].waiters + 1
    BY <1>0, <2>1, <2>2 DEF IsFlight, FlightFields
  <2> HIDE DEF new
  <2>4. \A g \in Flights :
           /\ flight'[g].pc = flight[g].pc /\ flight'[g].key = flight[g].key
           /\ flight'[g].ctx = flight[g].ctx
           /\ flight'[g].waiters = IF g = f THEN flight[g].waiters + 1 ELSE flight[g].waiters
    BY <1>0, <2>3
  <2>5. /\ \A g \in Flights : Waiting(g)' = IF g = f THEN Waiting(g) \cup {r} ELSE Waiting(g)
        /\ r \notin Waiting(f)
        /\ \A q \in Requests : q # r => request'[q] = request[q]
        /\ request'[r].pc = "waiting" /\ request'[r].flight = f
        /\ request'[r].key = request[r].key
    BY <1>2, <2>1, <2>2
  <2>6. \A g \in Flights : Unfinished(g)' <=> Unfinished(g)
    BY <2>4 DEF Unfinished
  <2>7. WaitingOnTheirs'
    BY <1>0, <2>2, <2>4, <2>5 DEF WaitingOnTheirs, Unfinished
  <2>8. WaitersCounted'
    <3> SUFFICES ASSUME NEW g \in Flights, Unfinished(g)
                 PROVE  /\ IsFiniteSet(Waiting(g)') /\ flight'[g].waiters = Cardinality(Waiting(g)')
                        /\ flight'[g].ctx = "cancelled" => Waiting(g)' = {}
      BY <2>6 DEF WaitersCounted
    <3>1. /\ IsFiniteSet(Waiting(g)) /\ flight[g].waiters = Cardinality(Waiting(g))
          /\ flight[g].ctx = "cancelled" => Waiting(g) = {}
      BY <1>0 DEF WaitersCounted
    <3>2. flight[f].ctx # "cancelled"
      BY <1>0, <2>2 DEF RegistryInStep
    <3>3. /\ IsFiniteSet(Waiting(g) \cup {r})
          /\ Cardinality(Waiting(g) \cup {r}) =
                IF r \in Waiting(g) THEN Cardinality(Waiting(g)) ELSE Cardinality(Waiting(g)) + 1
      BY <3>1, FS_AddElement
    <3>4. CASE g = f
      BY <2>4, <2>5, <3>1, <3>2, <3>3, <3>4
    <3>5. CASE g # f
      BY <2>4, <2>5, <3>1, <3>5
    <3> QED
      BY <3>4, <3>5
  <2>9. RegistryInStep'
    <3>1. \A g \in registry :
             Unfinished(g)' /\ flight'[g].ctx # "cancelled" /\ Waiting(g)' # {}
      <4>1. \A g \in Flights : Waiting(g) # {} => Waiting(g)' # {}
        BY <2>5
      <4> QED
        BY <1>0, <2>4, <2>6, <4>1 DEF RegistryInStep
    <3>2. \A g \in Flights :
             Unfinished(g)' /\ StillLive(g)' /\ Waiting(g)' # {} => g \in registry
      BY <1>0, <2>2, <2>4, <2>5, <2>6 DEF RegistryInStep, StillLive
    <3>3. \A g, h \in registry : g # h => flight'[g].key # flight'[h].key
      <4>1. \A g \in registry : flight'[g].key = flight[g].key
        BY <1>0, <2>4 DEF RegistryInStep
      <4> QED
        BY <1>0, <4>1 DEF RegistryInStep
    <3> QED
      BY <1>0, <2>1, <3>1, <3>2, <3>3 DEF RegistryInStep
  <2> QED
    BY <2>7, <2>8, <2>9 DEF Sharing
<1>4. CASE joinable = {}
  <2>1. PICK f \in Flights :
           /\ flight[f].pc = "free"
           /\ flight' = [flight EXCEPT ![f] = NewFlight(request[r].key)]
           /\ request' = [request EXCEPT ![r].pc = "waiting", ![r].flight = f]
           /\ registry' = (registry \ same) \cup {f}
    BY <1>4 DEF Join
  <2> DEFINE new == NewFlight(request[r].key)
  <2>2. /\ flight' = [flight EXCEPT ![f] = new]
        /\ new.pc = "recheck" /\ new.key = request[r].key /\ new.ctx = "live" /\ new.waiters = 1
    BY <2>1 DEF NewFlight, FreeFlight
  <2> HIDE DEF new
  <2>3. \A g \in Flights : flight'[g] = IF g = f THEN new ELSE flight[g]
    BY <1>0, <2>2
  <2>4. /\ \A g \in Flights : Waiting(g)' = IF g = f THEN Waiting(g) \cup {r} ELSE Waiting(g)
        /\ r \notin Waiting(f)
        /\ \A q \in Requests : q # r => request'[q] = request[q]
        /\ request'[r].pc = "waiting" /\ request'[r].flight = f
        /\ request'[r].key = request[r].key
    BY <1>2, <2>1
  <2>5. Waiting(f) = {} /\ Waiting(f)' = {r} /\ f \notin registry
    <3>1. Waiting(f) = {}
      BY <1>0, <2>1 DEF WaitingOnTheirs, Waiting
    <3> QED
      BY <1>0, <2>1, <2>4, <3>1 DEF RegistryInStep, Unfinished
  <2>6. \A g \in Flights : Unfinished(g)' <=> Unfinished(g) \/ g = f
    BY <2>2, <2>3 DEF Unfinished
  <2>7. WaitingOnTheirs'
    BY <1>0, <2>1, <2>2, <2>3, <2>4 DEF WaitingOnTheirs
  <2>8. WaitersCounted'
    <3>1. IsFiniteSet({r}) /\ Cardinality({r}) = 1
      BY FS_Singleton
    <3> SUFFICES ASSUME NEW g \in Flights, Unfinished(g)'
                 PROVE  /\ IsFiniteSet(Waiting(g)') /\ flight'[g].waiters = Cardinality(Waiting(g)')
                        /\ flight'[g].ctx = "cancelled" => Waiting(g)' = {}
      BY DEF WaitersCounted
    <3>2. CASE g = f
      BY <2>2, <2>3, <2>5, <3>1, <3>2
    <3>3. CASE g # f
      BY <1>0, <2>3, <2>4, <2>6, <3>3 DEF WaitersCounted
    <3> QED
      BY <3>2, <3>3
  <2>9. RegistryInStep'
    <3>1. registry' \subseteq Flights
      BY <1>0, <2>1 DEF RegistryInStep
    <3>2. \A g \in registry' :
             Unfinished(g)' /\ flight'[g].ctx # "cancelled" /\ Waiting(g)' # {}
      BY <1>0, <2>1, <2>2, <2>3, <2>4, <2>5, <2>6 DEF RegistryInStep
    <3>3. \A g \in Flights :
             Unfinished(g)' /\ StillLive(g)' /\ Waiting(g)' # {} => g \in registry'
      <4> SUFFICES ASSUME NEW g \in Flights, Unfinished(g)', StillLive(g)', Waiting(g)' # {},
                          g # f
                   PROVE  g \in registry'
        BY <2>1
      <4>1. Unfinished(g) /\ StillLive(g) /\ Waiting(g) # {}
        BY <2>3, <2>4, <2>6 DEF StillLive
      <4>2. g \in registry /\ g \notin same
        BY <1>0, <1>4, <4>1 DEF RegistryInStep
      <4> QED
        BY <2>1, <4>2
    <3>4. \A g, h \in registry' : g # h => flight'[g].key # flight'[h].key
      BY <1>0, <2>1, <2>2, <2>3, <2>5 DEF RegistryInStep, SameLoad
    <3> QED
      BY <3>1, <3>2, <3>3, <3>4 DEF RegistryInStep
  <2> QED
    BY <2>7, <2>8, <2>9 DEF Sharing
<1> QED
  BY <1>3, <1>4

\* Collecting an exited flight that nobody waits on changes nothing of this.
LEMMA AnsweredShares ==
    ASSUME Sharing, Shape, NEW r \in Requests, Answered(r)
    PROVE  Sharing'
<1>0. /\ WaitingOnTheirs /\ WaitersCounted /\ RegistryInStep /\ None \notin Flights
      /\ request = [q \in Requests |-> request[q]]
  BY CollectionsAssumption DEF Sharing, Shape
<1>1. /\ request' = [request EXCEPT ![r] = NoRequest]
      /\ flight' = Collected(flight, request') /\ UNCHANGED registry
      /\ flight[request[r].flight].pc = "exited" /\ request[r].flight \in Flights
  BY <1>0 DEF Answered, Finished, WaitingOnTheirs
<1>2. NoRequest.pc = "idle" /\ NoRequest.flight = None /\ FreeFlight.pc = "free"
  BY DEF NoRequest, FreeFlight
<1>3. \A q \in Requests : request'[q] = IF q = r THEN NoRequest ELSE request[q]
  BY <1>0, <1>1
<1>4. \A f \in Flights : Waiting(f)' = Waiting(f) \ {r}
  BY <1>0, <1>1, <1>2, WaitingAfter
<1>5. \A f \in Flights :
         \/ flight'[f] = flight[f]
         \/ /\ flight[f].pc = "exited" /\ flight'[f].pc = "free"
            /\ \A q \in Requests : request'[q].flight # f
  <2> DEFINE rq == [request EXCEPT ![r] = NoRequest]
  <2>1. flight' = Collected(flight, rq) /\ request' = rq
    BY <1>1
  <2> HIDE DEF rq
  <2> QED
    BY <1>2, <2>1, CollectedExited
<1>6. \A f \in Flights : /\ Unfinished(f)' <=> Unfinished(f)
                         /\ Unfinished(f) => flight'[f] = flight[f] /\ r \notin Waiting(f)
  BY <1>1, <1>5 DEF Unfinished, Waiting
<1>7. \A f \in Flights : Unfinished(f) => Waiting(f)' = Waiting(f)
  BY <1>4, <1>6
<1>8. WaitingOnTheirs'
  BY <1>0, <1>2, <1>3, <1>5 DEF WaitingOnTheirs
<1>9. WaitersCounted'
  BY <1>0, <1>6, <1>7 DEF WaitersCounted
<1>10. RegistryInStep'
  BY <1>0, <1>1, <1>6, <1>7 DEF RegistryInStep, StillLive
<1> QED
  BY <1>8, <1>9, <1>10 DEF Sharing

\* The last caller to leave a running load takes it out of the registry.
LEMMA DepartShares ==
    ASSUME Sharing, Shape, NEW r \in Requests, Depart(r)
    PROVE  Sharing'
<1>0. /\ WaitingOnTheirs /\ WaitersCounted /\ RegistryInStep /\ None \notin Flights
      /\ request = [q \in Requests |-> request[q]] /\ flight = [f \in Flights |-> flight[f]]
      /\ \A f \in Flights : IsFlight(flight[f])
  BY CollectionsAssumption DEF Sharing, Shape
<1> PICK f \in Flights : request[r].flight = f
  BY <1>0 DEF Depart, WaitingOnTheirs
<1> DEFINE ctx == IF Ends(f) /\ flight[f].ctx = "live" THEN "cancelled" ELSE flight[f].ctx
           new == [flight[f] EXCEPT !.waiters = @ - 1, !.ctx = ctx]
<1>1. f \in Flights /\ Unfinished(f) /\ r \in Waiting(f)
  BY <1>0 DEF Depart, WaitingOnTheirs, Unfinished, Finished, Waiting
<1>2. /\ flight' = [flight EXCEPT ![f] = new]
      /\ request' = [request EXCEPT ![r] = NoRequest]
      /\ registry' = IF Ends(f) THEN registry \ {f} ELSE registry
  BY DEF Depart, RegistryAfter
<1>3. /\ new.pc = flight[f].pc /\ new.key = flight[f].key
      /\ new.waiters = flight[f].waiters - 1 /\ new.ctx = ctx
  BY <1>0, <1>1 DEF IsFlight, FlightFields
<1>4. /\ NoRequest.pc = "idle" /\ NoRequest.flight = None
  BY DEF NoRequest
<1>5. flight[f].ctx = "cancelled" => Waiting(f) = {}
  BY <1>0, <1>1 DEF WaitersCounted
<1>6. /\ ctx = "cancelled" => Ends(f)
      /\ ctx = "live" => flight[f].ctx = "live" /\ ~Ends(f)
  BY <1>1, <1>5
<1>7. Ends(f) <=> flight[f].waiters = 1
  BY DEF Ends
<1> HIDE DEF ctx, new
<1>8. \A g \in Flights : flight'[g] = IF g = f THEN new ELSE flight[g]
  BY <1>0, <1>2
<1>9. \A q \in Requests : request'[q] = IF q = r THEN NoRequest ELSE request[q]
  BY <1>0, <1>2
<1>10. \A g \in Flights : Waiting(g)' = Waiting(g) \ {r}
  BY <1>0, <1>2, <1>4, WaitingAfter
<1>11. \A g \in Flights : g # f => Waiting(g)' = Waiting(g)
  <2>1. \A g \in Flights : g # f => r \notin Waiting(g)
    BY DEF Waiting
  <2> QED
    BY <1>10, <2>1
<1>12. \A g \in Flights : /\ Unfinished(g)' <=> Unfinished(g)
                          /\ flight'[g].key = flight[g].key /\ flight'[g].pc = flight[g].pc
  BY <1>3, <1>8 DEF Unfinished
<1>13. /\ IsFiniteSet(Waiting(f)') /\ new.waiters = Cardinality(Waiting(f)')
       /\ Ends(f) <=> Waiting(f)' = {}
  <2>1. IsFiniteSet(Waiting(f)) /\ flight[f].waiters = Cardinality(Waiting(f))
    BY <1>0, <1>1 DEF WaitersCounted
  <2>2. /\ IsFiniteSet(Waiting(f) \ {r})
        /\ Cardinality(Waiting(f) \ {r}) = Cardinality(Waiting(f)) - 1
    BY <1>1, <2>1, FS_RemoveElement
  <2>3. Cardinality(Waiting(f)) \in Nat
    BY <2>1, FS_CardinalityType
  <2>4. Cardinality(Waiting(f) \ {r}) = 0 <=> Waiting(f) \ {r} = {}
    BY <2>2, FS_EmptySet
  <2> QED
    <3>1. Waiting(f)' = Waiting(f) \ {r}
      BY <1>1, <1>10
    <3>2. new.waiters = Cardinality(Waiting(f) \ {r})
      BY <1>3, <2>1, <2>2
    <3>3. Ends(f) <=> Waiting(f) \ {r} = {}
      BY <1>7, <2>1, <2>2, <2>3, <2>4
    <3> QED
      BY <2>2, <3>1, <3>2, <3>3
<1>14. WaitingOnTheirs'
  BY <1>0, <1>4, <1>9, <1>12 DEF WaitingOnTheirs
<1>15. WaitersCounted'
  <2> SUFFICES ASSUME NEW g \in Flights, Unfinished(g)
               PROVE  /\ IsFiniteSet(Waiting(g)') /\ flight'[g].waiters = Cardinality(Waiting(g)')
                      /\ flight'[g].ctx = "cancelled" => Waiting(g)' = {}
    BY <1>12 DEF WaitersCounted
  <2>1. CASE g = f
    BY <1>3, <1>6, <1>8, <1>13, <2>1
  <2>2. CASE g # f
    BY <1>0, <1>8, <1>11, <2>2 DEF WaitersCounted
  <2> QED
    BY <2>1, <2>2
<1>16. RegistryInStep'
  <2>1. registry' \subseteq Flights /\ registry' \subseteq registry
    BY <1>0, <1>2 DEF RegistryInStep
  <2>2. \A g \in registry' :
           Unfinished(g)' /\ flight'[g].ctx # "cancelled" /\ Waiting(g)' # {}
    <3> SUFFICES ASSUME NEW g \in registry'
                 PROVE  Unfinished(g)' /\ flight'[g].ctx # "cancelled" /\ Waiting(g)' # {}
      OBVIOUS
    <3>1. g \in Flights /\ Unfinished(g) /\ flight[g].ctx # "cancelled" /\ Waiting(g) # {}
      BY <1>0, <2>1 DEF RegistryInStep
    <3>2. g = f => ~Ends(f)
      BY <1>2
    <3>3. Waiting(g)' # {}
      BY <1>11, <1>13, <3>1, <3>2
    <3>4. flight'[g].ctx # "cancelled"
      BY <1>3, <1>6, <1>8, <3>1, <3>2
    <3> QED
      BY <1>12, <3>1, <3>3, <3>4
  <2>3. \A g \in Flights :
           Unfinished(g)' /\ StillLive(g)' /\ Waiting(g)' # {} => g \in registry'
    <3> SUFFICES ASSUME NEW g \in Flights, Unfinished(g)', StillLive(g)', Waiting(g)' # {}
                 PROVE  g \in registry'
      OBVIOUS
    <3>1. StillLive(g) /\ (g = f => ~Ends(f)) /\ Waiting(g) # {}
      BY <1>3, <1>6, <1>8, <1>10 DEF StillLive
    <3> QED
      BY <1>0, <1>2, <1>12, <3>1 DEF RegistryInStep
  <2>4. \A g, h \in registry' : g # h => flight'[g].key # flight'[h].key
    BY <1>0, <1>12, <2>1 DEF RegistryInStep
  <2> QED
    BY <2>1, <2>2, <2>3, <2>4 DEF RegistryInStep
<1> QED
  BY <1>14, <1>15, <1>16 DEF Sharing

\* A load that finishes leaves the registry.
LEMMA FinishShares ==
    ASSUME Sharing, Shape, NEW f \in Flights, Finish(f)
    PROVE  Sharing'
<1>0. /\ WaitingOnTheirs /\ WaitersCounted /\ RegistryInStep /\ None \notin Flights
      /\ flight = [g \in Flights |-> flight[g]] /\ \A g \in Flights : IsFlight(flight[g])
  BY CollectionsAssumption DEF Sharing, Shape
<1>1. PICK res : flight' = Collected([flight EXCEPT ![f] =
            [flight[f] EXCEPT !.pc = "exited", !.ctx = "cancelled", !.waiters = 0,
                              !.result = res]], request)
  BY DEF Finish
<1> DEFINE done == [flight[f] EXCEPT !.pc = "exited", !.ctx = "cancelled", !.waiters = 0,
                                     !.result = res]
           fl == [flight EXCEPT ![f] = done]
<1>2. done.pc = "exited" /\ done.key = flight[f].key
  BY <1>0 DEF IsFlight, FlightFields
<1>3. /\ flight' = Collected(fl, request) /\ registry' = registry \ {f}
      /\ UNCHANGED request /\ flight[f].pc = "finish"
  BY <1>1 DEF Finish
<1> HIDE DEF done
<1>4. \A g \in Flights : fl[g] = IF g = f THEN done ELSE flight[g]
  BY <1>0
<1> HIDE DEF fl
<1>5. \A g \in Flights :
         \/ flight'[g] = fl[g]
         \/ /\ fl[g].pc = "exited" /\ flight'[g].pc = "free"
            /\ \A q \in Requests : request[q].flight # g
  BY <1>3, CollectedExited DEF FreeFlight
<1>6. \A g \in Flights : /\ Unfinished(g)' <=> Unfinished(g) /\ g # f
                         /\ Unfinished(g)' => flight'[g] = flight[g]
  BY <1>2, <1>4, <1>5 DEF Unfinished
<1>7. \A g \in Flights : Waiting(g)' = Waiting(g)
  BY <1>3 DEF Waiting
<1>8. WaitingOnTheirs'
  BY <1>0, <1>2, <1>3, <1>4, <1>5 DEF WaitingOnTheirs
<1>9. WaitersCounted'
  BY <1>0, <1>6, <1>7 DEF WaitersCounted
<1>10. RegistryInStep'
  BY <1>0, <1>3, <1>6, <1>7 DEF RegistryInStep, StillLive
<1> QED
  BY <1>8, <1>9, <1>10 DEF Sharing

\* So callers, loads and the registry agree in every reachable state.
LEMMA SharingInductive == Spec => []Sharing
<1>1. Init => Sharing
  <2> SUFFICES ASSUME Init
               PROVE  Sharing
    OBVIOUS
  <2>1. /\ \A r \in Requests : request[r].pc = "idle" /\ request[r].flight = None
        /\ \A f \in Flights : flight[f].pc = "free"
        /\ registry = {}
    BY DEF Init, NoRequest, FreeFlight
  <2> QED
    BY <2>1 DEF Sharing, WaitingOnTheirs, WaitersCounted, RegistryInStep, Unfinished
<1>2. IInv /\ Sharing /\ [Next]_vars => Sharing'
  <2> SUFFICES ASSUME Shape, Sharing, [Next]_vars
               PROVE  Sharing'
    BY DEF IInv
  <2>1. ASSUME UNCHANGED <<registry, flight, request>>
        PROVE  Sharing'
    BY <2>1, SharingKept
  <2>2. CASE Download \/ (\E m \in Members : Invalidate(m) \/ Expire(m)) \/ UNCHANGED vars
    BY <2>1, <2>2 DEF Download, CloseForSwap, RollBack, InstallAndReopen, TellItems,
                      TellCollections, Invalidate, Expire, vars
  <2>3. ASSUME NEW r \in Requests,
               (\E m \in Members, c \in Credentials : Ask(r, m, c)) \/ Hit(r) \/ GiveUp(r)
        PROVE  Sharing'
    <3>1. PICK new : /\ request' = [request EXCEPT ![r] = new]
                     /\ new.pc # "waiting" /\ new.flight = None
      <4>1. CASE request' = [request EXCEPT ![r] = NoRequest]
        <5>1. NoRequest.pc = "idle" /\ NoRequest.flight = None
          BY DEF NoRequest
        <5> QED
          BY <4>1, <5>1
      <4>2. ASSUME NEW key,
                   request' = [request EXCEPT ![r] = [NoRequest EXCEPT !.pc = "asked", !.key = key]]
            PROVE  \E new : /\ request' = [request EXCEPT ![r] = new]
                            /\ new.pc # "waiting" /\ new.flight = None
        <5> DEFINE new == [NoRequest EXCEPT !.pc = "asked", !.key = key]
        <5>1. new.pc = "asked" /\ new.flight = None
          BY DEF NoRequest
        <5> HIDE DEF new
        <5>2. request' = [request EXCEPT ![r] = new]
          BY <4>2 DEF new
        <5> QED
          BY <5>1, <5>2
      <4> QED
        BY <2>3, <4>1, <4>2 DEF Ask, Hit, GiveUp
    <3>2. request[r].pc # "waiting" /\ UNCHANGED <<registry, flight>>
      BY <2>3 DEF Ask, Hit, GiveUp
    <3>3. \A q \in Requests : request'[q] = IF q = r THEN new ELSE request[q]
      BY <3>1 DEF Shape
    <3> QED
      BY <3>1, <3>2, <3>3, SharingKept
  <2>4. ASSUME NEW r \in Requests, Join(r) \/ Answered(r) \/ Cancel(r) \/ TimeOut(r)
        PROVE  Sharing'
    BY <2>4, JoinShares, AnsweredShares, DepartShares DEF Cancel, TimeOut
  <2>5. ASSUME NEW f \in Flights, Deadline(f)
        PROVE  Sharing'
    <3> DEFINE new == [flight[f] EXCEPT !.ctx = "deadline"]
    <3>1. /\ flight' = [flight EXCEPT ![f] = new] /\ UNCHANGED <<registry, request>>
          /\ flight[f].ctx = "live"
      BY <2>5 DEF Deadline
    <3>2. /\ new.pc = flight[f].pc /\ new.key = flight[f].key
          /\ new.waiters = flight[f].waiters /\ new.ctx = "deadline"
      BY DEF Shape, IsFlight, FlightFields
    <3> HIDE DEF new
    <3>3. \A g \in Flights : flight'[g] = IF g = f THEN new ELSE flight[g]
      BY <3>1 DEF Shape
    <3> QED
      BY <3>1, <3>2, <3>3, SharingKept
  <2>6. ASSUME NEW f \in Flights, Load(f), ~Finish(f)
        PROVE  Sharing'
    <3>1. PICK new : /\ flight' = [flight EXCEPT ![f] = new]
                     /\ Unfinished(f) /\ new.pc \notin {"free", "exited"}
                     /\ new.key = flight[f].key /\ new.waiters = flight[f].waiters
                     /\ new.ctx = flight[f].ctx
                     /\ UNCHANGED <<registry, request>>
      BY <2>6, LoadMoves
    <3>2. \A g \in Flights : flight'[g] = IF g = f THEN new ELSE flight[g]
      BY <3>1 DEF Shape
    <3> QED
      BY <3>1, <3>2, SharingKept DEF Unfinished
  <2> QED
    BY <2>2, <2>3, <2>4, <2>5, <2>6, FinishShares DEF Next, Caller
<1> QED
  BY <1>1, <1>2, Inductive, PTL DEF Spec

\* A caller leaving never takes the load from those still waiting.
THEOREM CancelsPrivately == Spec => []CancelIsPrivate
<1>1. Sharing /\ IInv => CancelIsPrivate
  <2> SUFFICES ASSUME Sharing, NEW f \in Flights, flight[f].ctx = "cancelled", ~Finished(f),
                      NEW r \in Requests, request[r].flight = f
               PROVE  FALSE
    BY DEF CancelIsPrivate, Waiting
  <2>1. None \notin Flights
    BY CollectionsAssumption
  <2>2. flight[f].pc # "free"
    BY <2>1 DEF Sharing, WaitingOnTheirs
  <2> QED
    BY <2>2 DEF Sharing, WaitersCounted, Unfinished, Finished, Waiting
<1> QED
  BY <1>1, SharingInductive, Inductive, PTL

\* Completed, failed and abandoned loads leave the registry, no other does, and
\* callers with the same key share one load.
THEOREM RegistryIsRight == Spec => []RegistryHoldsRunningLoads
<1>1. Sharing => RegistryHoldsRunningLoads
  <2> SUFFICES ASSUME Sharing
               PROVE  RegistryHoldsRunningLoads
    OBVIOUS
  <2>1. \A f \in registry : /\ flight[f].pc \notin {"free", "exited"}
                            /\ flight[f].ctx # "cancelled" /\ Waiting(f) # {}
    BY DEF Sharing, RegistryInStep, Unfinished
  <2>2. ASSUME NEW f \in Flights, ~Finished(f), Waiting(f) # {}, StillLive(f)
        PROVE  f \in registry
    <3>1. None \notin Flights
      BY CollectionsAssumption
    <3>2. flight[f].pc # "free"
      BY <2>2, <3>1 DEF Sharing, WaitingOnTheirs, Waiting
    <3> QED
      BY <2>2, <3>2 DEF Sharing, RegistryInStep, Unfinished, Finished
  <2>3. \A f, g \in registry : f # g => flight[f].key # flight[g].key
    BY DEF Sharing, RegistryInStep
  <2> QED
    BY <2>1, <2>2, <2>3 DEF RegistryHoldsRunningLoads
<1> QED
  BY <1>1, SharingInductive, PTL

\* Abandoned or timed-out loads leave nothing behind: what fills the cache or
\* the tree is a live load that a caller is waiting on.
THEOREM NothingPublishedLate == Spec => NoLatePublication
<1> DEFINE Filled == \/ /\ tree' \in {tree, None}
                        /\ \A m \in Members : cache'[m] \in {cache[m], None}
                     \/ \E f \in Flights :
                           /\ flight[f].pc \in {"storeTree", "publish"}
                           /\ flight'[f].pc # flight[f].pc
                           /\ StillLive(f) /\ Waiting(f) # {}
<1>1. IInv /\ Sharing /\ [Next]_vars =>
         [\/ /\ tree' \in {tree, None}
             /\ \A m \in Members : cache'[m] \in {cache[m], None}
          \/ \E f \in Flights :
                /\ flight[f].pc \in {"storeTree", "publish"} /\ flight'[f].pc # flight[f].pc
                /\ StillLive(f) /\ Waiting(f) # {}]_vars
  <2> SUFFICES ASSUME Shape, Sharing, Next
               PROVE  Filled
    BY DEF IInv
  <2>0. cache = [m \in Members |-> cache[m]]
    BY DEF Shape
  <2>1. ASSUME UNCHANGED <<tree, cache>>
        PROVE  Filled
    BY <2>1
  <2>2. CASE Download
    BY <2>2 DEF Download, CloseForSwap, RollBack, InstallAndReopen, TellItems, TellCollections
  <2>3. ASSUME NEW m \in Members, Invalidate(m) \/ Expire(m)
        PROVE  Filled
    BY <2>0, <2>3 DEF Invalidate, Expire
  <2>4. ASSUME NEW r \in Requests, Caller(r)
        PROVE  UNCHANGED <<tree, cache>>
    BY <2>4 DEF Caller, Ask, Hit, Join, GiveUp, Answered, Cancel, TimeOut, Depart
  <2>5. ASSUME NEW f \in Flights, Active(f)
        PROVE  StillLive(f) /\ Waiting(f) # {}
    BY <2>5 DEF Active, Sharing, RegistryInStep
  <2>6. ASSUME NEW f \in Flights, PublishTree(f)
        PROVE  Filled
    <3>1. flight'[f].pc = "publish" /\ flight[f].pc = "storeTree" /\ UNCHANGED cache
      BY <2>6 DEF PublishTree, Continue, Shape, IsFlight, FlightFields
    <3>2. CASE Active(f)
      BY <2>5, <3>1, <3>2
    <3>3. CASE ~Active(f)
      BY <2>1, <2>6, <3>1, <3>3 DEF PublishTree
    <3> QED
      BY <3>2, <3>3
  <2>7. ASSUME NEW f \in Flights, PublishAnalysis(f)
        PROVE  Filled
    <3>1. flight'[f].pc = "finish" /\ flight[f].pc = "publish" /\ UNCHANGED tree
      BY <2>7 DEF PublishAnalysis, Continue, Ended, Shape, FreeFlight
    <3>2. CASE Active(f)
      BY <2>5, <3>1, <3>2
    <3>3. CASE ~Active(f)
      BY <2>1, <2>7, <3>1, <3>3 DEF PublishAnalysis
    <3> QED
      BY <3>2, <3>3
  <2>8. ASSUME NEW f \in Flights, Deadline(f) \/ Load(f), ~PublishTree(f), ~PublishAnalysis(f)
        PROVE  UNCHANGED <<tree, cache>>
    BY <2>8 DEF Deadline, Load, RecheckCache, ReadProfile, LoadFails, LookUpCatalog, NotReady,
                LookUpTree, ReadNodes, Finish
  <2> HIDE DEF Filled
  <2> QED
    BY <2>1, <2>2, <2>3, <2>4, <2>6, <2>7, <2>8 DEF Next
<1> QED
  BY <1>1, SharingInductive, Inductive, PTL DEF Spec, NoLatePublication

-----------------------------------------------------------------------------
(* What loads return. *)

\* A step in which loads at most end, and callers at most leave: each load
\* keeps its key and what it has read, or loses its result, or is free again.
Settling ==
    \A f \in Flights :
        \/ flight'[f] = FreeFlight
        \/ /\ flight'[f].key = flight[f].key /\ flight'[f].base = flight[f].base
           /\ flight'[f].catalog = flight[f].catalog /\ flight'[f].tree = flight[f].tree
           /\ flight'[f].result \in {flight[f].result, None}
           /\ \/ flight'[f].pc = flight[f].pc
              \/ flight[f].pc = "finish" /\ flight'[f].pc = "exited"

\* Callers that leave or are answered, deadlines and finished loads settle.
LEMMA SettlingSteps ==
    ASSUME Shape, NEW x,
           \/ x \in Requests /\ (Hit(x) \/ GiveUp(x) \/ Answered(x) \/ Depart(x))
           \/ x \in Flights /\ (Deadline(x) \/ Finish(x))
    PROVE  Settling
<1>0. /\ flight = [f \in Flights |-> flight[f]] /\ \A f \in Flights : IsFlight(flight[f])
  BY DEF Shape
<1>1. CASE UNCHANGED flight
  BY <1>1 DEF Settling
<1>2. ASSUME NEW f, NEW new, flight' = [flight EXCEPT ![f] = new],
             f \in Flights =>
                /\ new.key = flight[f].key /\ new.base = flight[f].base
                /\ new.catalog = flight[f].catalog /\ new.tree = flight[f].tree
                /\ new.result = flight[f].result /\ new.pc = flight[f].pc
      PROVE  Settling
  <2>1. \A g \in Flights : flight'[g] = IF g = f THEN new ELSE flight[g]
    BY <1>0, <1>2
  <2> QED
    BY <1>2, <2>1 DEF Settling
<1>3. ASSUME x \in Requests, Answered(x)
      PROVE  Settling
  <2> DEFINE rq == [request EXCEPT ![x] = NoRequest]
  <2>1. flight' = Collected(flight, rq)
    BY <1>3 DEF Answered
  <2> HIDE DEF rq
  <2>2. \A f \in Flights : flight'[f] \in {flight[f], FreeFlight}
    BY <2>1, CollectedExited
  <2> QED
    BY <2>2 DEF Settling
<1>4. ASSUME x \in Requests, Depart(x)
      PROVE  Settling
  <2> DEFINE f == request[x].flight
  <2>1. PICK w, c : flight' = [flight EXCEPT ![f].waiters = w, ![f].ctx = c]
    BY <1>4 DEF Depart
  <2> DEFINE new == [flight[f] EXCEPT !.waiters = w, !.ctx = c]
  <2>2. flight' = [flight EXCEPT ![f] = new]
    BY <2>1
  <2>3. f \in Flights =>
           /\ new.key = flight[f].key /\ new.base = flight[f].base
           /\ new.catalog = flight[f].catalog /\ new.tree = flight[f].tree
           /\ new.result = flight[f].result /\ new.pc = flight[f].pc
    <3>1. f \in Flights => IsFlight(flight[f])
      BY <1>0
    <3> HIDE DEF f
    <3> QED
      BY <3>1 DEF IsFlight, FlightFields
  <2> HIDE DEF new, f
  <2> QED
    BY <1>2, <2>2, <2>3
<1>5. ASSUME x \in Flights, Deadline(x)
      PROVE  Settling
  <2> DEFINE new == [flight[x] EXCEPT !.ctx = "deadline"]
  <2>1. flight' = [flight EXCEPT ![x] = new]
    BY <1>5 DEF Deadline
  <2>2. /\ new.key = flight[x].key /\ new.base = flight[x].base
        /\ new.catalog = flight[x].catalog /\ new.tree = flight[x].tree
        /\ new.result = flight[x].result /\ new.pc = flight[x].pc
    BY <1>0, <1>5 DEF IsFlight, FlightFields
  <2> HIDE DEF new
  <2> QED
    BY <1>2, <2>1, <2>2
<1>6. ASSUME x \in Flights, Finish(x)
      PROVE  Settling
  <2>1. PICK res \in {flight[x].result, None} :
           flight' = Collected([flight EXCEPT ![x] =
              [flight[x] EXCEPT !.pc = "exited", !.ctx = "cancelled", !.waiters = 0,
                                !.result = res]], request)
    BY <1>6 DEF Finish
  <2> DEFINE done == [flight[x] EXCEPT !.pc = "exited", !.ctx = "cancelled", !.waiters = 0,
                                       !.result = res]
             fl == [flight EXCEPT ![x] = done]
  <2>2. /\ done.key = flight[x].key /\ done.base = flight[x].base
        /\ done.catalog = flight[x].catalog /\ done.tree = flight[x].tree
        /\ done.result = res /\ done.pc = "exited"
    BY <1>0, <1>6 DEF IsFlight, FlightFields
  <2>3. flight' = Collected(fl, request) /\ flight[x].pc = "finish"
    BY <1>6, <2>1 DEF Finish
  <2> HIDE DEF done
  <2>4. \A g \in Flights : fl[g] = IF g = x THEN done ELSE flight[g]
    BY <1>0
  <2> HIDE DEF fl
  <2>5. \A g \in Flights : flight'[g] \in {fl[g], FreeFlight}
    BY <2>3, CollectedExited
  <2> QED
    BY <2>2, <2>3, <2>4, <2>5 DEF Settling
<1> QED
  BY <1>1, <1>3, <1>4, <1>5, <1>6 DEF Hit, GiveUp

\* A caller that joins a load changes nothing of it but its waiters; the load it
\* starts has read nothing.
LEMMA JoinSettles ==
    ASSUME Shape, NEW r \in Requests, Join(r)
    PROVE  \/ Settling
           \/ \E f \in Flights :
                 flight' = [flight EXCEPT ![f] = NewFlight(request[r].key)]
<1>1. ASSUME NEW f, flight' = [flight EXCEPT ![f].waiters = @ + 1]
      PROVE  Settling
  <2> DEFINE new == [flight[f] EXCEPT !.waiters = @ + 1]
  <2>1. flight' = [flight EXCEPT ![f] = new]
    BY <1>1
  <2>2. f \in Flights =>
           /\ new.key = flight[f].key /\ new.base = flight[f].base
           /\ new.catalog = flight[f].catalog /\ new.tree = flight[f].tree
           /\ new.result = flight[f].result /\ new.pc = flight[f].pc
    BY DEF Shape, IsFlight, FlightFields
  <2> HIDE DEF new
  <2>3. \A g \in Flights : flight'[g] = IF g = f THEN new ELSE flight[g]
    BY <2>1 DEF Shape
  <2> QED
    BY <2>2, <2>3 DEF Settling
<1> QED
  BY <1>1 DEF Join

\* A free flight, and one that has just begun, promise nothing yet.
LEMMA BlankFlights ==
    ASSUME NEW key, Begun(key.manifest)
    PROVE  /\ FlightResults(FreeFlight) /\ FlightLabels(FreeFlight)
           /\ FlightResults(NewFlight(key)) /\ FlightLabels(NewFlight(key))
<1>1. FreeFlight.pc = "free" /\ FreeFlight.base = None /\ FreeFlight.result = None
  BY DEF FreeFlight
<1>2. /\ NewFlight(key).pc = "recheck" /\ NewFlight(key).key = key
      /\ NewFlight(key).base = None /\ NewFlight(key).result = None
  BY DEF NewFlight, FreeFlight
<1> QED
  BY <1>1, <1>2 DEF FlightResults, FlightLabels

\* What a load reads and returns is right for its key: since the refresh it was
\* asked for under, and of the manifest that began its generation or newer.
LEMMA LoadReads ==
    ASSUME IInv, ResultsSinceRefresh, Labels, NEW f \in Flights, Load(f), ~Finish(f)
    PROVE  \E new : /\ flight' = [flight EXCEPT ![f] = new]
                    /\ FlightResults(new) /\ FlightLabels(new)
<1> DEFINE x == flight[f]
<1>0. /\ IsFlight(x) /\ FlightResults(x) /\ FlightLabels(x)
      /\ InstallInStep /\ SharedLabels
      /\ x.pc \notin {"free", "finish", "exited"} =>
            /\ CapturedBy(x.key)
            /\ HasProfile(f) => x.fetched \in Nat /\ x.fetched >= x.key.refresh
      /\ \A m \in Members :
            cache[m] # None => cache[m].fetched \in Nat /\ cache[m].fetched >= refreshes[m]
      /\ refreshes \in [Members -> Nat]
  BY DEF IInv, Shape, LoadsSinceRefresh, ResultsSinceRefresh, Labels
<1>a. ASSUME NEW new, Continue(f, new)
      PROVE  flight' = [flight EXCEPT ![f] = new]
  BY <1>a DEF Continue
<1>b. ASSUME NEW result
      PROVE  /\ Ended(f, result).pc = "finish" /\ Ended(f, result).key = x.key
             /\ Ended(f, result).base = None /\ Ended(f, result).result = result
             /\ [Ended(f, result) EXCEPT !.base = x.base].pc = "finish"
             /\ [Ended(f, result) EXCEPT !.base = x.base].key = x.key
             /\ [Ended(f, result) EXCEPT !.base = x.base].base = x.base
             /\ [Ended(f, result) EXCEPT !.base = x.base].result = result
  BY DEF Ended, FreeFlight
<1>c. CASE RecheckCache(f)
  <2> DEFINE a == cache[x.key.member]
  <2>1. x.pc = "recheck" /\ x.key.member \in Members /\ Begun(x.key.manifest)
    BY <1>0, <1>c DEF RecheckCache, CapturedBy, FlightLabels
  <2>2. a # None => /\ a.fetched \in Nat /\ a.fetched >= x.key.refresh
                    /\ LabelledAnalysis(a, a.builtUnder)
    <3>1. a # None => a.fetched >= refreshes[x.key.member]
      BY <1>0, <2>1
    <3> QED
      BY <1>0, <2>1, <3>1 DEF CapturedBy, SharedLabels
  <2>3. CASE a = None
    <3> DEFINE new == [x EXCEPT !.pc = "profile"]
    <3>1. Continue(f, new)
      BY <1>c, <2>3 DEF RecheckCache
    <3>2. new.pc = "profile" /\ new.key = x.key /\ new.base = x.base /\ new.result = x.result
      BY <1>0 DEF IsFlight, FlightFields
    <3> HIDE DEF new, x
    <3> QED
      BY <1>0, <1>a, <2>1, <3>1, <3>2 DEF FlightResults, FlightLabels
  <2>4. CASE a # None /\ a.builtUnder = x.key.manifest
    <3>1. Continue(f, Ended(f, a))
      BY <1>c, <2>4 DEF RecheckCache
    <3> DEFINE new == Ended(f, a)
    <3>2. /\ new.pc = "finish" /\ new.key = x.key /\ new.base = None /\ new.result = a
      BY <1>b
    <3> HIDE DEF new, x
    <3> QED
      BY <1>a, <2>1, <2>2, <2>4, <3>1, <3>2 DEF FlightResults, FlightLabels, new
  <2>5. CASE a # None /\ a.builtUnder # x.key.manifest
    <3> DEFINE new == [x EXCEPT !.pc = "catalog", !.base = a, !.fetched = a.fetched]
    <3>1. Continue(f, new)
      BY <1>c, <2>5 DEF RecheckCache
    <3>2. new.pc = "catalog" /\ new.key = x.key /\ new.base = a /\ new.result = x.result
      BY <1>0 DEF IsFlight, FlightFields
    <3> HIDE DEF new, x
    <3> QED
      BY <1>0, <1>a, <2>1, <2>2, <2>5, <3>1, <3>2 DEF FlightResults, FlightLabels
  <2> QED
    BY <2>3, <2>4, <2>5
<1>d. CASE ReadProfile(f)
  <2> DEFINE new == [x EXCEPT !.pc = "catalog", !.fetched = refreshes[x.key.member]]
  <2>1. x.pc = "profile" /\ Continue(f, new)
    BY <1>d DEF ReadProfile
  <2>2. new.pc = "catalog" /\ new.key = x.key /\ new.base = x.base /\ new.result = x.result
    BY <1>0 DEF IsFlight, FlightFields
  <2> HIDE DEF new, x
  <2> QED
    BY <1>0, <1>a, <2>1, <2>2 DEF FlightResults, FlightLabels
<1>e. CASE LoadFails(f)
  <2> DEFINE new == Ended(f, None)
  <2>1. x.pc \in {"profile", "catalog", "nodes"} /\ Continue(f, new)
    BY <1>e DEF LoadFails
  <2>2. new.pc = "finish" /\ new.key = x.key /\ new.base = None /\ new.result = None
    BY <1>b
  <2> HIDE DEF new, x
  <2> QED
    BY <1>0, <1>a, <2>1, <2>2 DEF FlightResults, FlightLabels
<1>f. CASE LookUpCatalog(f)
  <2> DEFINE c == IF itemsCatalog # None THEN itemsCatalog ELSE installed
             new == [x EXCEPT !.pc = "tree", !.catalog = c]
  <2>1. x.pc = "catalog" /\ flight' = [flight EXCEPT ![f] = new]
    BY <1>f DEF LookUpCatalog
  <2>2. /\ new.pc = "tree" /\ new.key = x.key /\ new.base = x.base /\ new.result = x.result
        /\ new.catalog = c
    BY <1>0 DEF IsFlight, FlightFields
  <2>3. Begun(x.key.manifest)
    BY <1>0, <2>1 DEF FlightLabels
  <2>4. Labelled(c, x.key.manifest)
    BY <1>0, <2>3 DEF InstallInStep, Begun, Labelled
  <2> HIDE DEF new, x, c
  <2> QED
    BY <1>0, <2>1, <2>2, <2>3, <2>4 DEF FlightResults, FlightLabels
<1>g. CASE NotReady(f)
  <2> DEFINE new == [Ended(f, x.base) EXCEPT !.base = x.base]
  <2>1. x.pc \in {"catalog", "nodes"} /\ Continue(f, new)
    BY <1>g DEF NotReady
  <2>2. new.pc = "finish" /\ new.key = x.key /\ new.base = x.base /\ new.result = x.base
    BY <1>b
  <2> HIDE DEF new, x
  <2> QED
    BY <1>0, <1>a, <2>1, <2>2 DEF FlightResults, FlightLabels
<1>h. CASE LookUpTree(f)
  <2>1. x.pc = "tree" /\ Begun(x.key.manifest)
    BY <1>0, <1>h DEF LookUpTree, FlightLabels
  <2>2. CASE tree # None
    <3> DEFINE new == [x EXCEPT !.pc = "publish", !.base = None, !.tree = tree]
    <3>1. Continue(f, new)
      BY <1>h, <2>2 DEF LookUpTree
    <3>2. /\ new.pc = "publish" /\ new.key = x.key /\ new.base = None /\ new.result = x.result
          /\ new.catalog = x.catalog /\ new.tree = tree
      BY <1>0 DEF IsFlight, FlightFields
    <3>3. LabelledTree(tree, x.key.manifest)
      BY <1>0, <2>1, <2>2 DEF SharedLabels, LabelledTree, Labelled, Begun, InstallInStep
    <3> HIDE DEF new, x
    <3> QED
      BY <1>0, <1>a, <2>1, <3>1, <3>2, <3>3 DEF FlightResults, FlightLabels
  <2>3. CASE tree = None
    <3> DEFINE new == [x EXCEPT !.pc = "nodes"]
    <3>1. Continue(f, new)
      BY <1>h, <2>3 DEF LookUpTree
    <3>2. /\ new.pc = "nodes" /\ new.key = x.key /\ new.base = x.base
          /\ new.result = x.result /\ new.catalog = x.catalog
      BY <1>0 DEF IsFlight, FlightFields
    <3> HIDE DEF new, x
    <3> QED
      BY <1>0, <1>a, <2>1, <3>1, <3>2 DEF FlightResults, FlightLabels
  <2> QED
    BY <2>2, <2>3
<1>i. CASE ReadNodes(f)
  <2> DEFINE t == [nodes |-> installed, catalog |-> x.catalog]
             new == [x EXCEPT !.pc = "storeTree", !.base = None, !.tree = t]
  <2>1. x.pc = "nodes" /\ Continue(f, new)
    BY <1>i DEF ReadNodes
  <2>2. /\ new.pc = "storeTree" /\ new.key = x.key /\ new.base = None
        /\ new.result = x.result /\ new.catalog = x.catalog /\ new.tree = t
    BY <1>0 DEF IsFlight, FlightFields
  <2>3. Begun(x.key.manifest) /\ Labelled(x.catalog, x.key.manifest)
    BY <1>0, <2>1 DEF FlightLabels
  <2>4. LabelledTree(t, x.key.manifest)
    BY <1>0, <2>3 DEF LabelledTree, Labelled, Begun, InstallInStep
  <2> HIDE DEF new, x, t
  <2> QED
    BY <1>0, <1>a, <2>1, <2>2, <2>3, <2>4 DEF FlightResults, FlightLabels
<1>j. CASE PublishTree(f)
  <2> DEFINE new == [x EXCEPT !.pc = "publish"]
  <2>1. x.pc = "storeTree" /\ Continue(f, new)
    BY <1>j DEF PublishTree
  <2>2. /\ new.pc = "publish" /\ new.key = x.key /\ new.base = x.base
        /\ new.result = x.result /\ new.catalog = x.catalog /\ new.tree = x.tree
    BY <1>0 DEF IsFlight, FlightFields
  <2> HIDE DEF new, x
  <2> QED
    BY <1>0, <1>a, <2>1, <2>2 DEF FlightResults, FlightLabels
<1>k. CASE PublishAnalysis(f)
  <2> DEFINE new == Ended(f, Built(f))
  <2>1. x.pc = "publish" /\ Continue(f, new)
    BY <1>k DEF PublishAnalysis
  <2>2. new.pc = "finish" /\ new.key = x.key /\ new.base = None /\ new.result = Built(f)
    BY <1>b
  <2>3. /\ Built(f).fetched = x.fetched /\ Built(f).catalog = x.catalog
        /\ Built(f).tree = x.tree
    BY DEF Built
  <2>4. x.fetched \in Nat /\ x.fetched >= x.key.refresh
    BY <1>0, <2>1 DEF HasProfile
  <2> HIDE DEF new, x
  <2> QED
    BY <1>0, <1>a, <2>1, <2>2, <2>3, <2>4 DEF FlightResults, FlightLabels, LabelledAnalysis
<1> QED
  BY <1>c, <1>d, <1>e, <1>f, <1>g, <1>h, <1>i, <1>j, <1>k DEF Load

\* Keys, generations and manifests only grow, so that what was right for a load
\* stays right while the manifest does.
LEMMA SettlingKeeps ==
    ASSUME ResultsSinceRefresh, Labels, Settling, UNCHANGED <<fence, installed>>
    PROVE  ResultsSinceRefresh' /\ \A f \in Flights : FlightLabels(flight[f])'
<1> SUFFICES ASSUME NEW f \in Flights
             PROVE  FlightResults(flight[f])' /\ FlightLabels(flight[f])'
  BY DEF ResultsSinceRefresh
<1>1. FlightResults(flight[f]) /\ FlightLabels(flight[f])
  BY DEF ResultsSinceRefresh, Labels
<1>2. CASE flight'[f] = FreeFlight
  BY <1>2 DEF FlightResults, FlightLabels, FreeFlight
<1>3. CASE flight'[f] # FreeFlight
  <2>1. /\ flight'[f].key = flight[f].key /\ flight'[f].base = flight[f].base
        /\ flight'[f].catalog = flight[f].catalog /\ flight'[f].tree = flight[f].tree
        /\ flight'[f].result \in {flight[f].result, None}
        /\ \/ flight'[f].pc = flight[f].pc
           \/ flight[f].pc = "finish" /\ flight'[f].pc = "exited"
    BY <1>3 DEF Settling
  <2> QED
    BY <1>1, <2>1 DEF FlightResults, FlightLabels, Begun, Labelled, LabelledTree,
                      LabelledAnalysis
<1> QED
  BY <1>2, <1>3

\* Labels stay right while the file and the generation only move on.
LEMMA LabelsGrow ==
    ASSUME InstallInStep, installed' \in Nat, installed' >= installed,
           fence'.generation \in Nat, fence'.generation >= fence.generation
    PROVE  /\ \A generation : Begun(generation) => Begun(generation)'
           /\ \A t, generation : LabelledTree(t, generation) => LabelledTree(t, generation)'
           /\ \A a, generation :
                 LabelledAnalysis(a, generation) => LabelledAnalysis(a, generation)'
           /\ \A x : FlightLabels(x) => FlightLabels(x)'
<1>1. \A generation : Begun(generation) => Begun(generation)'
  BY DEF Begun, InstallInStep
<1>2. \A v, generation : Labelled(v, generation) => Labelled(v, generation)'
  BY DEF Labelled, InstallInStep
<1>3. \A t, generation : LabelledTree(t, generation) => LabelledTree(t, generation)'
  BY <1>2 DEF LabelledTree
<1>4. \A a, generation : LabelledAnalysis(a, generation) => LabelledAnalysis(a, generation)'
  BY <1>2, <1>3 DEF LabelledAnalysis
<1>5. \A x : FlightLabels(x) => FlightLabels(x)'
  BY <1>1, <1>2, <1>3, <1>4 DEF FlightLabels
<1> QED
  BY <1>1, <1>3, <1>4, <1>5

\* A swap installs before it tells Items, and tells Items before Collections:
\* the fence then names the manifest in the file, and everything read so far
\* was read under an older generation or from a newer file.
LEMMA SwapLabels ==
    ASSUME ResultsSinceRefresh, Labels, Download
    PROVE  ResultsSinceRefresh' /\ Labels'
<1>0. /\ UNCHANGED <<cache, flight, request>>
      /\ InstallInStep /\ SharedLabels
  BY DEF Download, CloseForSwap, RollBack, InstallAndReopen, TellItems, TellCollections, Labels
<1>1. /\ InstallInStep'
      /\ installed' \in Nat /\ installed' >= installed
      /\ fence'.generation \in Nat /\ fence'.generation >= fence.generation
      /\ tree' = None \/ UNCHANGED <<tree, fence>>
  <2>1. CASE CloseForSwap \/ RollBack
    BY <1>0, <2>1 DEF CloseForSwap, RollBack, InstallInStep, generationVars
  <2>2. CASE InstallAndReopen
    BY <1>0, <2>2 DEF InstallAndReopen, InstallInStep, generationVars, Observers
  <2>3. CASE TellItems
    BY <1>0, <2>3 DEF TellItems, Told, InstallInStep, generationVars, Observers
  <2>4. CASE TellCollections
    <3>1. /\ swap = "collections" /\ swap' = "idle" /\ UNCHANGED <<installed, itemsCatalog>>
          /\ fence.generation = installed
      BY <1>0, <2>4 DEF TellCollections, Told, Observers, InstallInStep
    <3>2. Retires(fence, installed)
      BY <1>0, <3>1 DEF Retires, NoVersion, InstallInStep
    <3>3. fence' = [generation |-> fence.generation + 1, version |-> installed] /\ tree' = None
      BY <2>4, <3>2 DEF TellCollections, Advanced
    <3> QED
      BY <1>0, <3>1, <3>3 DEF InstallInStep
  <2> QED
    BY <2>1, <2>2, <2>3, <2>4 DEF Download
<1>2. /\ \A generation : Begun(generation) => Begun(generation)'
      /\ \A t, generation : LabelledTree(t, generation) => LabelledTree(t, generation)'
      /\ \A a, generation :
            LabelledAnalysis(a, generation) => LabelledAnalysis(a, generation)'
      /\ \A x : FlightLabels(x) => FlightLabels(x)'
  BY <1>0, <1>1, LabelsGrow
<1>3. ResultsSinceRefresh'
  BY <1>0 DEF ResultsSinceRefresh, FlightResults
<1>4. \A f \in Flights : FlightLabels(flight[f])'
  BY <1>0, <1>2 DEF Labels
<1>5. SharedLabels'
  BY <1>0, <1>1, <1>2 DEF SharedLabels
<1> QED
  BY <1>1, <1>3, <1>4, <1>5 DEF Labels

\* What a load publishes for others is labelled right: the fence lets it publish
\* only under the generation it began in.
LEMMA LoadLabels ==
    ASSUME IInv, Labels, NEW f \in Flights, Load(f), ~Finish(f)
    PROVE  InstallInStep' /\ SharedLabels' /\ UNCHANGED <<installed, fence>>
<1>0. /\ InstallInStep /\ SharedLabels /\ FlightLabels(flight[f])
      /\ cache = [m \in Members |-> cache[m]]
  BY DEF Labels, IInv, Shape
<1>1. UNCHANGED <<installed, swap, fence, request>>
  BY DEF Load, RecheckCache, ReadProfile, LoadFails, LookUpCatalog, NotReady, LookUpTree,
         ReadNodes, PublishTree, PublishAnalysis, Continue, manifestVars, generationVars
<1>2. InstallInStep'
  <2>1. itemsCatalog' \in {itemsCatalog, installed}
    BY DEF Load, RecheckCache, ReadProfile, LoadFails, LookUpCatalog, NotReady, LookUpTree,
           ReadNodes, PublishTree, PublishAnalysis, Continue
  <2> QED
    BY <1>0, <1>1, <2>1 DEF InstallInStep
<1>3. /\ \A generation : Begun(generation)' <=> Begun(generation)
      /\ \A t, generation : LabelledTree(t, generation)' <=> LabelledTree(t, generation)
      /\ \A a, generation :
            LabelledAnalysis(a, generation)' <=> LabelledAnalysis(a, generation)
  BY <1>1 DEF Begun, LabelledAnalysis, LabelledTree, Labelled
<1>4. tree' # None => LabelledTree(tree', fence.generation)
  <2>1. CASE tree' = tree
    BY <1>0, <2>1 DEF SharedLabels
  <2>2. CASE tree' # tree
    <3>1. PublishTree(f)
      BY <2>2 DEF Load, RecheckCache, ReadProfile, LoadFails, LookUpCatalog, NotReady,
                  LookUpTree, ReadNodes, PublishAnalysis
    <3>2. /\ flight[f].pc = "storeTree" /\ tree' = flight[f].tree
          /\ flight[f].key.manifest = fence.generation
      BY <2>2, <3>1 DEF PublishTree, IsCurrent
    <3> QED
      BY <1>0, <3>2 DEF FlightLabels
  <2> QED
    BY <2>1, <2>2
<1>5. \A m \in Members : cache'[m] # None =>
         Begun(cache'[m].builtUnder) /\ LabelledAnalysis(cache'[m], cache'[m].builtUnder)
  <2>1. CASE cache' = cache
    BY <1>0, <2>1 DEF SharedLabels
  <2>2. CASE cache' # cache
    <3>1. PublishAnalysis(f)
      BY <2>2 DEF Load, RecheckCache, ReadProfile, LoadFails, LookUpCatalog, NotReady,
                  LookUpTree, ReadNodes, PublishTree
    <3>2. /\ flight[f].pc = "publish"
          /\ cache' = [cache EXCEPT ![flight[f].key.member] = Built(f)]
      BY <2>2, <3>1 DEF PublishAnalysis
    <3>3. /\ Begun(Built(f).builtUnder) /\ LabelledAnalysis(Built(f), Built(f).builtUnder)
      <4>1. /\ Begun(flight[f].key.manifest)
            /\ Labelled(flight[f].catalog, flight[f].key.manifest)
            /\ LabelledTree(flight[f].tree, flight[f].key.manifest)
        BY <1>0, <3>2 DEF FlightLabels
      <4> QED
        BY <4>1 DEF Built, LabelledAnalysis
    <3>4. \A m \in Members : cache'[m] \in {cache[m], Built(f)}
      BY <1>0, <3>2
    <3> QED
      BY <1>0, <3>3, <3>4 DEF SharedLabels
  <2> QED
    BY <2>1, <2>2
<1>6. SharedLabels'
  BY <1>0, <1>1, <1>3, <1>4, <1>5 DEF SharedLabels
<1> QED
  BY <1>1, <1>2, <1>6

\* Every load returns what is right for its key, in every reachable state.
LEMMA LabelsInductive == Spec => [](ResultsSinceRefresh /\ Labels)
<1>1. Init => ResultsSinceRefresh /\ Labels
  <2> SUFFICES ASSUME Init
               PROVE  ResultsSinceRefresh /\ Labels
    OBVIOUS
  <2>1. InstallInStep /\ SharedLabels
    BY DEF Init, InstallInStep, SharedLabels, NewFence, NoVersion, NoRequest, InertAttempt
  <2>2. \A f \in Flights : FlightResults(flight[f]) /\ FlightLabels(flight[f])
    BY DEF Init, FlightResults, FlightLabels, FreeFlight
  <2> QED
    BY <2>1, <2>2 DEF ResultsSinceRefresh, Labels
<1>2. IInv /\ ResultsSinceRefresh /\ Labels /\ [Next]_vars
         => (ResultsSinceRefresh /\ Labels)'
  <2> SUFFICES ASSUME IInv, ResultsSinceRefresh, Labels, [Next]_vars
               PROVE  ResultsSinceRefresh' /\ Labels'
    OBVIOUS
  <2>0. /\ InstallInStep /\ SharedLabels /\ \A f \in Flights : FlightLabels(flight[f])
        /\ flight = [f \in Flights |-> flight[f]]
        /\ request = [r \in Requests |-> request[r]]
        /\ cache = [m \in Members |-> cache[m]]
    BY DEF Labels, IInv, Shape
  <2>1. ASSUME UNCHANGED <<installed, swap, itemsCatalog, fence, tree>>,
               \A m \in Members : cache'[m] \in {cache[m], None},
               \A r \in Requests : \/ request'[r] = request[r]
                                   \/ request'[r].pc # "asked"
                                   \/ Begun(request'[r].key.manifest)
        PROVE  /\ InstallInStep' /\ SharedLabels'
               /\ \A generation : Begun(generation) => Begun(generation)'
               /\ \A x : FlightLabels(x) => FlightLabels(x)'
    <3>1. InstallInStep'
      BY <2>0, <2>1 DEF InstallInStep
    <3>2. /\ \A generation : Begun(generation) => Begun(generation)'
          /\ \A t, generation : LabelledTree(t, generation) => LabelledTree(t, generation)'
          /\ \A a, generation :
                LabelledAnalysis(a, generation) => LabelledAnalysis(a, generation)'
          /\ \A x : FlightLabels(x) => FlightLabels(x)'
      <4>1. /\ installed' \in Nat /\ installed' >= installed
            /\ fence'.generation \in Nat /\ fence'.generation >= fence.generation
        BY <2>0, <2>1 DEF InstallInStep
      <4> QED
        BY <2>0, <4>1, LabelsGrow
    <3>3. SharedLabels'
      BY <2>0, <2>1, <3>2 DEF SharedLabels
    <3> QED
      BY <3>1, <3>2, <3>3
  <2>2. ASSUME UNCHANGED flight, \A x : FlightLabels(x) => FlightLabels(x)'
        PROVE  ResultsSinceRefresh' /\ \A f \in Flights : FlightLabels(flight[f])'
    BY <2>0, <2>2 DEF ResultsSinceRefresh, FlightResults
  <2>3. CASE Download
    BY <2>3, SwapLabels
  <2>4. CASE (\E m \in Members : Invalidate(m) \/ Expire(m)) \/ UNCHANGED vars
    <3>1. /\ UNCHANGED <<installed, swap, itemsCatalog, fence, tree, flight, request>>
          /\ \A m \in Members : cache'[m] \in {cache[m], None}
      BY <2>0, <2>4 DEF Invalidate, Expire, vars, manifestVars, generationVars
    <3> QED
      BY <2>1, <2>2, <3>1 DEF Labels
  <2>5. ASSUME NEW r \in Requests, NEW m \in Members, NEW c \in Credentials, Ask(r, m, c)
        PROVE  ResultsSinceRefresh' /\ Labels'
    <3> DEFINE key == [member |-> m, credential |-> c, manifest |-> fence.generation,
                       refresh |-> BeginRefresh(refresh, m)]
               new == [NoRequest EXCEPT !.pc = "asked", !.key = key]
    <3>1. /\ request' = [request EXCEPT ![r] = new]
          /\ UNCHANGED <<installed, swap, itemsCatalog, fence, tree, flight, cache>>
      BY <2>5 DEF Ask, Begin, manifestVars, generationVars
    <3>2. new.key.manifest = fence.generation
      BY DEF NoRequest
    <3> HIDE DEF new
    <3>3. \A q \in Requests : request'[q] = request[q] \/ Begun(request'[q].key.manifest)
      BY <2>0, <3>1, <3>2 DEF Begun, InstallInStep
    <3> QED
      BY <2>1, <2>2, <3>1, <3>3 DEF Labels
  <2>6. ASSUME NEW x, \/ x \in Requests /\ (Hit(x) \/ GiveUp(x) \/ Answered(x) \/ Depart(x))
                      \/ x \in Flights /\ (Deadline(x) \/ Finish(x))
        PROVE  ResultsSinceRefresh' /\ Labels'
    <3>1. Settling
      BY <2>6, SettlingSteps DEF IInv
    <3>2. /\ UNCHANGED <<installed, swap, itemsCatalog, fence, tree, cache>>
          /\ request' \in {request, [request EXCEPT ![x] = NoRequest]}
      BY <2>6 DEF Hit, GiveUp, Answered, Depart, Deadline, Finish, manifestVars, generationVars
    <3>3. \A q \in Requests : request'[q] = request[q] \/ request'[q].pc # "asked"
      BY <2>0, <3>2 DEF NoRequest
    <3>4. ResultsSinceRefresh' /\ \A f \in Flights : FlightLabels(flight[f])'
      BY <3>1, <3>2, SettlingKeeps
    <3> QED
      BY <2>1, <3>2, <3>3, <3>4 DEF Labels
  <2>7. ASSUME NEW r \in Requests, Join(r)
        PROVE  ResultsSinceRefresh' /\ Labels'
    <3>1. /\ UNCHANGED <<installed, swap, itemsCatalog, fence, tree, cache>>
          /\ request[r].pc = "asked"
      BY <2>7 DEF Join, manifestVars, generationVars
    <3>2. \A q \in Requests : request'[q] = request[q] \/ request'[q].pc # "asked"
      <4>1. PICK f : request' = [request EXCEPT ![r].pc = "waiting", ![r].flight = f]
        BY <2>7 DEF Join
      <4> QED
        BY <2>0, <4>1 DEF IInv, Shape, IsRequest, RequestFields
    <3>3. CASE Settling
      <4>1. ResultsSinceRefresh' /\ \A f \in Flights : FlightLabels(flight[f])'
        BY <3>1, <3>3, SettlingKeeps
      <4> QED
        BY <2>1, <3>1, <3>2, <4>1 DEF Labels
    <3>4. ASSUME NEW f \in Flights, flight' = [flight EXCEPT ![f] = NewFlight(request[r].key)]
          PROVE  ResultsSinceRefresh' /\ Labels'
      <4>1. PICK key : key = request[r].key
        OBVIOUS
      <4>2. Begun(key.manifest)
        BY <2>0, <3>1, <4>1 DEF SharedLabels
      <4>3. FlightResults(NewFlight(key)) /\ FlightLabels(NewFlight(key))
        BY <4>2, BlankFlights
      <4>4. PICK new : new = NewFlight(key)
        OBVIOUS
      <4>5. \A g \in Flights : flight'[g] \in {flight[g], new}
        BY <2>0, <3>4, <4>1, <4>4
      <4>6. FlightResults(new) /\ FlightLabels(new)
        BY <4>3, <4>4
      <4>7. \A g \in Flights : FlightResults(flight'[g]) /\ FlightLabels(flight'[g])
        BY <2>0, <4>5, <4>6 DEF ResultsSinceRefresh
      <4>8. /\ InstallInStep' /\ SharedLabels' /\ \A x : FlightLabels(x) => FlightLabels(x)'
        BY <2>1, <3>1, <3>2
      <4>9. \A x : FlightResults(x)' <=> FlightResults(x)
        BY DEF FlightResults
      <4> QED
        BY <4>7, <4>8, <4>9 DEF Labels, ResultsSinceRefresh
    <3> QED
      BY <2>7, <3>3, <3>4, JoinSettles DEF IInv
  <2>8. ASSUME NEW f \in Flights, Load(f), ~Finish(f)
        PROVE  ResultsSinceRefresh' /\ Labels'
    <3>1. PICK new : /\ flight' = [flight EXCEPT ![f] = new]
                     /\ FlightResults(new) /\ FlightLabels(new)
      BY <2>8, LoadReads
    <3>2. InstallInStep' /\ SharedLabels' /\ UNCHANGED <<installed, fence>>
      BY <2>8, LoadLabels
    <3>3. \A x : FlightLabels(x) => FlightLabels(x)'
      <4>1. /\ installed' \in Nat /\ installed' >= installed
            /\ fence'.generation \in Nat /\ fence'.generation >= fence.generation
        BY <2>0, <3>2 DEF InstallInStep
      <4> QED
        BY <2>0, <4>1, LabelsGrow
    <3>4. \A x : FlightResults(x)' <=> FlightResults(x)
      BY DEF FlightResults
    <3>5. \A g \in Flights : flight'[g] \in {flight[g], new}
      BY <2>0, <3>1
    <3>6. \A g \in Flights : FlightResults(flight'[g]) /\ FlightLabels(flight'[g])
      BY <2>0, <3>1, <3>5 DEF ResultsSinceRefresh
    <3> QED
      BY <3>2, <3>3, <3>4, <3>6 DEF Labels, ResultsSinceRefresh
  <2> QED
    BY <2>3, <2>4, <2>5, <2>6, <2>7, <2>8 DEF Next, Caller, Cancel, TimeOut
<1> QED
  BY <1>1, <1>2, Inductive, PTL DEF Spec

\* A caller is handed what the load it asked for returned.
LEMMA ServedTheirs ==
    ASSUME Sharing, NEW r \in Requests, Served(r)
    PROVE  /\ request[r].flight \in Flights
           /\ flight[request[r].flight].key = request[r].key
           /\ Answer(r) # None /\ Answer(r) = flight[request[r].flight].result
           /\ flight[request[r].flight].pc = "exited"
BY DEF Sharing, WaitingOnTheirs, Served, Answer, Finished

\* The next read after a refresh returns fresh data.
THEOREM FreshAfterRefresh == Spec => []AnswersSinceRefresh
<1>1. Sharing /\ ResultsSinceRefresh => AnswersSinceRefresh
  BY ServedTheirs DEF AnswersSinceRefresh, ResultsSinceRefresh, FlightResults
<1> QED
  BY <1>1, SharingInductive, LabelsInductive, PTL

\* Nobody who asks after Collections has heard of a manifest is given labels
\* from an older one, but for the fallback of a rebuild that met a later swap.
THEOREM FreshAfterSwap == Spec => []AnswersSinceSwap
<1>1. Sharing /\ Labels => AnswersSinceSwap
  <2> SUFFICES ASSUME Sharing, Labels, NEW r \in Requests, Served(r), ~FellBack(r)
               PROVE  LET told == request[r].key.manifest - 1
                      IN /\ Answer(r).catalog >= told
                         /\ Answer(r).tree.catalog >= told
                         /\ Answer(r).tree.nodes >= told
    BY DEF AnswersSinceSwap
  <2>1. LabelledAnalysis(Answer(r), request[r].key.manifest)
    BY ServedTheirs DEF Labels, FlightLabels, FellBack
  <2> QED
    BY <2>1 DEF LabelledAnalysis, LabelledTree, Labelled
<1> QED
  BY <1>1, SharingInductive, LabelsInductive, PTL

\* Between downloads, what would be served as current is of the installed
\* manifest and of no other: the two bounds on a label then meet.
THEOREM SettledOnTheManifest == Spec => []SettledIsCurrent
<1>1. Labels => SettledIsCurrent
  <2> SUFFICES ASSUME Labels, swap = "idle"
               PROVE  SettledIsCurrent
    BY DEF SettledIsCurrent
  <2>1. installed \in Nat /\ fence.generation = installed + 1
    BY DEF Labels, InstallInStep
  <2>2. \A v : Labelled(v, fence.generation) => v = installed
    BY <2>1 DEF Labelled
  <2>3. \A t : LabelledTree(t, fence.generation)
                  => t = [nodes |-> installed, catalog |-> installed]
    BY <2>2 DEF LabelledTree
  <2>4. tree # None => LabelledTree(tree, fence.generation)
    BY DEF Labels, SharedLabels
  <2>5. \A m \in Members : cache[m] # None /\ cache[m].builtUnder = fence.generation =>
           LabelledAnalysis(cache[m], fence.generation)
    BY DEF Labels, SharedLabels
  <2> QED
    BY <2>2, <2>3, <2>4, <2>5 DEF SettledIsCurrent, LabelledAnalysis
<1> QED
  BY <1>1, LabelsInductive, PTL

=============================================================================
