----------------------- MODULE PublicationCacheProofs -----------------------
(***************************************************************************)
(* Theorems about PublicationCache, for any number of keys, loaders,       *)
(* downloads, versions and installations.                                  *)
(***************************************************************************)
EXTENDS PublicationCache, TLAPS

\* The state has its type: attempts and generations are numbers, a cached
\* value is a set of versions.
THEOREM TypeCorrect == Spec => []TypeOK
<1> USE ConstantsAssumption, NoVersionAssumption
    DEF TypeOK, Fence, LoaderState, Absent, InertAttempt
<1>1. Init => TypeOK
  BY DEF Init, NewFence, Idle, EmptyCache
<1>2. TypeOK /\ [Next]_vars => TypeOK'
  <2> SUFFICES ASSUME TypeOK, [Next]_vars
               PROVE  TypeOK'
    OBVIOUS
  <2>1. ASSUME NEW d \in Downloads, NEW v \in Versions, Install(d, v)
        PROVE  TypeOK'
    BY <2>1 DEF Install
  <2>2. ASSUME NEW d \in Downloads, Advance(d)
        PROVE  TypeOK'
    BY <2>2 DEF Advance, Advanced, Retires, EmptyCache
  <2>3. ASSUME NEW w \in Loaders, NEW k \in Keys, BeginLoad(w, k)
        PROVE  TypeOK'
    BY <2>3 DEF BeginLoad, Begin, Idle
  <2>4. ASSUME NEW w \in Loaders, Hit(w) \/ Miss(w) \/ Discard(w)
        PROVE  TypeOK'
    BY <2>4 DEF Hit, Miss, Discard, Idle
  <2>5. ASSUME NEW w \in Loaders, Read(w)
        PROVE  TypeOK'
    BY <2>5 DEF Read
  <2>6. ASSUME NEW w \in Loaders, Publish(w)
        PROVE  TypeOK'
    BY <2>6 DEF Publish, Idle
  <2>7. ASSUME NEW k \in Keys, Expire(k)
        PROVE  TypeOK'
    BY <2>7 DEF Expire
  <2>8. CASE ClearWithoutAdvance
    BY <2>8 DEF ClearWithoutAdvance, EmptyCache
  <2>9. CASE UNCHANGED vars
    BY <2>9 DEF vars
  <2> QED
    BY <2>1, <2>2, <2>3, <2>4, <2>5, <2>6, <2>7, <2>8, <2>9 DEF Next
<1> QED
  BY <1>1, <1>2, PTL DEF Spec

-----------------------------------------------------------------------------
(* The fence. *)

\* A generation that moves is never one that was used before: no attempt taken
\* earlier can equal it.
LEMMA AdvancedIsNew ==
    ASSUME NEW f \in Fence, NEW v \in Versions
    PROVE  /\ Retires(f, v) <=> v # f.version
           /\ Retires(f, v) => Advanced(f, v).generation = f.generation + 1
           /\ ~Retires(f, v) => Advanced(f, v) = f
           /\ Advanced(f, v).version = v
BY NoVersionAssumption DEF Retires, Advanced, Fence

\* The strengthening is inductive: what the current generation's loads have
\* read, and what the cache holds, was installed since the fence last moved.
THEOREM ReadsSeen == Spec => []CurrentReadsSeen
<1> USE DEF TypeOK, CurrentReadsSeen, LoaderState, Absent, InertAttempt
<1>1. Init => CurrentReadsSeen
  BY DEF Init, NewFence, Idle, EmptyCache
<1>2. TypeOK /\ CurrentReadsSeen /\ [Next]_vars => CurrentReadsSeen'
  <2> SUFFICES ASSUME TypeOK, CurrentReadsSeen, [Next]_vars
               PROVE  CurrentReadsSeen'
    OBVIOUS
  <2>1. ASSUME NEW d \in Downloads, NEW v \in Versions, Install(d, v)
        PROVE  CurrentReadsSeen'
    BY <2>1 DEF Install
  <2>2. ASSUME NEW d \in Downloads, Advance(d)
        PROVE  CurrentReadsSeen'
    <3>1. announcing[d] \in Versions
      BY <2>2 DEF Advance
    <3>2. CASE Retires(fence, announcing[d])
      <4>1. fence'.generation = fence.generation + 1 /\ fence.generation \in Nat
        BY <2>2, <3>1, <3>2, AdvancedIsNew DEF Advance, Fence
      <4> QED
        BY <2>2, <3>2, <4>1 DEF Advance, EmptyCache
    <3>3. CASE ~Retires(fence, announcing[d])
      BY <2>2, <3>1, <3>3, AdvancedIsNew DEF Advance
    <3> QED
      BY <3>2, <3>3
  <2>3. ASSUME NEW w \in Loaders, NEW k \in Keys, BeginLoad(w, k)
        PROVE  CurrentReadsSeen'
    BY <2>3 DEF BeginLoad, Begin, Idle, Fence
  <2>4. ASSUME NEW w \in Loaders, Hit(w) \/ Miss(w) \/ Discard(w)
        PROVE  CurrentReadsSeen'
    BY <2>4 DEF Hit, Miss, Discard, Idle, Fence
  <2>5. ASSUME NEW w \in Loaders, Read(w)
        PROVE  CurrentReadsSeen'
    BY <2>5 DEF Read
  <2>6. ASSUME NEW w \in Loaders, Publish(w)
        PROVE  CurrentReadsSeen'
    <3>1. \A k \in Keys : cache'[k] \subseteq seen
      BY <2>6 DEF Publish, IsCurrent
    <3> QED
      BY <2>6, <3>1 DEF Publish, Idle, Fence
  <2>7. ASSUME NEW k \in Keys, Expire(k)
        PROVE  CurrentReadsSeen'
    BY <2>7 DEF Expire
  <2>8. CASE ClearWithoutAdvance
    BY <2>8 DEF ClearWithoutAdvance, EmptyCache
  <2>9. CASE UNCHANGED vars
    BY <2>9 DEF vars
  <2> QED
    BY <2>1, <2>2, <2>3, <2>4, <2>5, <2>6, <2>7, <2>8, <2>9 DEF Next
<1> QED
  BY <1>1, <1>2, TypeCorrect, PTL DEF Spec

-----------------------------------------------------------------------------
(* The cache implements the store that retires everything old in one step. *)

THEOREM ImplementsFencedStore == Spec => FencedSpec
<1> USE DEF TypeOK, CurrentReadsSeen, LoaderState, Absent, Fenced!Absent
<1>1. Init => Fenced!Init
  BY DEF Init, Fenced!Init, EmptyCache, Fenced!Empty
<1>2. TypeOK /\ CurrentReadsSeen /\ [Next]_vars => [Fenced!Next]_(Fenced!vars)
  <2> SUFFICES ASSUME TypeOK, CurrentReadsSeen, [Next]_vars
               PROVE  [Fenced!Next]_(Fenced!vars)
    OBVIOUS
  <2> USE DEF Fenced!vars
  <2>1. ASSUME NEW d \in Downloads, NEW v \in Versions, Install(d, v)
        PROVE  Fenced!Next
    BY <2>1 DEF Install, Fenced!Next, Fenced!Arrive
  <2>2. ASSUME NEW d \in Downloads, Advance(d)
        PROVE  [Fenced!Next]_(Fenced!vars)
    <3>1. CASE Retires(fence, announcing[d])
      <4>1. Fenced!Retire(installed)
        BY <2>2, <3>1 DEF Advance, EmptyCache, Fenced!Retire, Fenced!Empty
      <4> QED
        BY <4>1 DEF Fenced!Next
    <3>2. CASE ~Retires(fence, announcing[d])
      BY <2>2, <3>2 DEF Advance
    <3> QED
      BY <3>1, <3>2
  <2>3. ASSUME NEW w \in Loaders,
               \/ \E k \in Keys : BeginLoad(w, k)
               \/ Hit(w) \/ Miss(w) \/ Discard(w) \/ Read(w)
        PROVE  UNCHANGED Fenced!vars
    BY <2>3 DEF BeginLoad, Hit, Miss, Discard, Read
  <2>4. ASSUME NEW w \in Loaders, Publish(w)
        PROVE  [Fenced!Next]_(Fenced!vars)
    <3>1. CASE IsCurrent(fence, loader[w].attempt)
      <4> DEFINE k == loader[w].key
                 x == loader[w].value
      <4>1. k \in Keys /\ x \in Fenced!Contents
        BY <2>4 DEF Publish, Fenced!Contents
      <4>2. Fenced!Fill(k, x)
        BY <2>4, <3>1 DEF Publish, IsCurrent, Fenced!Fill
      <4> QED
        BY <4>1, <4>2 DEF Fenced!Next
    <3>2. CASE ~IsCurrent(fence, loader[w].attempt)
      BY <2>4, <3>2 DEF Publish
    <3> QED
      BY <3>1, <3>2
  <2>5. ASSUME NEW k \in Keys, Expire(k)
        PROVE  Fenced!Next
    BY <2>5 DEF Expire, Fenced!Next, Fenced!Drop
  <2>6. ASSUME ClearWithoutAdvance
        PROVE  Fenced!Next
    BY <2>6 DEF ClearWithoutAdvance, EmptyCache, Fenced!Next, Fenced!Clear, Fenced!Empty
  <2>7. CASE UNCHANGED vars
    BY <2>7 DEF vars
  <2> QED
    BY <2>1, <2>2, <2>3, <2>4, <2>5, <2>6, <2>7 DEF Next
<1> QED
  BY <1>1, <1>2, TypeCorrect, ReadsSeen, PTL DEF Spec, FencedSpec, Fenced!Spec

-----------------------------------------------------------------------------
(* With downloads that never overlap, nothing stale outlives its announcement. *)

\* A download that runs alone announces what is installed, and an announcement
\* that is a no-op repeats the only version seen since the last one.
LEMMA SerialDownload ==
    ASSUME NEW d, Downloads = {d}
    PROVE  Spec => []SerialSettles(d)
<1> USE DEF TypeOK, SerialSettles
<1>1. Init => SerialSettles(d)
  BY DEF Init, NewFence
<1>2. TypeOK /\ SerialSettles(d) /\ [Next]_vars => SerialSettles(d)'
  <2> SUFFICES ASSUME TypeOK, SerialSettles(d), [Next]_vars
               PROVE  SerialSettles(d)'
    OBVIOUS
  <2>1. ASSUME NEW v \in Versions, Install(d, v)
        PROVE  SerialSettles(d)'
    BY <2>1, NoVersionAssumption DEF Install
  <2>2. CASE Advance(d)
    <3>1. announcing[d] \in Versions
      BY <2>2 DEF Advance
    <3>2. fence'.version = installed
      BY <2>2, <3>1, AdvancedIsNew DEF Advance
    <3>3. seen' = {installed}
      BY <2>2, <3>1, AdvancedIsNew DEF Advance
    <3> QED
      BY <2>2, <3>2, <3>3 DEF Advance
  <2>3. ASSUME \/ \E w \in Loaders :
                     \/ \E k \in Keys : BeginLoad(w, k)
                     \/ Hit(w) \/ Miss(w) \/ Discard(w) \/ Read(w) \/ Publish(w)
               \/ \E k \in Keys : Expire(k)
               \/ ClearWithoutAdvance
        PROVE  SerialSettles(d)'
    BY <2>3 DEF BeginLoad, Hit, Miss, Discard, Read, Publish, Expire, ClearWithoutAdvance
  <2>4. CASE UNCHANGED vars
    BY <2>4 DEF vars
  <2> QED
    BY <2>1, <2>2, <2>3, <2>4 DEF Next
<1> QED
  BY <1>1, <1>2, TypeCorrect, PTL DEF Spec

THEOREM NothingStaleOnceSettled ==
    ASSUME NEW d, Downloads = {d}
    PROVE  Spec => []FreshWhenSettled
<1>1. CurrentReadsSeen /\ SerialSettles(d) => FreshWhenSettled
  BY DEF CurrentReadsSeen, SerialSettles, FreshWhenSettled, Absent
<1> QED
  BY <1>1, ReadsSeen, SerialDownload, PTL

=============================================================================
