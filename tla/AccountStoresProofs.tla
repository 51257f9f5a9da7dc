------------------------- MODULE AccountStoresProofs -------------------------
(***************************************************************************)
(* Proofs about the account's stores, for any number of callers, replicas, *)
(* users, rows and faults.  A section for each store proves an invariant   *)
(* of its steps; the theorems at the end are of the composition.           *)
(***************************************************************************)
EXTENDS AccountStores, Integers, FiniteSetTheorems, TLAPS

-----------------------------------------------------------------------------
(* Roles. *)

RoleFields == {"pc", "kind", "replica", "target", "to", "patch", "old", "scan", "admins"}
RoleCall(x) == x = [f \in RoleFields |-> x[f]]

RolesShape ==
    /\ role = [u \in Users |-> role[u]]
    /\ lock = [x \in Roles!Rows |-> lock[x]]
    /\ call = [c \in Callers |-> call[c]]
    /\ \A c \in Callers : RoleCall(call[c]) /\ call[c].admins \in Nat

\* What a request for a role asks, from its first step to its last.
RoleAsked(c) ==
    call[c].pc \in {"begin", "locked", "scan"} =>
        /\ call[c].target \in Roles!Rows
        /\ call[c].kind \in {"self", "admin", "flag"}
        /\ call[c].kind # "flag" => call[c].target \in Users
        /\ call[c].kind = "self" => call[c].to # Roles!Admin

\* A transaction holds the lock of the row it is to change, and what it read of
\* that row is what the row says.
RoleLocked(c) ==
    call[c].pc \in {"locked", "scan"} =>
        /\ lock[call[c].target] = c
        /\ call[c].kind # "flag" => call[c].old = role[call[c].target]

\* The administrators a demotion has counted.
Counted(c) == {u \in Users : u \notin call[c].scan /\ lock[u] = c /\ role[u] = Roles!Admin}

\* They are locked, and two if it says so: none is counted twice.
RoleCounted(c) ==
    /\ call[c].pc \in {"begin", "locked"} => call[c].admins = 0
    /\ call[c].pc = "scan" =>
          /\ Roles!Demotes(c)
          /\ call[c].scan \subseteq Users
          /\ call[c].admins > 0 => Counted(c) # {}
          /\ call[c].admins > 1 => \E u, v \in Counted(c) : u # v

RoleCallInv(c) == RoleAsked(c) /\ RoleLocked(c) /\ RoleCounted(c)

RolesInv == RolesShape /\ (\A c \in Callers : RoleCallInv(c)) /\ Roles!AdminRemains

\* What a step of a caller leaves to the others: their locks, and the roles in
\* the rows that they have locked.
RolesKept(c) ==
    \A d \in Callers \ {c} :
        /\ \A x \in Roles!Rows : lock[x] = d => lock'[x] = d
        /\ \A u \in Users : lock[u] = d => role'[u] = role[u]

\* A step of one caller that takes no lock and writes no row another has locked
\* disturbs nothing of the others' transactions.
LEMMA RolesOthers ==
  ASSUME RolesInv, NEW c \in Callers, NEW new, call' = [call EXCEPT ![c] = new], RolesKept(c)
  PROVE  \A d \in Callers \ {c} : RoleCallInv(d)'
<1> SUFFICES ASSUME NEW d \in Callers \ {c} PROVE RoleCallInv(d)'
  OBVIOUS
<1>1. call'[d] = call[d]
  BY DEF RolesInv, RolesShape
<1>2. RoleCallInv(d)
  BY DEF RolesInv
<1>3. RoleAsked(d)'
  BY <1>1, <1>2 DEF RoleCallInv, RoleAsked, Roles!Rows, Roles!Admin
<1>4. RoleLocked(d)'
  BY <1>1, <1>2 DEF RoleCallInv, RoleAsked, RoleLocked, RolesKept, Roles!Rows
<1>5. \A u \in Counted(d) : u \in Counted(d)'
  BY <1>1 DEF Counted, RolesKept, Roles!Rows, Roles!Admin
<1>6. RoleCounted(d)'
  BY <1>1, <1>2, <1>5 DEF RoleCallInv, RoleCounted, Roles!Demotes, Roles!Admin
<1> QED
  BY <1>3, <1>4, <1>6 DEF RoleCallInv

\* A step of no caller, or of one whose call becomes such as it should be.
LEMMA RolesStep ==
  ASSUME RolesInv, NEW c \in Callers, NEW new, call' = [call EXCEPT ![c] = new], RolesKept(c),
         role' = [u \in Users |-> role'[u]], lock' = [x \in Roles!Rows |-> lock'[x]],
         RoleCall(new), new.admins \in Nat, RoleCallInv(c)', Roles!AdminRemains'
  PROVE  RolesInv'
<1>1. RolesShape'
  BY DEF RolesInv, RolesShape, Roles!Rows
<1> QED
  BY <1>1, RolesOthers DEF RolesInv

\* A call at rest, and one that begins or has committed, asks nothing of locks.
LEMMA RolesAtRest ==
  ASSUME NEW c \in Callers, call'[c].pc \in {"idle", "evict"}
  PROVE  RoleCallInv(c)'
BY DEF RoleCallInv, RoleAsked, RoleLocked, RoleCounted

\* The invariant is about the roles, the locks and the calls.
LEMMA RolesUnchanged ==
  ASSUME RolesInv, UNCHANGED <<role, lock, call, hadAdmin>>
  PROVE  RolesInv'
<1>1. \A c \in Callers : RoleCallInv(c)'
  BY DEF RolesInv, RoleCallInv, RoleAsked, RoleLocked, RoleCounted, Counted,
         Roles!Rows, Roles!Demotes, Roles!Admin
<1> QED
  BY <1>1 DEF RolesInv, RolesShape, RoleCall, RoleFields, Roles!AdminRemains, Roles!Rows, Roles!Admin

\* Every step of the roles keeps their invariant.
LEMMA RolesNext ==
  ASSUME RolesInv, Roles!Next
  PROVE  RolesInv'
<1> USE NoneAssumption
<1>1. ASSUME NEW u \in Users, Roles!SignIn(u)
      PROVE  RolesInv'
  <2>1. \A v \in Users : v # u => role'[v] = role[v]
    BY <1>1 DEF RolesInv, RolesShape, Roles!SignIn
  <2>2. role[u] = Roles!Admin => role'[u] = Roles!Admin
    BY <1>1 DEF RolesInv, RolesShape, Roles!SignIn, Roles!Admin
  <2>3. u \in Bootstrap => role'[u] = Roles!Admin
    BY <1>1 DEF RolesInv, RolesShape, Roles!SignIn
  <2>4. Roles!AdminRemains'
    BY <1>1, <2>1, <2>2, <2>3 DEF RolesInv, Roles!AdminRemains, Roles!SignIn, Roles!Admin
  <2>5. RolesShape'
    BY <1>1 DEF RolesInv, RolesShape, Roles!SignIn, Roles!Rows, RoleCall
  <2>6. ASSUME NEW d \in Callers PROVE RoleCallInv(d)'
    <3>1. RoleCallInv(d) /\ call'[d] = call[d] /\ lock' = lock /\ lock[u] # d
      BY <1>1 DEF RolesInv, Roles!SignIn
    <3>2. \A v \in Counted(d) : v \in Counted(d)'
      BY <3>1, <2>1 DEF Counted, Roles!Admin
    <3> QED
      BY <3>1, <3>2, <2>1
      DEF RoleCallInv, RoleAsked, RoleLocked, RoleCounted, Roles!Rows, Roles!Demotes, Roles!Admin
  <2> QED
    BY <2>4, <2>5, <2>6 DEF RolesInv
<1>3. ASSUME NEW r \in RoleReplicas, NEW u \in Users, Roles!Check(r, u) \/ Roles!Expire(r, u)
      PROVE  RolesInv'
  BY <1>3, RolesUnchanged DEF Roles!Check, Roles!Expire
<1>4. ASSUME NEW c \in Callers, NEW next, Roles!Begins(c, next), RoleCall(next),
             next.pc = "begin", next.admins = 0, next.target \in Roles!Rows,
             next.kind \in {"self", "admin", "flag"},
             next.kind # "flag" => next.target \in Users,
             next.kind = "self" => next.to # Roles!Admin
      PROVE  RolesInv'
  <2>1. /\ call' = [call EXCEPT ![c] = next] /\ call'[c] = next
        /\ UNCHANGED <<role, lock, hadAdmin>>
    BY <1>4 DEF RolesInv, RolesShape, Roles!Begins, Roles!Goes
  <2>2. RoleCallInv(c)'
    BY <1>4, <2>1
    DEF RoleCallInv, RoleAsked, RoleLocked, RoleCounted, Roles!Rows, Roles!Admin
  <2>3. Roles!AdminRemains'
    BY <2>1 DEF RolesInv, Roles!AdminRemains, Roles!Admin
  <2> QED
    BY <1>4, <2>1, <2>2, <2>3, RolesStep DEF RolesInv, RolesShape, RolesKept, Roles!Rows
<1>5. ASSUME NEW c \in Callers, NEW r \in RoleReplicas, NEW u \in Users, NEW to \in OfferedRoles,
             Roles!SetRole(c, r, u, to) \/ Roles!SetUserRole(c, r, u, to)
      PROVE  RolesInv'
  <2> DEFINE next == [Roles!Idle EXCEPT !.pc = "begin", !.kind = "self", !.replica = r,
                                        !.target = u, !.to = to]
             asks == [Roles!Idle EXCEPT !.pc = "begin", !.kind = "admin", !.replica = r,
                                        !.target = u, !.to = to]
  <2>1. CASE Roles!SetRole(c, r, u, to)
    <3>1. Roles!Begins(c, next) /\ to # Roles!Admin
      BY <2>1 DEF Roles!SetRole
    <3>2. /\ RoleCall(next) /\ next.pc = "begin" /\ next.admins = 0 /\ next.target = u
          /\ next.kind = "self" /\ next.to = to
      BY DEF RoleCall, RoleFields, Roles!Idle
    <3> HIDE DEF next
    <3> QED
      BY <1>4, <3>1, <3>2 DEF Roles!Rows
  <2>2. CASE Roles!SetUserRole(c, r, u, to)
    <3>1. Roles!Begins(c, asks)
      BY <2>2 DEF Roles!SetUserRole
    <3>2. /\ RoleCall(asks) /\ asks.pc = "begin" /\ asks.admins = 0 /\ asks.target = u
          /\ asks.kind = "admin"
      BY DEF RoleCall, RoleFields, Roles!Idle
    <3> HIDE DEF asks
    <3> QED
      BY <1>4, <3>1, <3>2 DEF Roles!Rows
  <2> QED
    BY <1>5, <2>1, <2>2
<1>6. ASSUME NEW c \in Callers, NEW r \in RoleReplicas, NEW patch \in FlagPatches,
             Roles!UpdateFlag(c, r, patch)
      PROVE  RolesInv'
  <2> DEFINE next == [Roles!Idle EXCEPT !.pc = "begin", !.kind = "flag", !.replica = r,
                                        !.target = "flag", !.patch = patch]
  <2>1. Roles!Begins(c, next)
    BY <1>6 DEF Roles!UpdateFlag
  <2>2. /\ RoleCall(next) /\ next.pc = "begin" /\ next.admins = 0 /\ next.target = "flag"
        /\ next.kind = "flag"
    BY DEF RoleCall, RoleFields, Roles!Idle
  <2> HIDE DEF next
  <2> QED
    BY <1>4, <2>1, <2>2 DEF Roles!Rows
<1>7. ASSUME NEW c \in Callers, Roles!LockTarget(c)
      PROVE  RolesInv'
  <2> DEFINE x == call[c].target
             next == [call[c] EXCEPT !.pc = "locked", !.old = IF x \in Users THEN role[x] ELSE @]
  <2>1. RoleCallInv(c) /\ x \in Roles!Rows /\ lock[x] = None /\ RoleCall(call[c])
        /\ call[c].admins = 0 /\ UNCHANGED <<role, hadAdmin>>
    BY <1>7 DEF RolesInv, RolesShape, RoleCallInv, RoleAsked, RoleCounted, Roles!LockTarget
  <2>2. Roles!AdminRemains'
    BY <2>1 DEF RolesInv, Roles!AdminRemains, Roles!Admin
  <2>3. CASE call' = [call EXCEPT ![c] = Roles!Idle] /\ UNCHANGED lock
    <3>1. RoleCall(Roles!Idle) /\ Roles!Idle.pc = "idle" /\ Roles!Idle.admins \in Nat
      BY DEF RoleCall, RoleFields, Roles!Idle
    <3>2. call'[c] = Roles!Idle
      BY <2>3 DEF RolesInv, RolesShape
    <3>3. RoleCallInv(c)'
      BY <3>1, <3>2, RolesAtRest
    <3> QED
      BY <2>1, <2>2, <2>3, <3>1, <3>3, RolesStep DEF RolesInv, RolesShape, RolesKept, Roles!Rows
  <2>4. CASE call' = [call EXCEPT ![c] = next] /\ lock' = [lock EXCEPT ![x] = c]
    <3>1. /\ RoleCall(next) /\ next.pc = "locked" /\ next.admins = 0 /\ next.target = x
          /\ next.kind = call[c].kind /\ next.to = call[c].to
          /\ x \in Users => next.old = role[x]
      BY <2>1 DEF RoleCall, RoleFields
    <3>2. call'[c] = next /\ lock'[x] = c
      BY <2>1, <2>4 DEF RolesInv, RolesShape
    <3> HIDE DEF next
    <3>3. RoleCallInv(c)'
      BY <1>7, <2>1, <3>1, <3>2
      DEF RoleCallInv, RoleAsked, RoleLocked, RoleCounted, Roles!Rows, Roles!Admin, Roles!LockTarget
    <3>4. lock' = [y \in Roles!Rows |-> lock'[y]] /\ RolesKept(c)
      BY <2>1, <2>4 DEF RolesInv, RolesShape, RolesKept, Roles!Rows
    <3> QED
      BY <2>1, <2>2, <2>4, <3>1, <3>3, <3>4, RolesStep DEF RolesInv, RolesShape
  <2> QED
    BY <1>7, <2>3, <2>4 DEF Roles!LockTarget, Roles!Goes
<1>8. ASSUME NEW c \in Callers, Roles!Rollback(c)
      PROVE  RolesInv'
  <2>1. RoleCall(Roles!Idle) /\ Roles!Idle.pc = "idle" /\ Roles!Idle.admins \in Nat
    BY DEF RoleCall, RoleFields, Roles!Idle
  <2>2. /\ call' = [call EXCEPT ![c] = Roles!Idle] /\ call'[c] = Roles!Idle
        /\ UNCHANGED <<role, hadAdmin>>
    BY <1>8 DEF RolesInv, RolesShape, Roles!Rollback, Roles!Goes
  <2>3. lock' = [x \in Roles!Rows |-> lock'[x]] /\ RolesKept(c)
    BY <1>8, <2>2 DEF Roles!Rollback, Roles!Release, RolesKept, Roles!Rows
  <2>4. RoleCallInv(c)'
    BY <2>1, <2>2, RolesAtRest
  <2>5. Roles!AdminRemains'
    BY <2>2 DEF RolesInv, Roles!AdminRemains, Roles!Admin
  <2> QED
    BY <2>1, <2>2, <2>3, <2>4, <2>5, RolesStep DEF RolesInv, RolesShape
<1>9. ASSUME NEW c \in Callers,
             \/ Roles!RefuseOptIn(c) \/ Roles!RefuseLastAdmin(c)
             \/ Roles!Deadlocked(c) \/ Roles!Fails(c)
      PROVE  RolesInv'
  BY <1>8, <1>9 DEF Roles!RefuseOptIn, Roles!RefuseLastAdmin, Roles!Deadlocked, Roles!Fails
<1>10. ASSUME NEW c \in Callers, Roles!StartScan(c)
       PROVE  RolesInv'
  <2> DEFINE next == [call[c] EXCEPT !.pc = "scan", !.scan = {u \in Users : role[u] = Roles!Admin}]
  <2>1. /\ call[c].pc = "locked" /\ RoleCallInv(c) /\ RoleCall(call[c]) /\ Roles!Demotes(c)
        /\ call' = [call EXCEPT ![c] = next] /\ UNCHANGED <<role, lock, hadAdmin>>
    BY <1>10 DEF RolesInv, RolesShape, Roles!StartScan, Roles!Goes
  <2>2. /\ RoleCall(next) /\ next.pc = "scan" /\ next.scan \subseteq Users
        /\ next.admins = call[c].admins /\ next.kind = call[c].kind /\ next.old = call[c].old
        /\ next.to = call[c].to /\ next.target = call[c].target
    BY <2>1 DEF RoleCall, RoleFields
  <2> HIDE DEF next
  <2>3. call'[c] = next /\ call[c].admins = 0
    BY <2>1 DEF RolesInv, RolesShape, RoleCallInv, RoleCounted
  <2>4. RoleCallInv(c)'
    BY <2>1, <2>2, <2>3
    DEF RoleCallInv, RoleAsked, RoleLocked, RoleCounted, Roles!Demotes, Roles!Rows, Roles!Admin
  <2>5. Roles!AdminRemains'
    BY <2>1 DEF RolesInv, Roles!AdminRemains, Roles!Admin
  <2> QED
    BY <2>1, <2>2, <2>3, <2>4, <2>5, RolesStep DEF RolesInv, RolesShape, RolesKept, Roles!Rows
<1>11. ASSUME NEW c \in Callers, NEW u \in Users, Roles!LockAdmin(c, u)
       PROVE  RolesInv'
  <2> DEFINE next == [call[c] EXCEPT !.scan = @ \ {u},
                                     !.admins = IF role[u] = Roles!Admin THEN @ + 1 ELSE @]
  <2>1. /\ call[c].pc = "scan" /\ u \in call[c].scan /\ lock[u] \in {None, c}
        /\ RoleCallInv(c) /\ RoleCall(call[c])
        /\ call[c].admins \in Nat /\ call' = [call EXCEPT ![c] = next] /\ UNCHANGED <<role, hadAdmin>>
        /\ lock' = IF role[u] = Roles!Admin THEN [lock EXCEPT ![u] = c] ELSE lock
    BY <1>11 DEF RolesInv, RolesShape, Roles!LockAdmin, Roles!Goes
  <2>2. /\ RoleCall(next) /\ next.pc = "scan" /\ next.scan = call[c].scan \ {u}
        /\ next.admins = IF role[u] = Roles!Admin THEN call[c].admins + 1 ELSE call[c].admins
        /\ next.kind = call[c].kind /\ next.old = call[c].old
        /\ next.to = call[c].to /\ next.target = call[c].target
    BY <2>1 DEF RoleCall, RoleFields
  <2> HIDE DEF next
  <2>3. call'[c] = next
    BY <2>1 DEF RolesInv, RolesShape
  <2>4. lock' = [x \in Roles!Rows |-> lock'[x]]
    BY <2>1 DEF RolesInv, RolesShape, Roles!Rows
  <2>5. \A x \in Roles!Rows : lock'[x] = IF x = u /\ role[u] = Roles!Admin THEN c ELSE lock[x]
    BY <2>1 DEF RolesInv, RolesShape, Roles!Rows
  <2>6. RolesKept(c)
    BY <2>1, <2>5 DEF RolesKept, Roles!Rows
  <2>7. \A v \in Counted(c) : v \in Counted(c)' /\ v # u
    BY <2>1, <2>2, <2>3, <2>5 DEF Counted, Roles!Rows, Roles!Admin
  <2>8. role[u] = Roles!Admin => u \in Counted(c)'
    BY <2>1, <2>2, <2>3, <2>5 DEF Counted, Roles!Rows, Roles!Admin
  <2>9. RoleCounted(c)'
    <3>1. RoleCounted(c) /\ call[c].admins \in Nat
      BY <2>1 DEF RoleCallInv
    <3>2. Roles!Demotes(c)' /\ call'[c].scan \subseteq Users /\ call'[c].pc = "scan"
      BY <2>1, <2>2, <2>3, <3>1 DEF RoleCounted, Roles!Demotes, Roles!Admin
    <3>3. CASE role[u] = Roles!Admin
      <4>1. call'[c].admins > 1 => \E v, w \in Counted(c)' : v # w
        BY <2>1, <2>2, <2>3, <2>7, <2>8, <3>1, <3>3 DEF RoleCounted
      <4>2. call'[c].admins > 0 => Counted(c)' # {}
        BY <2>8, <3>3
      <4> QED
        BY <3>2, <4>1, <4>2 DEF RoleCounted
    <3>4. CASE role[u] # Roles!Admin
      <4>1. call'[c].admins = call[c].admins
        BY <2>2, <2>3, <3>4
      <4> QED
        BY <2>1, <2>7, <3>1, <3>2, <4>1 DEF RoleCounted
    <3> QED
      BY <3>3, <3>4
  <2>10. RoleCallInv(c)'
    BY <2>1, <2>2, <2>3, <2>5, <2>9 DEF RoleCallInv, RoleAsked, RoleLocked, Roles!Rows, Roles!Admin
  <2>11. Roles!AdminRemains' /\ next.admins \in Nat
    BY <2>1, <2>2 DEF RolesInv, Roles!AdminRemains, Roles!Admin
  <2> QED
    BY <2>1, <2>2, <2>4, <2>6, <2>10, <2>11, RolesStep DEF RolesInv, RolesShape
<1>12. ASSUME NEW c \in Callers, call' = [call EXCEPT ![c] = call'[c]],
              RoleCall(call'[c]), call'[c].admins = 0, call'[c].pc \in {"idle", "evict"},
              lock' = [x \in Roles!Rows |-> lock'[x]], role' = [u \in Users |-> role'[u]],
              RolesKept(c), Roles!AdminRemains'
       PROVE  RolesInv'
  BY <1>12, RolesAtRest, RolesStep
<1>13. ASSUME NEW c \in Callers, Roles!CommitRole(c)
       PROVE  RolesInv'
  <2> DEFINE next == [Roles!Idle EXCEPT !.pc = "evict", !.replica = call[c].replica,
                                        !.target = call[c].target]
             u == call[c].target
  <2>1. /\ RoleCallInv(c) /\ Roles!MayWriteRole(c) /\ Roles!Release(c)
        /\ call' = [call EXCEPT ![c] = next]
        /\ role' = [role EXCEPT ![u] = call[c].to]
        /\ hadAdmin' = (hadAdmin \/ call[c].to = Roles!Admin)
    BY <1>13 DEF RolesInv, Roles!CommitRole, Roles!Goes
  <2>2. RoleCall(next) /\ next.pc = "evict" /\ next.admins = 0
    BY DEF RoleCall, RoleFields, Roles!Idle
  <2> HIDE DEF next
  <2>3. call'[c] = next
    BY <2>1 DEF RolesInv, RolesShape
  <2>4. /\ u \in Users /\ lock[u] = c /\ call[c].old = role[u] /\ call[c].kind # "flag"
        /\ call[c].kind = "self" => call[c].to # Roles!Admin
    BY <2>1 DEF RoleCallInv, RoleAsked, RoleLocked, RoleCounted, Roles!MayWriteRole,
                Roles!Scanned, Roles!Demotes
  <2>5. /\ role' = [v \in Users |-> role'[v]]
        /\ \A v \in Users : role'[v] = IF v = u THEN call[c].to ELSE role[v]
    BY <2>1, <2>4 DEF RolesInv, RolesShape
  <2>6. lock' = [x \in Roles!Rows |-> lock'[x]] /\ RolesKept(c)
    BY <2>1, <2>4, <2>5 DEF RolesKept, Roles!Release, Roles!Rows
  <2>7. Roles!AdminRemains'
    <3>1. CASE call[c].to = Roles!Admin
      BY <2>4, <2>5, <3>1 DEF Roles!AdminRemains, Roles!Admin
    <3>2. CASE call[c].to # Roles!Admin /\ role[u] # Roles!Admin
      BY <2>1, <2>5, <3>2 DEF RolesInv, Roles!AdminRemains, Roles!Admin
    <3>3. CASE call[c].to # Roles!Admin /\ role[u] = Roles!Admin
      <4>1. Roles!Scanned(c) /\ call[c].admins > 1
        BY <2>1, <2>4, <3>3 DEF Roles!MayWriteRole, Roles!Demotes
      <4>2. PICK v, w \in Counted(c) : v # w
        BY <2>1, <4>1 DEF RoleCallInv, RoleCounted, Roles!Scanned
      <4>3. \E v1 \in Users : v1 # u /\ role[v1] = Roles!Admin
        BY <4>2 DEF Counted
      <4> QED
        BY <2>5, <4>3 DEF Roles!AdminRemains, Roles!Admin
    <3> QED
      BY <3>1, <3>2, <3>3
  <2> QED
    BY <1>12, <2>1, <2>2, <2>3, <2>5, <2>6, <2>7
<1>14. ASSUME NEW c \in Callers, Roles!CommitFlag(c) \/ Roles!Evict(c)
       PROVE  RolesInv'
  <2>1. RoleCall(Roles!Idle) /\ Roles!Idle.pc = "idle" /\ Roles!Idle.admins = 0
    BY DEF RoleCall, RoleFields, Roles!Idle
  <2>2. /\ call' = [call EXCEPT ![c] = Roles!Idle] /\ UNCHANGED <<role, hadAdmin>>
        /\ UNCHANGED lock \/ Roles!Release(c)
    BY <1>14 DEF Roles!CommitFlag, Roles!Evict, Roles!Goes
  <2>3. call'[c] = Roles!Idle /\ role' = [v \in Users |-> role'[v]]
    BY <2>2 DEF RolesInv, RolesShape
  <2>4. lock' = [x \in Roles!Rows |-> lock'[x]] /\ RolesKept(c)
    BY <2>2 DEF RolesInv, RolesShape, RolesKept, Roles!Release, Roles!Rows
  <2>5. Roles!AdminRemains'
    BY <2>2 DEF RolesInv, Roles!AdminRemains, Roles!Admin
  <2> QED
    BY <1>12, <2>1, <2>2, <2>3, <2>4, <2>5
<1> QED
  BY <1>1, <1>3, <1>5, <1>6, <1>7, <1>9, <1>10, <1>11, <1>13, <1>14 DEF Roles!Next

\* No user has a role, and no transaction is under way.
LEMMA RolesInit == Roles!Init => RolesInv
<1> SUFFICES ASSUME Roles!Init PROVE RolesInv
  OBVIOUS
<1>1. RoleCall(Roles!Idle) /\ Roles!Idle.pc = "idle" /\ Roles!Idle.admins = 0
  BY DEF RoleCall, RoleFields, Roles!Idle
<1>2. RolesShape /\ \A c \in Callers : call[c] = Roles!Idle
  BY <1>1 DEF Roles!Init, RolesShape
<1>3. \A c \in Callers : RoleCallInv(c)
  BY <1>1, <1>2 DEF RoleCallInv, RoleAsked, RoleLocked, RoleCounted
<1> QED
  BY <1>2, <1>3 DEF RolesInv, Roles!Init, Roles!AdminRemains

-----------------------------------------------------------------------------
(* The audit log. *)

Audited == (Users \ Bootstrap) \cup Roles!Fields
Entry == [of: Users \cup Roles!Fields, old: Nat, new: Nat]

\* What is stored of a user or of a field of the flag.
Stored(x) == IF x \in Roles!Fields THEN flag[x] ELSE role[x]

\* The rows of x in the log each start from what the one before it left.
Chained(x) == \A n \in DOMAIN audit : audit[n].of = x => Roles!Leaves(n - 1, x, audit[n].old)

\* What a request is to write is a role, or fields of the flag.
AuditAsked(c) ==
    call[c].pc \in {"begin", "locked", "scan"} =>
        /\ call[c].kind # "flag" => call[c].to \in Roles!Roles
        /\ call[c].kind = "flag" =>
              /\ DOMAIN call[c].patch \subseteq Roles!Fields
              /\ \A f \in DOMAIN call[c].patch : call[c].patch[f] \in Nat

\* A role that is to be written is that of a user who has signed in.
AuditSignedIn(c) ==
    call[c].pc \in {"locked", "scan"} /\ call[c].kind # "flag" => role[call[c].target] # None

AuditInv ==
    /\ audit \in Seq(Entry)
    /\ flag \in [Roles!Fields -> Nat]
    /\ role \in [Users -> Roles!Roles \cup {None}]
    /\ \A c \in Callers : AuditAsked(c) /\ AuditSignedIn(c)
    /\ \A u \in Users : role[u] = None => \A n \in DOMAIN audit : audit[n].of # u
    /\ \A x \in Audited : Chained(x) /\ (Stored(x) # None => Roles!Leaves(Len(audit), x, Stored(x)))

\* Rows that are appended leave what came before as it was; they carry x on from
\* what the log left it at, if one of them is about it.
LEMMA AuditAppends ==
  ASSUME audit \in Seq(Entry), NEW rows \in Seq(Entry), audit' = audit \o rows,
         NEW x, Chained(x), NEW old, Roles!Leaves(Len(audit), x, old) \/ \A i \in DOMAIN rows : rows[i].of # x,
         \A i, j \in DOMAIN rows : rows[i].of = x /\ rows[j].of = x => i = j,
         \A i \in DOMAIN rows : rows[i].of = x => rows[i].old = old
  PROVE  /\ Chained(x)'
         /\ \A i \in DOMAIN rows : rows[i].of = x => Roles!Leaves(Len(audit), x, rows[i].new)'
         /\ (\A i \in DOMAIN rows : rows[i].of # x) =>
               \A v : Roles!Leaves(Len(audit), x, v) => Roles!Leaves(Len(audit), x, v)'
<1>1. /\ Len(audit) \in Nat /\ Len(rows) \in Nat /\ Len(audit') = Len(audit) + Len(rows)
      /\ DOMAIN audit = 1 .. Len(audit) /\ DOMAIN rows = 1 .. Len(rows)
      /\ DOMAIN audit' = 1 .. Len(audit) + Len(rows)
      /\ \A n \in 1 .. Len(audit) : audit'[n] = audit[n]
      /\ \A n \in 1 .. Len(rows) : audit'[Len(audit) + n] = rows[n]
  OBVIOUS
<1> DEFINE len == Len(audit)
           more == Len(rows)
           Tells(m, v) ==
             \/ v = Roles!From(x) /\ \A i \in 1 .. m : audit'[i].of # x
             \/ \E i \in 1 .. m : /\ audit'[i].of = x /\ audit'[i].new = v
                                  /\ \A j \in i + 1 .. m : audit'[j].of # x
<1>2. \A n \in len + 1 .. len + more : n - len \in 1 .. more /\ audit'[n] = rows[n - len]
  <2> TAKE n \in len + 1 .. len + more
  <2>1. n - len \in 1 .. more /\ n = len + (n - len)
    BY <1>1
  <2> QED
    BY <1>1, <2>1
\* What the log told of x up to a row, it tells now, up to any row before the
\* next one about x.
<1>3. ASSUME NEW n \in 0 .. len, NEW m \in n .. len + more, NEW v, Roles!Leaves(n, x, v),
             \A k \in n + 1 .. m : audit'[k].of # x
      PROVE  Tells(m, v)
  <2>1. \A k \in 1 .. m : (k \in 1 .. n /\ audit'[k] = audit[k]) \/ k \in n + 1 .. m
    BY <1>1, <1>3
  <2>2. CASE v = Roles!From(x) /\ \A i \in 1 .. n : audit[i].of # x
    BY <1>3, <2>1, <2>2
  <2>3. CASE \E i \in 1 .. n : /\ audit[i].of = x /\ audit[i].new = v
                               /\ \A j \in i + 1 .. n : audit[j].of # x
    <3>1. PICK i \in 1 .. n : /\ audit[i].of = x /\ audit[i].new = v
                              /\ \A j \in i + 1 .. n : audit[j].of # x
      BY <2>3
    <3>2. i \in 1 .. m /\ audit'[i] = audit[i]
      BY <1>1
    <3>3. \A j \in i + 1 .. m : audit'[j].of # x
      <4> TAKE j \in i + 1 .. m
      <4>1. j \in 1 .. m /\ (j \in 1 .. n => j \in i + 1 .. n)
        OBVIOUS
      <4> QED
        BY <1>3, <2>1, <3>1, <4>1
    <3> QED
      BY <3>1, <3>2, <3>3
  <2> QED
    BY <1>3, <2>2, <2>3 DEF Roles!Leaves
<1>4. ASSUME NEW n \in 0 .. len, NEW v, Roles!Leaves(n, x, v)
      PROVE  Tells(n, v)
  <2> HIDE DEF Tells
  <2>1. n \in n .. len + more /\ \A k \in n + 1 .. n : audit'[k].of # x
    BY <1>1
  <2> QED
    BY <1>3, <1>4, <2>1
<1>5. ASSUME NEW n \in DOMAIN audit', audit'[n].of = x PROVE Roles!Leaves(n - 1, x, audit[n].old)'
  <2>1. CASE n \in 1 .. len
    <3>1. n - 1 \in 0 .. len /\ audit'[n] = audit[n] /\ n \in DOMAIN audit
      BY <1>1, <2>1
    <3>2. Roles!Leaves(n - 1, x, audit[n].old)
      BY <1>5, <3>1 DEF Chained
    <3>3. Tells(n - 1, audit'[n].old)
      <4> HIDE DEF Tells
      <4> QED
        BY <1>4, <3>1, <3>2
    <3> QED
      BY <3>3 DEF Roles!Leaves, Roles!From
  <2>2. CASE n \in len + 1 .. len + more
    <3>1. n - len \in DOMAIN rows /\ rows[n - len].of = x /\ audit'[n].old = old
      BY <1>1, <1>2, <1>5, <2>2
    <3>2. Roles!Leaves(len, x, old)
      BY <3>1
    <3>3. len \in 0 .. len /\ n - 1 \in len .. len + more
      BY <1>1, <2>2
    <3>4. ASSUME NEW k \in len + 1 .. n - 1, audit'[k].of = x PROVE FALSE
      <4>1. k \in len + 1 .. len + more /\ k # n
        BY <1>1, <2>2
      <4>2. k - len \in DOMAIN rows /\ rows[k - len].of = x /\ k - len # n - len
        BY <1>1, <1>2, <2>2, <3>4, <4>1
      <4> QED
        BY <3>1, <4>2
    <3>5. Tells(n - 1, old)
      <4> HIDE DEF Tells
      <4> QED
        BY <1>3, <3>2, <3>3, <3>4
    <3> QED
      BY <3>1, <3>5 DEF Roles!Leaves, Roles!From
  <2> QED
    BY <1>1, <1>5, <2>1, <2>2
<1>6. ASSUME NEW i \in DOMAIN rows, rows[i].of = x PROVE Roles!Leaves(Len(audit), x, rows[i].new)'
  <2>1. len + i \in 1 .. len + more /\ audit'[len + i] = rows[i]
    BY <1>1
  <2>2. ASSUME NEW j \in len + i + 1 .. len + more, audit'[j].of = x PROVE FALSE
    <3>1. j \in len + 1 .. len + more /\ j - len # i
      BY <1>1
    <3> QED
      BY <1>1, <1>2, <1>6, <2>2, <3>1
  <2> QED
    BY <1>1, <1>6, <2>1, <2>2 DEF Roles!Leaves
<1>7. ASSUME \A i \in DOMAIN rows : rows[i].of # x, NEW v, Roles!Leaves(Len(audit), x, v)
      PROVE  Roles!Leaves(Len(audit), x, v)'
  <2>1. len \in 0 .. len /\ len + more \in len .. len + more
    BY <1>1
  <2>2. \A k \in len + 1 .. len + more : audit'[k].of # x
    BY <1>1, <1>2, <1>7
  <2> QED
    BY <1>1, <1>3, <1>7, <2>1, <2>2 DEF Roles!Leaves, Roles!From
<1> QED
  BY <1>5, <1>6, <1>7 DEF Chained

\* A finite set as a sequence has each of its elements, once.
LEMMA SequenceOfSet ==
  ASSUME NEW S, IsFiniteSet(S)
  PROVE  /\ Roles!SetToSeq(S) \in Seq(S)
         /\ \A i, j \in DOMAIN Roles!SetToSeq(S) :
               Roles!SetToSeq(S)[i] = Roles!SetToSeq(S)[j] => i = j
         /\ \A x \in S : \E i \in DOMAIN Roles!SetToSeq(S) : Roles!SetToSeq(S)[i] = x
<1> DEFINE n == Cardinality(S)
<1>1. n \in Nat /\ ExistsBijection(1 .. n, S)
  BY FS_CardinalityType
<1>2. Roles!Cardinality(S) = n
  BY DEF Roles!Cardinality, Cardinality
<1>3. Cardinality(1 .. n) = n
  BY <1>1, FS_CountingElements, FS_Interval
<1> HIDE DEF n
<1>4. PICK f \in [1 .. n -> S] : \A i, j \in 1 .. n : f[i] = f[j] => i = j
  BY <1>1 DEF ExistsBijection, Bijection, Injection, IsInjective
<1>5. \E g \in [1 .. n -> S] : Roles!IsInjective(g)
  BY <1>4 DEF Roles!IsInjective
<1> DEFINE s == Roles!SetToSeq(S)
<1>6. s \in [1 .. n -> S] /\ Roles!IsInjective(s)
  <2>1. s = CHOOSE g \in [1 .. n -> S] : Roles!IsInjective(g)
    BY <1>2 DEF Roles!SetToSeq
  <2> QED
    BY <1>5, <2>1
<1> HIDE DEF s
<1>7. \A i, j \in DOMAIN s : s[i] = s[j] => i = j
  BY <1>6 DEF Roles!IsInjective
<1>8. s \in Injection(1 .. n, S)
  BY <1>6, <1>7 DEF Injection, IsInjective
<1>9. s \in Surjection(1 .. n, S)
  BY <1>3, <1>8, FS_Injection DEF n
<1>10. s \in Seq(S) /\ DOMAIN s = 1 .. n
  BY <1>1, <1>6
<1>11. \A x \in S : \E i \in DOMAIN s : s[i] = x
  BY <1>9, <1>10 DEF Surjection
<1> QED
  BY <1>7, <1>10, <1>11 DEF s

\* The audit log is empty, and no user has a role.
LEMMA AuditInit == Roles!Init => AuditInv
<1> SUFFICES ASSUME Roles!Init PROVE AuditInv
  OBVIOUS
<1>1. \A c \in Callers : AuditAsked(c) /\ AuditSignedIn(c)
  BY DEF Roles!Init, Roles!Idle, AuditAsked, AuditSignedIn
<1>2. audit = << >> /\ Len(audit) = 0 /\ DOMAIN audit = {} /\ audit \in Seq(Entry)
  BY DEF Roles!Init
<1>3. flag = [enabled |-> 1, minTier |-> Roles!Standard] /\ Roles!Standard = 0
  BY DEF Roles!Init, Roles!Standard
<1>4. flag \in [Roles!Fields -> Nat]
  BY <1>3 DEF Roles!Fields
<1>5. \A u \in Users : role[u] = None
  BY DEF Roles!Init
<1>6. \A x \in Audited : Stored(x) # None => Stored(x) = Roles!From(x)
  BY <1>3, <1>5 DEF Audited, Stored, Roles!From, Roles!Fields
<1>7. \A x \in Audited : Chained(x) /\ (Stored(x) # None => Roles!Leaves(Len(audit), x, Stored(x)))
  BY <1>2, <1>6 DEF Chained, Roles!Leaves
<1> QED
  BY <1>1, <1>2, <1>4, <1>5, <1>7 DEF Roles!Init, AuditInv

\* A step of a request that writes nothing.
LEMMA AuditStep ==
  ASSUME AuditInv, call = [d \in Callers |-> call[d]], NEW c \in Callers, NEW next,
         call' = [call EXCEPT ![c] = next],
         UNCHANGED <<role, flag, audit>>,
         next.pc \in {"begin", "locked", "scan"} =>
            /\ next.kind # "flag" => next.to \in Roles!Roles
            /\ next.kind = "flag" => /\ DOMAIN next.patch \subseteq Roles!Fields
                                     /\ \A f \in DOMAIN next.patch : next.patch[f] \in Nat,
         next.pc \in {"locked", "scan"} /\ next.kind # "flag" => role[next.target] # None
  PROVE  AuditInv'
<1>1. \A d \in Callers : call'[d] = IF d = c THEN next ELSE call[d]
  OBVIOUS
<1>2. \A d \in Callers : AuditAsked(d)' /\ AuditSignedIn(d)'
  BY <1>1 DEF AuditInv, AuditAsked, AuditSignedIn, Roles!Roles, Roles!Fields
<1> QED
  BY <1>2 DEF AuditInv, Chained, Stored, Roles!Leaves, Roles!From, Roles!Fields, Roles!Roles,
              Roles!Standard, Roles!Admin, Audited

\* The invariant is about the log, what it is about, and the calls.
LEMMA AuditUnchanged ==
  ASSUME AuditInv, UNCHANGED <<role, flag, audit, call>>
  PROVE  AuditInv'
BY DEF AuditInv, AuditAsked, AuditSignedIn, Chained, Stored, Roles!Leaves, Roles!From,
       Roles!Fields, Roles!Roles, Roles!Standard, Roles!Admin, Audited

\* Every step of the roles keeps the log true.
LEMMA AuditNext ==
  ASSUME RolesInv, AuditInv, Roles!Next
  PROVE  AuditInv'
<1> USE NoneAssumption, UserAssumption
<1>0. call = [d \in Callers |-> call[d]]
  BY DEF RolesInv, RolesShape
<1>1. ASSUME NEW u \in Users, Roles!SignIn(u)
      PROVE  AuditInv'
  <2>1. /\ UNCHANGED <<flag, audit, call>>
        /\ role' = [role EXCEPT ![u] = IF u \in Bootstrap THEN Roles!Admin
                                       ELSE IF @ = None THEN Roles!Standard ELSE @]
    BY <1>1 DEF Roles!SignIn
  <2>2. Roles!Admin \in Roles!Roles /\ Roles!Standard \in Roles!Roles /\ None \notin Roles!Roles
    BY DEF Roles!Roles, Roles!Standard, Roles!Admin
  <2>3. /\ role' \in [Users -> Roles!Roles \cup {None}] /\ role'[u] # None
        /\ \A v \in Users : role'[v] = None => role[v] = None
        /\ \A v \in Users \ Bootstrap : role'[v] # role[v] =>
              v = u /\ role[v] = None /\ role'[v] = Roles!Standard
    BY <2>1, <2>2 DEF AuditInv
  <2>4. ASSUME NEW c \in Callers PROVE AuditAsked(c)' /\ AuditSignedIn(c)'
    <3>1. call[c].pc \in {"locked", "scan"} /\ call[c].kind # "flag" => call[c].target \in Users
      BY DEF RolesInv, RoleCallInv, RoleAsked
    <3> QED
      BY <2>1, <2>3, <3>1 DEF AuditInv, AuditAsked, AuditSignedIn, Roles!Roles, Roles!Fields,
                              Roles!Standard, Roles!Admin
  <2>5. ASSUME NEW x \in Audited
        PROVE  Chained(x)' /\ (Stored(x)' # None => Roles!Leaves(Len(audit), x, Stored(x))')
    <3>1. Chained(x)' /\ \A v : Roles!Leaves(Len(audit), x, v) => Roles!Leaves(Len(audit), x, v)'
      BY <2>1 DEF AuditInv, Chained, Roles!Leaves, Roles!From
    <3>2. CASE Stored(x)' = Stored(x)
      BY <3>1, <3>2 DEF AuditInv
    <3>3. CASE Stored(x)' # Stored(x)
      <4>1. x = u /\ x \notin Roles!Fields /\ role[x] = None /\ Stored(x)' = Roles!Standard
        BY <2>1, <2>3, <3>3 DEF Stored, Audited, Roles!Fields
      <4>2. Roles!From(x) = Roles!Standard
        BY <4>1 DEF Roles!From, Roles!Fields
      <4>3. \A n \in 1 .. Len(audit) : audit[n].of # x
        BY <4>1 DEF AuditInv
      <4> QED
        BY <3>1, <4>1, <4>2, <4>3 DEF Roles!Leaves
    <3> QED
      BY <3>2, <3>3
  <2>6. Audited' = Audited /\ Entry' = Entry /\ Roles!Fields' = Roles!Fields /\ Roles!Roles' = Roles!Roles
    BY DEF Audited, Entry, Roles!Fields, Roles!Roles, Roles!Standard, Roles!Admin
  <2> QED
    BY <2>1, <2>3, <2>4, <2>5, <2>6 DEF AuditInv
<1>3. ASSUME NEW c \in Callers, NEW next, call' = [call EXCEPT ![c] = next],
             next.pc \in {"idle", "evict"}, UNCHANGED <<role, flag, audit>>
      PROVE  AuditInv'
  BY <1>0, <1>3, AuditStep
<1>4. ASSUME NEW c \in Callers, Roles!Goes(c, Roles!Idle), UNCHANGED <<role, flag, audit>>
      PROVE  AuditInv'
  <2>1. Roles!Idle.pc = "idle" /\ call' = [call EXCEPT ![c] = Roles!Idle]
    BY <1>4 DEF Roles!Goes, Roles!Idle
  <2> QED
    BY <1>3, <1>4, <2>1
<1>5. ASSUME NEW c \in Callers, NEW r \in RoleReplicas, NEW u \in Users, NEW to \in OfferedRoles,
             Roles!SetRole(c, r, u, to) \/ Roles!SetUserRole(c, r, u, to)
      PROVE  AuditInv'
  <2>1. to \in Roles!Roles
    BY InputAssumption
  <2>2. PICK kind \in {"self", "admin"} :
          Roles!Begins(c, [Roles!Idle EXCEPT !.pc = "begin", !.kind = kind, !.replica = r,
                                             !.target = u, !.to = to])
    BY <1>5 DEF Roles!SetRole, Roles!SetUserRole
  <2> DEFINE next == [Roles!Idle EXCEPT !.pc = "begin", !.kind = kind, !.replica = r,
                                        !.target = u, !.to = to]
  <2>3. next.pc = "begin" /\ next.kind = kind /\ next.to = to
    BY DEF Roles!Idle
  <2>4. call' = [call EXCEPT ![c] = next] /\ UNCHANGED <<role, flag, audit>>
    BY <2>2 DEF Roles!Begins, Roles!Goes
  <2> HIDE DEF next
  <2> QED
    BY <1>0, <2>1, <2>3, <2>4, AuditStep
<1>6. ASSUME NEW c \in Callers, NEW r \in RoleReplicas, NEW patch \in FlagPatches,
             Roles!UpdateFlag(c, r, patch)
      PROVE  AuditInv'
  <2> DEFINE next == [Roles!Idle EXCEPT !.pc = "begin", !.kind = "flag", !.replica = r,
                                        !.target = "flag", !.patch = patch]
  <2>1. next.pc = "begin" /\ next.kind = "flag" /\ next.patch = patch
    BY DEF Roles!Idle
  <2>2. call' = [call EXCEPT ![c] = next] /\ UNCHANGED <<role, flag, audit>>
    BY <1>6 DEF Roles!UpdateFlag, Roles!Begins, Roles!Goes
  <2>3. DOMAIN patch \subseteq Roles!Fields /\ \A f \in DOMAIN patch : patch[f] \in Nat
    BY InputAssumption
  <2> HIDE DEF next
  <2> QED
    BY <1>0, <2>1, <2>2, <2>3, AuditStep
<1>7. ASSUME NEW c \in Callers, Roles!LockTarget(c)
      PROVE  AuditInv'
  <2> DEFINE x == call[c].target
             next == [call[c] EXCEPT !.pc = "locked", !.old = IF x \in Users THEN role[x] ELSE @]
  <2>1. call[c].pc = "begin" /\ UNCHANGED <<role, flag, audit>> /\ AuditAsked(c) /\ RoleAsked(c)
        /\ RoleCall(call[c])
    BY <1>7 DEF Roles!LockTarget, AuditInv, RolesInv, RolesShape, RoleCallInv
  <2>2. CASE Roles!Goes(c, Roles!Idle)
    BY <1>4, <2>1, <2>2
  <2>3. CASE Roles!Goes(c, next) /\ ~(x \in Users /\ role[x] = None)
    <3>1. /\ next.pc = "locked" /\ next.kind = call[c].kind /\ next.to = call[c].to
          /\ next.patch = call[c].patch /\ next.target = x
      BY <2>1 DEF RoleCall, RoleFields
    <3>2. call' = [call EXCEPT ![c] = next]
      BY <2>3 DEF Roles!Goes
    <3> HIDE DEF next
    <3> QED
      BY <1>0, <2>1, <2>3, <3>1, <3>2, AuditStep DEF AuditAsked, RoleAsked
  <2> QED
    BY <1>7, <2>2, <2>3 DEF Roles!LockTarget
<1>8. ASSUME NEW c \in Callers, NEW next, Roles!Goes(c, next), UNCHANGED <<role, flag, audit>>,
             call[c].pc \in {"locked", "scan"}, next.pc \in {"locked", "scan"},
             next.kind = call[c].kind, next.to = call[c].to, next.patch = call[c].patch,
             next.target = call[c].target
      PROVE  AuditInv'
  <2>1. AuditAsked(c) /\ AuditSignedIn(c) /\ call' = [call EXCEPT ![c] = next]
    BY <1>8 DEF AuditInv, Roles!Goes
  <2> QED
    BY <1>0, <1>8, <2>1, AuditStep DEF AuditAsked, AuditSignedIn
<1>9. ASSUME NEW c \in Callers, Roles!StartScan(c)
      PROVE  AuditInv'
  <2> DEFINE next == [call[c] EXCEPT !.pc = "scan", !.scan = {u \in Users : role[u] = Roles!Admin}]
  <2>1. RoleCall(call[c])
    BY DEF RolesInv, RolesShape
  <2>2. /\ next.pc = "scan" /\ next.kind = call[c].kind /\ next.to = call[c].to
        /\ next.patch = call[c].patch /\ next.target = call[c].target
    BY <2>1 DEF RoleCall, RoleFields
  <2>3. Roles!Goes(c, next)
    BY <1>9 DEF Roles!StartScan
  <2> HIDE DEF next
  <2> QED
    BY <1>8, <1>9, <2>2, <2>3 DEF Roles!StartScan
<1>10. ASSUME NEW c \in Callers, NEW u \in Users, Roles!LockAdmin(c, u)
       PROVE  AuditInv'
  <2> DEFINE next == [call[c] EXCEPT !.scan = @ \ {u},
                                     !.admins = IF role[u] = Roles!Admin THEN @ + 1 ELSE @]
  <2>1. RoleCall(call[c])
    BY DEF RolesInv, RolesShape
  <2>2. /\ next.pc = call[c].pc /\ next.kind = call[c].kind /\ next.to = call[c].to
        /\ next.patch = call[c].patch /\ next.target = call[c].target
    BY <2>1 DEF RoleCall, RoleFields
  <2>3. Roles!Goes(c, next)
    BY <1>10 DEF Roles!LockAdmin
  <2> HIDE DEF next
  <2> QED
    BY <1>8, <1>10, <2>2, <2>3 DEF Roles!LockAdmin
<1>11. ASSUME NEW c \in Callers,
              \/ Roles!RefuseOptIn(c) \/ Roles!RefuseLastAdmin(c)
              \/ Roles!Deadlocked(c) \/ Roles!Fails(c) \/ Roles!Evict(c)
       PROVE  AuditInv'
  BY <1>4, <1>11 DEF Roles!RefuseOptIn, Roles!RefuseLastAdmin, Roles!Deadlocked, Roles!Fails,
                     Roles!Rollback, Roles!Evict
\* What follows a commit, for the calls.
<1>12. ASSUME NEW c \in Callers, NEW next, Roles!Goes(c, next), next.pc \in {"idle", "evict"},
              \A v \in Users : role[v] # None => role'[v] # None
       PROVE  \A d \in Callers : AuditAsked(d)' /\ AuditSignedIn(d)'
  <2>1. \A d \in Callers : call'[d] = IF d = c THEN next ELSE call[d]
    BY <1>0, <1>12 DEF Roles!Goes
  <2>2. \A d \in Callers : call[d].pc \in {"locked", "scan"} /\ call[d].kind # "flag"
                           => call[d].target \in Users
    BY DEF RolesInv, RoleCallInv, RoleAsked
  <2> QED
    BY <1>12, <2>1, <2>2 DEF AuditInv, AuditAsked, AuditSignedIn, Roles!Roles, Roles!Fields,
                             Roles!Standard, Roles!Admin
<1>13. ASSUME NEW c \in Callers, Roles!CommitRole(c)
       PROVE  AuditInv'
  <2> DEFINE u == call[c].target
             row == [of |-> u, old |-> call[c].old, new |-> call[c].to]
             next == [Roles!Idle EXCEPT !.pc = "evict", !.replica = call[c].replica, !.target = u]
  <2>1. /\ RoleCallInv(c) /\ AuditAsked(c) /\ AuditSignedIn(c)
        /\ Roles!MayWriteRole(c)
        /\ role' = [role EXCEPT ![u] = call[c].to] /\ UNCHANGED flag
        /\ \/ call[c].old = call[c].to /\ UNCHANGED audit
           \/ audit' = audit \o <<row>>
        /\ Roles!Goes(c, next)
    BY <1>13 DEF RolesInv, AuditInv, Roles!CommitRole, Roles!Audited
  <2>2. next.pc = "evict"
    BY DEF Roles!Idle
  <2> HIDE DEF next
  <2>3. u \in Users /\ call[c].old = role[u] /\ call[c].to \in Roles!Roles /\ role[u] # None
    BY <2>1 DEF RoleCallInv, RoleAsked, RoleLocked, RoleCounted, AuditAsked, AuditSignedIn,
                Roles!MayWriteRole, Roles!Scanned, Roles!Demotes
  <2>4. /\ role' \in [Users -> Roles!Roles \cup {None}] /\ role'[u] = call[c].to
        /\ \A v \in Users \ {u} : role'[v] = role[v]
    BY <2>1, <2>3 DEF AuditInv
  <2>5. call[c].to \in Nat /\ role[u] \in Nat
    BY <2>3 DEF AuditInv, Roles!Roles, Roles!Standard, Roles!Admin
  <2>6. row \in Entry /\ row.of = u /\ row.old = role[u] /\ row.new = role'[u]
    BY <2>3, <2>4, <2>5 DEF Entry
  <2> HIDE DEF row
  <2>7. \A d \in Callers : AuditAsked(d)' /\ AuditSignedIn(d)'
    BY <1>12, <2>1, <2>2, <2>3, <2>4, <2>5
  <2>8. CASE call[c].old = call[c].to /\ UNCHANGED audit
    <3>1. role' = role
      BY <2>1, <2>3, <2>4, <2>8 DEF AuditInv
    <3> QED
      BY <1>3, <2>1, <2>2, <2>8, <3>1 DEF Roles!Goes
  <2>9. CASE audit' = audit \o <<row>>
    <3>0. PICK rows : rows = <<row>>
      OBVIOUS
    <3>1. /\ rows \in Seq(Entry) /\ DOMAIN rows = {1} /\ rows[1] = row /\ audit' = audit \o rows
          /\ audit \in Seq(Entry)
      BY <2>6, <2>9, <3>0 DEF AuditInv
    <3>2. audit' \in Seq(Entry)
      BY <3>1
    <3>3. \A n \in DOMAIN audit' : audit'[n] = row \/ \E m \in DOMAIN audit : audit'[n] = audit[m]
      BY <2>9, <3>1
    <3>4. \A v \in Users : role'[v] = None => \A n \in DOMAIN audit' : audit'[n].of # v
      BY <2>3, <2>4, <2>5, <2>6, <3>3 DEF AuditInv
    <3>5. ASSUME NEW x \in Audited
          PROVE  Chained(x)' /\ (Stored(x)' # None => Roles!Leaves(Len(audit), x, Stored(x))')
      <4>1. Chained(x) /\ (Stored(x) # None => Roles!Leaves(Len(audit), x, Stored(x)))
        BY DEF AuditInv
      <4>2. CASE x = u
        <5>1. Stored(x) = role[u] /\ Stored(x)' = role'[u]
          BY <2>3, <4>2 DEF Stored
        <5>2. Roles!Leaves(Len(audit), x, role[u])
          BY <2>3, <4>1, <5>1
        <5>3. \A i \in DOMAIN rows : rows[i].of = x /\ rows[i].old = role[u] /\ rows[i].new = role'[u]
          BY <2>6, <3>1, <4>2
        <5>4. \A i, j \in DOMAIN rows : i = j
          BY <3>1
        <5>5. /\ Chained(x)'
              /\ \A i \in DOMAIN rows : rows[i].of = x => Roles!Leaves(Len(audit), x, rows[i].new)'
          <6>1. PICK old : old = role[u]
            OBVIOUS
          <6>2. Chained(x) /\ Roles!Leaves(Len(audit), x, old)
            BY <4>1, <5>2, <6>1
          <6>3. /\ \A i, j \in DOMAIN rows : rows[i].of = x /\ rows[j].of = x => i = j
                /\ \A i \in DOMAIN rows : rows[i].of = x => rows[i].old = old
            BY <5>3, <5>4, <6>1
          <6>4. audit \in Seq(Entry) /\ rows \in Seq(Entry) /\ audit' = audit \o rows
            BY <3>1
          <6> QED
            BY <6>2, <6>3, <6>4, AuditAppends
        <5>6. Roles!Leaves(Len(audit), x, rows[1].new)' /\ rows[1].new = Stored(x)'
          BY <3>1, <5>1, <5>3, <5>5
        <5> QED
          BY <5>5, <5>6 DEF Roles!Leaves
      <4>3. CASE x # u
        <5>1. Stored(x)' = Stored(x)
          BY <2>1, <2>4, <4>3 DEF Stored, Audited
        <5>2. \A i \in DOMAIN rows : rows[i].of # x
          BY <2>6, <3>1, <4>3
        <5>3. Chained(x)' /\ \A v : Roles!Leaves(Len(audit), x, v) => Roles!Leaves(Len(audit), x, v)'
          BY <3>1, <4>1, <5>2, AuditAppends
        <5> QED
          BY <4>1, <5>1, <5>3
      <4> QED
        BY <4>2, <4>3
    <3>6. Audited' = Audited /\ Entry' = Entry /\ Roles!Fields' = Roles!Fields /\ Roles!Roles' = Roles!Roles
      BY DEF Audited, Entry, Roles!Fields, Roles!Roles, Roles!Standard, Roles!Admin
    <3> QED
      BY <2>1, <2>4, <2>7, <3>2, <3>4, <3>5, <3>6 DEF AuditInv
  <2> QED
    BY <2>1, <2>8, <2>9
<1>14. ASSUME NEW c \in Callers, Roles!CommitFlag(c)
       PROVE  AuditInv'
  <2> DEFINE patch == call[c].patch
             Row(f) == [of |-> f, old |-> flag[f], new |-> patch[f]]
             changed == {f \in DOMAIN patch : patch[f] # flag[f]}
             S == {Row(f) : f \in changed}
  <2>0. PICK rows : rows = Roles!SetToSeq(S)
    OBVIOUS
  <2>1. /\ AuditAsked(c) /\ call[c].pc = "locked" /\ call[c].kind = "flag"
        /\ flag' = [f \in Roles!Fields |-> IF f \in DOMAIN patch THEN patch[f] ELSE flag[f]]
        /\ audit' = audit \o rows /\ UNCHANGED role /\ Roles!Goes(c, Roles!Idle)
    BY <1>14, <2>0 DEF AuditInv, Roles!CommitFlag, Roles!Audited
  <2>2. /\ DOMAIN patch \subseteq Roles!Fields /\ \A f \in DOMAIN patch : patch[f] \in Nat
        /\ flag \in [Roles!Fields -> Nat] /\ audit \in Seq(Entry)
    BY <2>1 DEF AuditAsked, AuditInv
  <2>3. flag' \in [Roles!Fields -> Nat]
    BY <2>1, <2>2
  <2>4. IsFiniteSet(S)
    <3>1. IsFiniteSet({Row("enabled")} \cup {Row("minTier")})
      BY FS_Singleton, FS_AddElement
    <3>2. S \in SUBSET ({Row("enabled")} \cup {Row("minTier")})
      BY <2>2 DEF Roles!Fields
    <3> HIDE DEF S
    <3> QED
      BY <3>1, <3>2, FS_Subset
  <2>5. S \subseteq Entry /\ \A e \in S : /\ e.of \in changed /\ e.old = flag[e.of]
                                          /\ e.new = patch[e.of] /\ e = Row(e.of)
    BY <2>2 DEF Entry
  <2>6. \A f \in changed : Row(f) \in S
    OBVIOUS
  <2>7. /\ rows \in Seq(S)
        /\ \A i, j \in DOMAIN rows : rows[i] = rows[j] => i = j
        /\ \A e \in S : \E i \in DOMAIN rows : rows[i] = e
    <3> HIDE DEF S
    <3> QED
      BY <2>0, <2>4, SequenceOfSet
  <2> HIDE DEF S
  <2>8. \A i \in DOMAIN rows : rows[i] \in S
    BY <2>7
  <2>9. rows \in Seq(Entry)
    BY <2>5, <2>7
  <2>10. audit' \in Seq(Entry)
    BY <2>1, <2>2, <2>9
  <2>11. \A v \in Users : role'[v] = None => \A n \in DOMAIN audit' : audit'[n].of # v
    <3>1. \A n \in DOMAIN audit' : (\E i \in DOMAIN rows : audit'[n] = rows[i])
                                   \/ \E m \in DOMAIN audit : audit'[n] = audit[m]
      BY <2>1, <2>2, <2>9
    <3>2. \A i \in DOMAIN rows : rows[i].of \notin Users
      BY <2>2, <2>5, <2>8
    <3> QED
      BY <2>1, <3>1, <3>2 DEF AuditInv
  <2>12. ASSUME NEW x \in Audited
         PROVE  Chained(x)' /\ (Stored(x)' # None => Roles!Leaves(Len(audit), x, Stored(x))')
    <3>1. Chained(x) /\ (Stored(x) # None => Roles!Leaves(Len(audit), x, Stored(x)))
      BY DEF AuditInv
    <3>2. \A i, j \in DOMAIN rows : rows[i].of = x /\ rows[j].of = x => i = j
      BY <2>5, <2>7, <2>8
    <3>3. CASE x \in changed
      <4>1. x \in Roles!Fields /\ Stored(x) = flag[x] /\ Stored(x)' = patch[x]
        BY <2>1, <2>2, <3>3 DEF Stored, Roles!Fields
      <4>2. Roles!Leaves(Len(audit), x, flag[x])
        BY <2>2, <3>1, <4>1
      <4>3. PICK i \in DOMAIN rows : rows[i] = Row(x)
        BY <2>6, <2>7, <3>3
      <4>4. rows[i].of = x /\ rows[i].new = patch[x]
        BY <4>3
      <4>5. \A j \in DOMAIN rows : rows[j].of = x => rows[j].old = flag[x]
        BY <2>5, <2>8
      <4>6. /\ Chained(x)'
            /\ \A j \in DOMAIN rows : rows[j].of = x => Roles!Leaves(Len(audit), x, rows[j].new)'
        BY <2>1, <2>2, <2>9, <3>1, <3>2, <4>2, <4>5, AuditAppends
      <4>7. Roles!Leaves(Len(audit), x, rows[i].new)' /\ rows[i].new = Stored(x)'
        BY <4>1, <4>4, <4>6
      <4> QED
        BY <4>6, <4>7 DEF Roles!Leaves
    <3>4. CASE x \notin changed
      <4>1. Stored(x)' = Stored(x)
        BY <2>1, <2>2, <3>4 DEF Stored, Roles!Fields
      <4>2. \A i \in DOMAIN rows : rows[i].of # x
        BY <2>5, <2>8, <3>4
      <4>3. Chained(x)' /\ \A v : Roles!Leaves(Len(audit), x, v) => Roles!Leaves(Len(audit), x, v)'
        BY <2>1, <2>2, <2>9, <3>1, <4>2, AuditAppends
      <4> QED
        BY <3>1, <4>1, <4>3
    <3> QED
      BY <3>3, <3>4
  <2>13. \A d \in Callers : AuditAsked(d)' /\ AuditSignedIn(d)'
    <3>1. Roles!Idle.pc = "idle"
      BY DEF Roles!Idle
    <3> QED
      BY <1>12, <2>1, <3>1
  <2>14. Audited' = Audited /\ Entry' = Entry /\ Roles!Fields' = Roles!Fields /\ Roles!Roles' = Roles!Roles
    BY DEF Audited, Entry, Roles!Fields, Roles!Roles, Roles!Standard, Roles!Admin
  <2>15. role' \in [Users -> Roles!Roles \cup {None}]
    BY <2>1 DEF AuditInv
  <2> QED
    BY <2>3, <2>10, <2>11, <2>12, <2>13, <2>14, <2>15 DEF AuditInv
<1> QED
  <2>1. ASSUME NEW r \in RoleReplicas, NEW u \in Users, Roles!Check(r, u) \/ Roles!Expire(r, u)
        PROVE  AuditInv'
    BY <2>1, AuditUnchanged DEF Roles!Check, Roles!Expire
  <2> QED
    BY <1>1, <1>5, <1>6, <1>7, <1>9, <1>10, <1>11, <1>13, <1>14, <2>1 DEF Roles!Next

-----------------------------------------------------------------------------
(* Bungie tokens. *)

Token == [grant: 1 .. issued, durable: BOOLEAN]
TokenFields == {"pc", "on", "held", "new"}
TokenCall(x) == x = [f \in TokenFields |-> x[f]]

TokensShape ==
    /\ issued \in Nat
    /\ valid \in SUBSET (1 .. issued) /\ spent \in SUBSET (1 .. issued)
    /\ grant \in (1 .. issued) \cup {None}
    /\ mem \in [TokenReplicas -> Token \cup {None}]
    /\ call = [c \in Callers |-> call[c]]
    /\ \A c \in Callers :
          /\ TokenCall(call[c])
          /\ call[c].held \in Token \cup {None} /\ call[c].new \in Token \cup {None}
          /\ call[c].pc # "idle" => call[c].on \in TokenReplicas

\* What a call exchanges is not valid, and what it has been granted is, for no
\* token ages while the call that brings it runs.
TokenCallInv(c) ==
    /\ call[c].pc = "exchange" => call[c].held # None /\ call[c].held.grant \notin valid
    /\ call[c].new # None => call[c].new.grant \in valid
    /\ call[c].pc \in {"persist", "reconcile", "overwrite", "adopt", "remember", "signIn"} =>
          call[c].new # None
    /\ call[c].pc = "persist" => call[c].held # None /\ call[c].held.grant < call[c].new.grant

\* Where nothing was lost, the row's refresh token is unspent, or who spent it
\* is about to write the row; and there is a row, or a sign-in that brings it.
RowCarried ==
    ~disturbed /\ grant \in spent =>
        \E e \in Callers : call[e].pc = "persist" /\ call[e].held.grant = grant

RowComes ==
    ~disturbed /\ issued > 0 /\ grant = None => \E e \in Callers : call[e].pc = "signIn"

NothingDeleted == ~disturbed => \A c \in Callers : call[c].pc # "deleteRow"

TokensInv ==
    /\ TokensShape
    /\ \A c \in Callers : TokenCallInv(c)
    /\ spent \cap valid = {}
    /\ RowCarried /\ RowComes /\ NothingDeleted

\* More is granted, and nothing is taken back.
LEMMA TokenGrows ==
  ASSUME issued \in Nat, issued' \in {issued, issued + 1}
  PROVE  /\ Token \cup {None} \subseteq Token' \cup {None}'
         /\ \A t \in Token : t # None /\ t.grant \in 1 .. issued
BY NoneAssumption DEF Token

\* A step of one caller, or of Bungie, disturbs nothing of the others' calls.
TokensKept ==
    \/ issued' = issued /\ valid' = valid
    \/ issued' = issued + 1 /\ valid' = valid \cup {issued + 1}

\* A call that a step leaves alone still knows what it knew, if its grants are kept.
LEMMA TokensOthers ==
  ASSUME TokensInv, NEW c \in Callers, call'[c] = call[c], TokensKept
  PROVE  TokenCallInv(c)'
<1>1. /\ TokenCallInv(c) /\ issued \in Nat
      /\ call[c].held \in Token \cup {None} /\ call[c].new \in Token \cup {None}
  BY DEF TokensInv, TokensShape
<1>2. \A t \in Token \cup {None} : t # None => t.grant \in 1 .. issued
  BY DEF Token
<1> QED
  BY <1>1, <1>2 DEF TokenCallInv, TokensKept

\* A step of one caller.
LEMMA TokensStep ==
  ASSUME TokensInv, NEW c \in Callers, NEW next, call' = [call EXCEPT ![c] = next],
         TokenCall(next), next.held \in (Token \cup {None})', next.new \in (Token \cup {None})',
         next.pc # "idle" => next.on \in TokenReplicas,
         mem' \in [TokenReplicas -> (Token \cup {None})'],
         TokensKept, spent' \in SUBSET (1 .. issued'), grant' \in (1 .. issued') \cup {None},
         TokenCallInv(c)', spent' \cap valid' = {}, RowCarried', RowComes', NothingDeleted'
  PROVE  TokensInv'
<1>1. \A d \in Callers : call'[d] = IF d = c THEN next ELSE call[d]
  BY DEF TokensInv, TokensShape
<1>2. \A d \in Callers : TokenCallInv(d)'
  BY <1>1, TokensOthers
<1>3. issued' \in Nat /\ issued' \in {issued, issued + 1} /\ valid' \in SUBSET (1 .. issued')
  BY DEF TokensInv, TokensShape, TokensKept
<1>4. Token \cup {None} \subseteq (Token \cup {None})'
  BY <1>3, TokenGrows DEF TokensInv, TokensShape
<1>5. ASSUME NEW d \in Callers
      PROVE  /\ TokenCall(call'[d])
             /\ call'[d].held \in (Token \cup {None})' /\ call'[d].new \in (Token \cup {None})'
             /\ call'[d].pc # "idle" => call'[d].on \in TokenReplicas
  <2>1. CASE d = c
    BY <1>1, <2>1
  <2>2. CASE d # c
    BY <1>1, <1>4, <2>2 DEF TokensInv, TokensShape
  <2> QED
    BY <2>1, <2>2
<1>6. call' = [d \in Callers |-> call'[d]]
  BY DEF TokensInv, TokensShape
<1>7. TokensShape'
  BY <1>3, <1>5, <1>6 DEF TokensShape, TokenCall, TokenFields
<1> QED
  BY <1>2, <1>7 DEF TokensInv

\* What is known of the row stays known while nobody writes it or was about to.
LEMMA RowStays ==
  ASSUME TokensInv, NEW c \in Callers, NEW next, call' = [call EXCEPT ![c] = next],
         UNCHANGED <<grant, spent, disturbed, issued>>,
         call[c].pc \notin {"persist", "signIn"}, next.pc # "deleteRow"
  PROVE  RowCarried' /\ RowComes' /\ NothingDeleted'
<1>1. \A d \in Callers : call'[d] = IF d = c THEN next ELSE call[d]
  BY DEF TokensInv, TokensShape
<1> QED
  BY <1>1 DEF TokensInv, RowCarried, RowComes, NothingDeleted

\* A row that is written is written with a token that is valid, and so unspent.
LEMMA RowWritten ==
  ASSUME TokensInv, NEW c \in Callers, NEW next, call' = [call EXCEPT ![c] = next],
         grant' = call[c].new.grant, call[c].new # None, UNCHANGED <<valid, spent, disturbed>>,
         next.pc # "deleteRow"
  PROVE  grant' \in 1 .. issued /\ RowCarried' /\ RowComes' /\ NothingDeleted'
<1>1. \A d \in Callers : call'[d] = IF d = c THEN next ELSE call[d]
  BY DEF TokensInv, TokensShape
<1>2. grant' \in valid /\ grant' \notin spent /\ grant' \in 1 .. issued
  BY DEF TokensInv, TokensShape, TokenCallInv
<1> QED
  BY <1>1, <1>2, NoneAssumption DEF TokensInv, RowCarried, RowComes, NothingDeleted

\* The invariant is about Bungie, the row, the memories and the calls.
LEMMA TokensUnchanged ==
  ASSUME TokensInv, UNCHANGED <<issued, valid, spent, grant, mem, call, disturbed>>
  PROVE  TokensInv'
<1>1. \A c \in Callers : TokenCallInv(c)'
  BY DEF TokensInv, TokenCallInv
<1> QED
  BY <1>1 DEF TokensInv, TokensShape, TokenCall, TokenFields, Token, RowCarried, RowComes,
              NothingDeleted

\* Every step of the tokens keeps their invariant.
LEMMA TokensNext ==
  ASSUME TokensInv, Tokens!Next
  PROVE  TokensInv'
<1> USE NoneAssumption
<1>1. ASSUME NEW c \in Callers
      PROVE  /\ TokenCall(call[c]) /\ TokenCallInv(c)
             /\ call[c].held \in Token \cup {None} /\ call[c].new \in Token \cup {None}
             /\ call[c].pc # "idle" => call[c].on \in TokenReplicas
  BY DEF TokensInv, TokensShape
<1>2. /\ issued \in Nat /\ valid \in SUBSET (1 .. issued) /\ spent \in SUBSET (1 .. issued)
      /\ grant \in (1 .. issued) \cup {None} /\ mem \in [TokenReplicas -> Token \cup {None}]
      /\ spent \cap valid = {}
  BY DEF TokensInv, TokensShape
<1>3. TokenCall(Tokens!Idle) /\ Tokens!Idle.pc = "idle" /\ Tokens!Idle.held = None /\ Tokens!Idle.new = None
  BY DEF TokenCall, TokenFields, Tokens!Idle
<1>4. issued' = issued => (Token \cup {None})' = Token \cup {None}
  BY DEF Token
\* Steps that end a call, or move one that writes nothing.
<1>5. ASSUME NEW c \in Callers, NEW next, call' = [call EXCEPT ![c] = next],
             UNCHANGED <<issued, valid, spent, grant, disturbed>>,
             mem' \in [TokenReplicas -> Token \cup {None}],
             TokenCall(next), next.held \in Token \cup {None}, next.new \in Token \cup {None},
             next.pc # "idle" => next.on \in TokenReplicas,
             TokenCallInv(c)', call[c].pc \notin {"persist", "signIn"}, next.pc # "deleteRow"
      PROVE  TokensInv'
  BY <1>2, <1>4, <1>5, RowStays, TokensStep DEF TokensKept
<1>6. ASSUME NEW c \in Callers, call' = [call EXCEPT ![c] = Tokens!Idle]
      PROVE  TokenCallInv(c)' /\ call'[c] = Tokens!Idle
  BY <1>3, <1>6 DEF TokenCallInv, TokensInv, TokensShape
<1>7. ASSUME NEW c \in Callers, NEW r \in TokenReplicas, Tokens!Ask(c, r)
      PROVE  TokensInv'
  <2> DEFINE next == [Tokens!Idle EXCEPT !.on = r, !.pc = IF mem[r] = None THEN "load" ELSE "lock"]
  <2>1. /\ call' = [call EXCEPT ![c] = next] /\ call[c].pc = "idle"
        /\ UNCHANGED <<issued, valid, spent, grant, disturbed, mem>>
    BY <1>3, <1>7 DEF Tokens!Ask, Tokens!Goes, Tokens!bungieVars
  <2>2. TokenCall(next) /\ next.on = r /\ next.held = None /\ next.new = None /\ next.pc \in {"load", "lock"}
    BY DEF TokenCall, TokenFields, Tokens!Idle
  <2> HIDE DEF next
  <2>3. call'[c] = next
    BY <2>1 DEF TokensInv, TokensShape
  <2>4. TokenCallInv(c)'
    BY <2>2, <2>3 DEF TokenCallInv
  <2> QED
    BY <1>2, <1>5, <2>1, <2>2, <2>4
<1>8. ASSUME NEW c \in Callers, NEW next, call' = [call EXCEPT ![c] = next], disturbed' = TRUE,
             UNCHANGED <<issued, valid>>, spent' \in SUBSET (1 .. issued), spent' \cap valid = {},
             grant' \in (1 .. issued) \cup {None},
             mem' \in [TokenReplicas -> Token \cup {None}],
             TokenCall(next), next.held \in Token \cup {None}, next.new \in Token \cup {None},
             next.pc # "idle" => next.on \in TokenReplicas,
             TokenCallInv(c)'
      PROVE  TokensInv'
  <2>1. RowCarried' /\ RowComes' /\ NothingDeleted'
    BY <1>8 DEF RowCarried, RowComes, NothingDeleted
  <2> QED
    BY <1>4, <1>8, <2>1, TokensStep DEF TokensKept
<1>9. ASSUME NEW c \in Callers, call' = [call EXCEPT ![c] = Tokens!Idle],
             call[c].pc \notin {"persist", "signIn"} \/ disturbed',
             UNCHANGED <<issued, valid, spent, grant>>, disturbed' \in {disturbed, TRUE},
             mem' \in [TokenReplicas -> Token \cup {None}]
      PROVE  TokensInv'
  <2>1. CASE disturbed' = TRUE
    BY <1>2, <1>3, <1>6, <1>8, <1>9, <2>1
  <2>2. CASE disturbed' = disturbed /\ disturbed' # TRUE
    <3>1. CASE call[c].pc \notin {"persist", "signIn"}
      BY <1>3, <1>5, <1>6, <1>9, <2>2, <3>1
    <3>2. CASE disturbed'
      <4>1. RowCarried' /\ RowComes' /\ NothingDeleted'
        BY <3>2 DEF RowCarried, RowComes, NothingDeleted
      <4> QED
        BY <1>2, <1>3, <1>4, <1>6, <1>9, <4>1, TokensStep DEF TokensKept
    <3> QED
      BY <1>9, <3>1, <3>2
  <2> QED
    BY <1>9, <2>1, <2>2
<1>10. ASSUME NEW c \in Callers, Tokens!Load(c) \/ Tokens!Cache(c) \/ Tokens!Lock(c)
       PROVE  TokensInv'
  <2>1. CASE Tokens!Load(c)
    <3> DEFINE next == [call[c] EXCEPT !.pc = "cache", !.held = [grant |-> grant, durable |-> TRUE]]
    <3>1. CASE grant # None /\ call' = [call EXCEPT ![c] = next]
      <4>1. /\ TokenCall(next) /\ next.on = call[c].on /\ next.new = call[c].new
            /\ next.held = [grant |-> grant, durable |-> TRUE] /\ next.pc = "cache"
        BY <1>1 DEF TokenCall, TokenFields
      <4> HIDE DEF next
      <4>2. next.held \in Token
        BY <1>2, <3>1, <4>1 DEF Token
      <4>3. call'[c] = next
        BY <3>1 DEF TokensInv, TokensShape
      <4>4. TokenCallInv(c)'
        BY <1>1, <2>1, <4>1, <4>3 DEF TokenCallInv, Tokens!Load, Tokens!bungieVars
      <4> QED
        BY <1>1, <1>2, <1>5, <2>1, <3>1, <4>1, <4>2, <4>4 DEF Tokens!Load, Tokens!bungieVars
    <3>2. CASE call' = [call EXCEPT ![c] = Tokens!Idle]
      BY <1>2, <1>9, <2>1, <3>2 DEF Tokens!Load, Tokens!bungieVars
    <3> QED
      BY <2>1, <3>1, <3>2 DEF Tokens!Load, Tokens!Goes
  <2>2. CASE Tokens!Cache(c)
    <3> DEFINE next == [call[c] EXCEPT !.pc = "lock", !.held = None]
    <3>1. mem' \in [TokenReplicas -> Token \cup {None}]
      BY <1>1, <1>2, <2>2 DEF Tokens!Cache
    <3>2. CASE call' = [call EXCEPT ![c] = next]
      <4>1. /\ TokenCall(next) /\ next.on = call[c].on /\ next.new = call[c].new
            /\ next.held = None /\ next.pc = "lock"
        BY <1>1 DEF TokenCall, TokenFields
      <4> HIDE DEF next
      <4>2. call'[c] = next
        BY <3>2 DEF TokensInv, TokensShape
      <4>3. TokenCallInv(c)'
        BY <1>1, <2>2, <4>1, <4>2 DEF TokenCallInv, Tokens!Cache, Tokens!bungieVars
      <4> QED
        BY <1>1, <1>2, <1>5, <2>2, <3>1, <3>2, <4>1, <4>3 DEF Tokens!Cache, Tokens!bungieVars
    <3>3. CASE call' = [call EXCEPT ![c] = Tokens!Idle]
      BY <1>2, <1>9, <2>2, <3>1, <3>3 DEF Tokens!Cache, Tokens!bungieVars
    <3> QED
      BY <2>2, <3>2, <3>3 DEF Tokens!Cache, Tokens!Goes
  <2>3. CASE Tokens!Lock(c)
    <3> DEFINE next == [call[c] EXCEPT !.pc = "exchange", !.held = mem[call[c].on]]
    <3>1. CASE Tokens!NeedsRefresh(mem[call[c].on]) /\ call' = [call EXCEPT ![c] = next]
      <4>1. /\ TokenCall(next) /\ next.on = call[c].on /\ next.new = call[c].new
            /\ next.held = mem[call[c].on] /\ next.pc = "exchange"
        BY <1>1 DEF TokenCall, TokenFields
      <4> HIDE DEF next
      <4>2. next.held \in Token \cup {None} /\ next.held # None /\ next.held.grant \notin valid
        BY <1>1, <1>2, <2>3, <3>1, <4>1 DEF Tokens!Lock, Tokens!NeedsRefresh
      <4>3. call'[c] = next
        BY <3>1 DEF TokensInv, TokensShape
      <4>4. TokenCallInv(c)'
        BY <1>1, <2>3, <4>1, <4>2, <4>3 DEF TokenCallInv, Tokens!Lock, Tokens!bungieVars
      <4> QED
        BY <1>1, <1>2, <1>5, <2>3, <3>1, <4>1, <4>2, <4>4 DEF Tokens!Lock, Tokens!bungieVars
    <3>2. CASE call' = [call EXCEPT ![c] = Tokens!Idle]
      BY <1>2, <1>9, <2>3, <3>2 DEF Tokens!Lock, Tokens!bungieVars
    <3> QED
      BY <2>3, <3>1, <3>2 DEF Tokens!Lock, Tokens!Goes
  <2> QED
    BY <1>10, <2>1, <2>2, <2>3
<1>11. ASSUME NEW c \in Callers, Tokens!Exchange(c)
       PROVE  TokensInv'
  <2> DEFINE next == [call[c] EXCEPT !.pc = "persist",
                                     !.new = [grant |-> issued + 1, durable |-> FALSE]]
  <2>1. /\ call[c].pc = "exchange" /\ call' = [call EXCEPT ![c] = next]
        /\ issued' = issued + 1 /\ valid' = valid \cup {issued + 1}
        /\ spent' = spent \cup {call[c].held.grant} /\ UNCHANGED <<grant, mem, disturbed>>
    BY <1>11 DEF Tokens!Exchange, Tokens!Issue, Tokens!Spend, Tokens!Goes
  <2>2. /\ TokenCall(next) /\ next.on = call[c].on /\ next.held = call[c].held
        /\ next.new = [grant |-> issued + 1, durable |-> FALSE] /\ next.pc = "persist"
    BY <1>1 DEF TokenCall, TokenFields
  <2> HIDE DEF next
  <2>3. \A d \in Callers : call'[d] = IF d = c THEN next ELSE call[d]
    BY <2>1 DEF TokensInv, TokensShape
  <2>4. Token \cup {None} \subseteq (Token \cup {None})' /\ issued' \in Nat
    BY <1>2, <2>1, TokenGrows
  <2>5. next.new \in Token' /\ next.new # None
    <3>1. next.new \in [grant: 1 .. issued + 1, durable: BOOLEAN]
      BY <1>2, <2>2
    <3>2. next.new \in [grant: Nat, durable: BOOLEAN]
      BY <1>2, <2>2
    <3> QED
      BY <2>1, <3>1, <3>2 DEF Token
  <2>6. call[c].held \in Token /\ call[c].held # None /\ call[c].held.grant \in 1 .. issued
        /\ call[c].held.grant \notin valid
    BY <1>1, <2>1 DEF TokenCallInv, Token
  <2>7. TokenCallInv(c)'
    BY <1>2, <2>1, <2>2, <2>3, <2>5, <2>6 DEF TokenCallInv
  <2>8. spent' \in SUBSET (1 .. issued') /\ spent' \cap valid' = {}
    BY <1>2, <2>1, <2>6
  <2>9. RowCarried'
    BY <2>1, <2>2, <2>3, <2>6 DEF TokensInv, RowCarried
  <2>10. RowComes' /\ NothingDeleted'
    BY <1>2, <2>1, <2>2, <2>3, <2>6 DEF TokensInv, RowComes, NothingDeleted
  <2>11. grant' \in (1 .. issued') \cup {None} /\ mem' \in [TokenReplicas -> (Token \cup {None})']
    BY <1>2, <2>1, <2>4
  <2> QED
    BY <1>1, <2>1, <2>2, <2>4, <2>5, <2>7, <2>8, <2>9, <2>10, <2>11, TokensStep DEF TokensKept
<1>12. ASSUME NEW c \in Callers, Tokens!Refuse(c) \/ Tokens!LoseAnswer(c)
       PROVE  TokensInv'
  <2>1. CASE Tokens!Refuse(c)
    BY <1>2, <1>9, <2>1 DEF Tokens!Refuse, Tokens!Returns, Tokens!Goes, Tokens!bungieVars
  <2>2. CASE Tokens!LoseAnswer(c)
    <3>1. call[c].held \in Token /\ call[c].held.grant \in 1 .. issued /\ call[c].held.grant \notin valid
      BY <1>1, <2>2 DEF TokenCallInv, Tokens!LoseAnswer, Token
    <3> QED
      BY <1>2, <1>3, <1>6, <1>8, <2>2, <3>1
      DEF Tokens!LoseAnswer, Tokens!Fault, Tokens!Spend, Tokens!Returns, Tokens!Goes
  <2> QED
    BY <1>12, <2>1, <2>2
\* The call moves on as it is, or with its grant told durable.
<1>13. ASSUME NEW c \in Callers, NEW pc \in {"remember", "reconcile", "overwrite"}, NEW next,
              next = [call[c] EXCEPT !.pc = pc, !.new.durable = TRUE] \/ next = [call[c] EXCEPT !.pc = pc],
              call' = [call EXCEPT ![c] = next], UNCHANGED <<issued, valid>>,
              call[c].pc \in {"persist", "reconcile", "overwrite", "signIn"}
       PROVE  /\ TokenCall(next) /\ next.held \in Token \cup {None} /\ next.new \in Token \cup {None}
              /\ next.pc = pc /\ next.pc # "deleteRow" /\ next.on \in TokenReplicas
              /\ TokenCallInv(c)'
  <2>1. /\ call[c].new \in Token /\ call[c].new # None /\ call[c].new.grant \in valid
        /\ call[c].on \in TokenReplicas
    BY <1>1, <1>13 DEF TokenCallInv
  <2>2. /\ TokenCall(next) /\ next.on = call[c].on /\ next.held = call[c].held /\ next.pc = pc
        /\ next.new = [call[c].new EXCEPT !.durable = TRUE] \/ next.new = call[c].new
    BY <1>1, <1>13 DEF TokenCall, TokenFields
  <2>3. next.new \in Token /\ next.new.grant = call[c].new.grant
    BY <2>1, <2>2 DEF Token
  <2>4. next.new # None
    BY <1>2, <2>3 DEF Token
  <2>5. call'[c] = next
    BY <1>13 DEF TokensInv, TokensShape
  <2>6. TokenCallInv(c)'
    BY <1>13, <2>1, <2>2, <2>3, <2>4, <2>5 DEF TokenCallInv
  <2> QED
    BY <1>1, <1>13, <2>1, <2>2, <2>3, <2>6
<1>14. ASSUME NEW c \in Callers, call[c].pc \in {"persist", "overwrite", "signIn"},
              Tokens!Written(c, "remember"), UNCHANGED <<issued, valid, spent, mem, disturbed>>
       PROVE  TokensInv'
  <2> DEFINE next == [call[c] EXCEPT !.pc = "remember", !.new.durable = TRUE]
  <2>1. call' = [call EXCEPT ![c] = next] /\ grant' = call[c].new.grant
    BY <1>14 DEF Tokens!Written, Tokens!Goes
  <2>2. call[c].new # None
    BY <1>1, <1>14 DEF TokenCallInv
  <2>3. /\ TokenCall(next) /\ next.held \in Token \cup {None} /\ next.new \in Token \cup {None}
        /\ next.pc # "deleteRow" /\ next.on \in TokenReplicas /\ TokenCallInv(c)'
    BY <1>13, <1>14, <2>1
  <2> HIDE DEF next
  <2>4. grant' \in 1 .. issued /\ RowCarried' /\ RowComes' /\ NothingDeleted'
    BY <1>14, <2>1, <2>2, <2>3, RowWritten
  <2> QED
    BY <1>2, <1>4, <1>14, <2>1, <2>3, <2>4, TokensStep DEF TokensKept
<1>15. ASSUME NEW c \in Callers, Tokens!Persist(c)
       PROVE  TokensInv'
  <2>1. CASE Tokens!Swaps(call[c].held)
    BY <1>14, <1>15, <2>1 DEF Tokens!Persist, Tokens!bungieVars
  <2>2. CASE ~Tokens!Swaps(call[c].held)
    <3> DEFINE next == [call[c] EXCEPT !.pc = "reconcile"]
    <3>1. /\ call[c].pc = "persist" /\ call' = [call EXCEPT ![c] = next]
          /\ UNCHANGED <<issued, valid, spent, grant, mem, disturbed>>
      BY <1>15, <2>2 DEF Tokens!Persist, Tokens!Goes, Tokens!bungieVars
    <3>2. /\ TokenCall(next) /\ next.held \in Token \cup {None} /\ next.new \in Token \cup {None}
          /\ next.pc = "reconcile" /\ next.on \in TokenReplicas /\ TokenCallInv(c)'
      BY <1>13, <3>1
    <3> HIDE DEF next
    <3>3. \A d \in Callers : call'[d] = IF d = c THEN next ELSE call[d]
      BY <3>1 DEF TokensInv, TokensShape
    <3>4. call[c].held.grant # grant
      BY <2>2 DEF Tokens!Swaps
    <3>5. RowCarried' /\ RowComes' /\ NothingDeleted'
      BY <3>1, <3>2, <3>3, <3>4 DEF TokensInv, RowCarried, RowComes, NothingDeleted
    <3> QED
      BY <1>2, <1>4, <3>1, <3>2, <3>5, TokensStep DEF TokensKept
  <2> QED
    BY <2>1, <2>2
<1>16. ASSUME NEW c \in Callers, Tokens!Reconcile(c)
       PROVE  TokensInv'
  <2> DEFINE next == [call[c] EXCEPT !.pc = "adopt", !.held = [grant |-> grant, durable |-> TRUE]]
  <2>1. /\ call[c].pc = "reconcile" /\ UNCHANGED <<issued, valid, spent, grant, mem, disturbed>>
    BY <1>16 DEF Tokens!Reconcile, Tokens!bungieVars
  <2>2. CASE grant \in valid /\ call' = [call EXCEPT ![c] = next]
    <3>1. /\ TokenCall(next) /\ next.on = call[c].on /\ next.new = call[c].new
          /\ next.held = [grant |-> grant, durable |-> TRUE] /\ next.pc = "adopt"
      BY <1>1 DEF TokenCall, TokenFields
    <3> HIDE DEF next
    <3>2. grant \in 1 .. issued
      BY <1>2, <2>2
    <3>3. next.held \in Token
      BY <3>1, <3>2 DEF Token
    <3>4. call'[c] = next
      BY <2>2 DEF TokensInv, TokensShape
    <3>5. TokenCallInv(c)'
      BY <1>1, <2>1, <3>1, <3>4 DEF TokenCallInv
    <3> QED
      BY <1>1, <1>2, <1>5, <2>1, <2>2, <3>1, <3>3, <3>5
  <2>3. ASSUME NEW pc \in {"overwrite", "remember"}, call' = [call EXCEPT ![c] = [call[c] EXCEPT !.pc = pc]]
        PROVE  TokensInv'
    <3> DEFINE moved == [call[c] EXCEPT !.pc = pc]
    <3>1. /\ TokenCall(moved) /\ moved.held \in Token \cup {None} /\ moved.new \in Token \cup {None}
          /\ moved.pc # "deleteRow" /\ moved.on \in TokenReplicas /\ TokenCallInv(c)'
      BY <1>13, <2>1, <2>3
    <3>2. call' = [call EXCEPT ![c] = moved]
      BY <2>3
    <3> HIDE DEF moved
    <3> QED
      BY <1>2, <1>5, <2>1, <3>1, <3>2
  <2> QED
    BY <1>16, <2>2, <2>3 DEF Tokens!Reconcile, Tokens!Goes
<1>17. ASSUME NEW c \in Callers, Tokens!Overwrite(c) \/ Tokens!StoreRow(c)
       PROVE  TokensInv'
  BY <1>14, <1>17 DEF Tokens!Overwrite, Tokens!StoreRow, Tokens!bungieVars
<1>18. ASSUME NEW c \in Callers, Tokens!WriteFails(c) \/ Tokens!StoreRowFails(c)
       PROVE  TokensInv'
  <2> DEFINE next == [call[c] EXCEPT !.pc = "remember"]
  <2>1. /\ call[c].pc \in {"persist", "overwrite", "signIn"} /\ disturbed' = TRUE
        /\ UNCHANGED <<issued, valid, spent, grant, mem>>
        /\ call' = [call EXCEPT ![c] = next] \/ call' = [call EXCEPT ![c] = Tokens!Idle]
    BY <1>18 DEF Tokens!WriteFails, Tokens!StoreRowFails, Tokens!Fault, Tokens!Goes, Tokens!bungieVars
  <2>2. CASE call' = [call EXCEPT ![c] = next]
    <3>1. /\ TokenCall(next) /\ next.held \in Token \cup {None} /\ next.new \in Token \cup {None}
          /\ next.on \in TokenReplicas /\ TokenCallInv(c)'
      BY <1>13, <2>1, <2>2
    <3> HIDE DEF next
    <3> QED
      BY <1>2, <1>8, <2>1, <2>2, <3>1
  <2>3. CASE call' = [call EXCEPT ![c] = Tokens!Idle]
    BY <1>2, <1>9, <2>1, <2>3
  <2> QED
    BY <2>1, <2>2, <2>3
<1>19. ASSUME NEW c \in Callers, Tokens!Adopt(c) \/ Tokens!Remember(c)
       PROVE  TokensInv'
  <2>1. /\ call[c].pc \in {"adopt", "remember"} /\ call' = [call EXCEPT ![c] = Tokens!Idle]
        /\ UNCHANGED <<issued, valid, spent, grant, disturbed>>
        /\ \/ mem' = [mem EXCEPT ![call[c].on] = call[c].held]
           \/ mem' = [mem EXCEPT ![call[c].on] = call[c].new]
    BY <1>19 DEF Tokens!Adopt, Tokens!Remember, Tokens!Returns, Tokens!Goes, Tokens!bungieVars
  <2>2. mem' \in [TokenReplicas -> Token \cup {None}]
    BY <1>1, <1>2, <2>1
  <2> QED
    BY <1>9, <2>1, <2>2
<1>20. ASSUME NEW c \in Callers, NEW r \in TokenReplicas, Tokens!SignIn(c, r)
       PROVE  TokensInv'
  <2> DEFINE next == [Tokens!Idle EXCEPT !.on = r, !.pc = "signIn",
                                         !.new = [grant |-> issued + 1, durable |-> FALSE]]
  <2>1. /\ call[c].pc = "idle" /\ call' = [call EXCEPT ![c] = next]
        /\ issued' = issued + 1 /\ valid' = valid \cup {issued + 1}
        /\ UNCHANGED <<spent, grant, mem, disturbed>>
    BY <1>3, <1>20 DEF Tokens!SignIn, Tokens!Issue, Tokens!Goes
  <2>2. /\ TokenCall(next) /\ next.on = r /\ next.held = None
        /\ next.new = [grant |-> issued + 1, durable |-> FALSE] /\ next.pc = "signIn"
    BY DEF TokenCall, TokenFields, Tokens!Idle
  <2> HIDE DEF next
  <2>3. \A d \in Callers : call'[d] = IF d = c THEN next ELSE call[d]
    BY <2>1 DEF TokensInv, TokensShape
  <2>4. Token \cup {None} \subseteq (Token \cup {None})' /\ issued' \in Nat
    BY <1>2, <2>1, TokenGrows
  <2>5. next.new \in Token' /\ next.new # None
    <3>1. next.new \in [grant: 1 .. issued + 1, durable: BOOLEAN]
      BY <1>2, <2>2
    <3>2. next.new \in [grant: Nat, durable: BOOLEAN]
      BY <1>2, <2>2
    <3> QED
      BY <2>1, <3>1, <3>2 DEF Token
  <2>6. TokenCallInv(c)'
    BY <1>2, <2>1, <2>2, <2>3, <2>5 DEF TokenCallInv
  <2>7. spent' \in SUBSET (1 .. issued') /\ spent' \cap valid' = {}
    BY <1>2, <2>1
  <2>8. RowCarried' /\ RowComes' /\ NothingDeleted'
    BY <1>2, <2>1, <2>2, <2>3 DEF TokensInv, RowCarried, RowComes, NothingDeleted
  <2>9. grant' \in (1 .. issued') \cup {None} /\ mem' \in [TokenReplicas -> (Token \cup {None})']
    BY <1>2, <2>1, <2>4
  <2> QED
    BY <2>1, <2>2, <2>4, <2>5, <2>6, <2>7, <2>8, <2>9, TokensStep DEF TokensKept
<1>21. ASSUME NEW c \in Callers, NEW r \in TokenReplicas, Tokens!SignOut(c, r)
       PROVE  TokensInv'
  <2> DEFINE next == [Tokens!Idle EXCEPT !.on = r, !.pc = "deleteRow"]
  <2>1. /\ call' = [call EXCEPT ![c] = next] /\ disturbed' = TRUE
        /\ UNCHANGED <<issued, valid, spent, grant>> /\ mem' = [mem EXCEPT ![r] = None]
    BY <1>21 DEF Tokens!SignOut, Tokens!Goes, Tokens!bungieVars
  <2>2. /\ TokenCall(next) /\ next.on = r /\ next.held = None /\ next.new = None /\ next.pc = "deleteRow"
    BY DEF TokenCall, TokenFields, Tokens!Idle
  <2> HIDE DEF next
  <2>3. call'[c] = next
    BY <2>1 DEF TokensInv, TokensShape
  <2>4. TokenCallInv(c)'
    BY <2>2, <2>3 DEF TokenCallInv
  <2>5. mem' \in [TokenReplicas -> Token \cup {None}]
    BY <1>2, <2>1
  <2> QED
    BY <1>2, <1>8, <2>1, <2>2, <2>4, <2>5
<1>22. ASSUME NEW c \in Callers, Tokens!DeleteRow(c)
       PROVE  TokensInv'
  <2>1. /\ call' = [call EXCEPT ![c] = Tokens!Idle] /\ grant' \in {grant, None}
        /\ UNCHANGED <<issued, valid, spent, mem, disturbed>>
    BY <1>22 DEF Tokens!DeleteRow, Tokens!Goes, Tokens!bungieVars
  <2>2. disturbed
    BY <1>22 DEF Tokens!DeleteRow, TokensInv, NothingDeleted
  <2>3. RowCarried' /\ RowComes' /\ NothingDeleted'
    BY <2>1, <2>2 DEF RowCarried, RowComes, NothingDeleted
  <2> QED
    BY <1>2, <1>3, <1>4, <1>6, <2>1, <2>3, TokensStep DEF TokensKept
\* Time, the cleaning of memory, and the end of a process.
<1>23. ASSUME NEW g, Tokens!Age(g) \/ Tokens!Lapse(g)
       PROVE  TokensInv'
  <2>1. /\ UNCHANGED <<issued, spent, grant, mem, call, disturbed>>
        /\ \/ valid' = valid
           \/ /\ valid' = valid \ {g}
              /\ \A c \in Callers : call[c].new # None => call[c].new.grant # g
    BY <1>23 DEF Tokens!Age, Tokens!Lapse
  <2>2. \A c \in Callers : TokenCallInv(c)'
    BY <2>1 DEF TokensInv, TokenCallInv
  <2> QED
    BY <2>1, <2>2 DEF TokensInv, TokensShape, TokenCall, TokenFields, Token, RowCarried, RowComes,
                      NothingDeleted
<1>24. ASSUME NEW r \in TokenReplicas, Tokens!CleanUp(r) \/ Tokens!Restart(r)
       PROVE  TokensInv'
  <2>1. /\ UNCHANGED <<issued, valid, spent, grant>> /\ mem' = [mem EXCEPT ![r] = None]
        /\ \/ UNCHANGED <<call, disturbed>>
           \/ /\ disturbed' = TRUE
              /\ call' = [c \in Callers |-> IF call[c].on = r THEN Tokens!Idle ELSE call[c]]
    BY <1>24 DEF Tokens!CleanUp, Tokens!Restart, Tokens!Fault, Tokens!bungieVars
  <2>2. mem' \in [TokenReplicas -> Token \cup {None}]
    BY <1>2, <2>1
  <2>3. \A c \in Callers : call'[c] \in {call[c], Tokens!Idle}
    BY <2>1 DEF TokensInv, TokensShape
  <2>4. \A c \in Callers : TokenCallInv(c)'
    BY <1>1, <1>3, <2>1, <2>3 DEF TokenCallInv
  <2>5. TokensShape'
    BY <1>2, <1>3, <1>4, <2>1, <2>2, <2>3 DEF TokensInv, TokensShape, TokenCall
  <2>6. RowCarried' /\ RowComes' /\ NothingDeleted'
    BY <2>1 DEF TokensInv, RowCarried, RowComes, NothingDeleted
  <2> QED
    BY <1>2, <2>1, <2>4, <2>5, <2>6 DEF TokensInv
<1> QED
  BY <1>7, <1>10, <1>11, <1>12, <1>15, <1>16, <1>17, <1>18, <1>19, <1>20, <1>21, <1>22, <1>23, <1>24
  DEF Tokens!Next, Tokens!Step

\* Nobody has signed in to Bungie.
LEMMA TokensInit == Tokens!Init => TokensInv
<1> SUFFICES ASSUME Tokens!Init PROVE TokensInv
  OBVIOUS
<1> USE NoneAssumption
<1>1. /\ TokenCall(Tokens!Idle) /\ Tokens!Idle.pc = "idle" /\ Tokens!Idle.held = None
      /\ Tokens!Idle.new = None
  BY DEF TokenCall, TokenFields, Tokens!Idle
<1>2. \A c \in Callers : call[c] = Tokens!Idle
  BY DEF Tokens!Init
<1>3. TokensShape
  BY <1>1, <1>2 DEF Tokens!Init, TokensShape
<1>4. \A c \in Callers : TokenCallInv(c)
  BY <1>1, <1>2 DEF TokenCallInv
<1> QED
  BY <1>1, <1>2, <1>3, <1>4 DEF TokensInv, Tokens!Init, RowCarried, RowComes, NothingDeleted

\* Of the steps of a call that has new tokens to write, only its compare-and-swap
\* changes the row, and only where the row is what the call has spent.
LEMMA TokensNeverStepBack ==
  ASSUME TokensInv, Tokens!Next, NEW c \in Callers, call[c].pc = "persist", call[c].held.durable,
         grant # None, grant' # grant, call'[c] # call[c]
  PROVE  grant' > grant
<1>1. \A d \in Callers : \A next : call' = [call EXCEPT ![d] = next] => d = c
  BY DEF TokensInv, TokensShape
<1>2. PICK d \in Callers : \/ \E r \in TokenReplicas : Tokens!Ask(d, r) \/ Tokens!SignIn(d, r) \/ Tokens!SignOut(d, r)
                          \/ Tokens!Step(d)
  <2>1. \A g : ~Tokens!Age(g) /\ ~Tokens!Lapse(g)
    BY DEF Tokens!Age, Tokens!Lapse
  <2>2. \A r \in TokenReplicas : ~Tokens!CleanUp(r) /\ ~Tokens!Restart(r)
    BY DEF Tokens!CleanUp, Tokens!Restart, Tokens!bungieVars
  <2> QED
    BY <2>1, <2>2 DEF Tokens!Next
<1>3. \/ Tokens!Persist(d) /\ Tokens!Written(d, "remember")
      \/ Tokens!Overwrite(d) \/ Tokens!StoreRow(d) \/ Tokens!DeleteRow(d)
  BY <1>2 DEF Tokens!Ask, Tokens!SignIn, Tokens!SignOut, Tokens!Step, Tokens!Lock, Tokens!Load,
              Tokens!Cache, Tokens!Exchange, Tokens!Refuse, Tokens!LoseAnswer, Tokens!Persist,
              Tokens!Reconcile, Tokens!WriteFails, Tokens!Adopt, Tokens!Remember,
              Tokens!StoreRowFails, Tokens!bungieVars
<1>4. d = c
  BY <1>1, <1>3 DEF Tokens!Overwrite, Tokens!StoreRow, Tokens!Written, Tokens!DeleteRow, Tokens!Goes
<1>5. Tokens!Persist(c)
  BY <1>3, <1>4 DEF Tokens!Overwrite, Tokens!StoreRow, Tokens!DeleteRow
<1>6. grant = call[c].held.grant /\ grant' = call[c].new.grant
  BY <1>5 DEF Tokens!Persist, Tokens!Swaps, Tokens!Written
<1> QED
  BY <1>6 DEF TokensInv, TokenCallInv

\* While the row or a call that writes it holds a refresh token nobody has
\* spent, the player is connected.
LEMMA TokensConnect == TokensInv => Tokens!ConnectionKept
<1> SUFFICES ASSUME TokensInv, issued > 0, ~disturbed
             PROVE  \E g \in Tokens!HeldGrants : g \notin spent \cup {None}
  BY DEF Tokens!ConnectionKept
<1> USE NoneAssumption
<1>1. \A c \in Callers : call[c].new # None => /\ call[c].new.grant \in Tokens!HeldGrants
                                              /\ call[c].new.grant \notin spent \cup {None}
  <2> SUFFICES ASSUME NEW c \in Callers, call[c].new # None
               PROVE  /\ call[c].new.grant \in Tokens!HeldGrants
                      /\ call[c].new.grant \notin spent \cup {None}
    OBVIOUS
  <2>1. call[c].new.grant \in valid
    BY DEF TokensInv, TokenCallInv
  <2>2. call[c].new.grant \in Tokens!HeldGrants
    BY DEF Tokens!HeldGrants
  <2> QED
    BY <2>1, <2>2 DEF TokensInv, TokensShape
<1>2. CASE \E c \in Callers : call[c].pc \in {"persist", "signIn"}
  BY <1>1, <1>2 DEF TokensInv, TokenCallInv
<1>3. CASE \A c \in Callers : call[c].pc \notin {"persist", "signIn"}
  BY <1>3 DEF Tokens!HeldGrants, TokensInv, RowCarried, RowComes
<1> QED
  BY <1>2, <1>3

-----------------------------------------------------------------------------
(* Roll targets. *)

TargetRow == [id: Nat, item: Weapons \cup {None}, wanted: BOOLEAN, perks: SUBSET Perks, importId: Nat]
RollFields == {"kind", "pc", "file", "report", "importId", "roll", "id", "status"}
RollCall(x) == x = [f \in RollFields |-> x[f]]

RollTable ==
    /\ lastId \in Nat
    /\ targets \subseteq TargetRow
    /\ \A t \in targets : t.id <= lastId
    /\ \A t, u \in targets : t.id = u.id => t = u
    /\ Rolls!TargetsCanMatch

RollTyped(c) ==
    /\ RollCall(call[c])
    /\ call[c].roll \in Rolls!Rolls
    /\ call[c].report \in Seq(Rolls!Outcomes)
    /\ call[c].importId \in Nat

\* What a call is to write can match, and is the target's or the line's it is about.
RollPlanned(c) ==
    /\ call[c].pc = "find" => call[c].kind = "update"
    /\ call[c].pc = "line" => call[c].kind = "import"
    /\ call[c].pc \in {"validate", "write"} => call[c].kind \in {"add", "update", "import"}
    /\ call[c].kind = "import" => call[c].file \in Files
    /\ call[c].pc = "write" =>
          \E m \in installed : call[c].roll.perks \subseteq Rolls!Pool(m, call[c].roll.item)
    /\ call[c].pc \in {"validate", "write"} /\ call[c].kind = "update" =>
          /\ call[c].id <= lastId /\ call[c].id \in Nat
          /\ \A t \in targets : t.id = call[c].id => t.item = call[c].roll.item
    /\ call[c].pc \in {"validate", "write"} /\ call[c].kind = "import" =>
          call[c].roll = Rolls!Line(c).roll

\* What a report tells of as saved is, or was and is gone.
RollTold(c) ==
    \A i \in DOMAIN call[c].report :
        call[c].report[i] \in {"imported", "already_saved"} =>
            call[c].file[i].roll \in Rolls!Saved \cup gone

RollCallInv(c) == RollTyped(c) /\ RollPlanned(c) /\ RollTold(c)

RollsInv ==
    /\ RollTable
    /\ call = [c \in Callers |-> call[c]]
    /\ \A c \in Callers : RollCallInv(c)

\* What a step leaves to the calls under way: manifests, what is or was saved, and
\* the weapon of a target.
RollsKept ==
    /\ installed \subseteq installed'
    /\ Rolls!Saved \cup gone \subseteq (Rolls!Saved \cup gone)'
    /\ lastId' \in Nat /\ lastId <= lastId'
    /\ \A t \in targets' : t.id <= lastId => \E u \in targets : u.id = t.id /\ u.item = t.item

\* A call that a step leaves alone still knows what it knew, if its rows are kept.
LEMMA RollsOthers ==
  ASSUME RollsInv, RollTable', RollsKept, NEW c \in Callers, call'[c] = call[c]
  PROVE  RollCallInv(c)'
<1>1. RollCallInv(c) /\ lastId \in Nat
  BY DEF RollsInv, RollTable
<1>2. RollTyped(c)' /\ RollTold(c)'
  BY <1>1 DEF RollCallInv, RollTyped, RollTold, RollsKept, Rolls!Rolls, Rolls!Outcomes
<1>3. RollPlanned(c)'
  <2>1. call[c].pc \in {"validate", "write"} /\ call[c].kind = "update" =>
          /\ call[c].id <= lastId' /\ call[c].id \in Nat
          /\ \A t \in targets' : t.id = call[c].id => t.item = call[c].roll.item
    BY <1>1 DEF RollCallInv, RollPlanned, RollsKept
  <2> QED
    BY <1>1, <2>1 DEF RollCallInv, RollPlanned, RollsKept, Rolls!Pool, Rolls!Names, Rolls!Line
<1> QED
  BY <1>2, <1>3 DEF RollCallInv

\* A step of one caller.
LEMMA RollsStep ==
  ASSUME RollsInv, NEW c \in Callers, NEW next, call' = [call EXCEPT ![c] = next],
         RollTable', RollsKept, call'[c] = next => RollCallInv(c)'
  PROVE  RollsInv'
<1>1. \A d \in Callers : call'[d] = IF d = c THEN next ELSE call[d]
  BY DEF RollsInv
<1>2. \A d \in Callers : RollCallInv(d)'
  BY <1>1, RollsOthers
<1>3. call' = [d \in Callers |-> call'[d]]
  BY DEF RollsInv
<1> QED
  BY <1>2, <1>3 DEF RollsInv

\* Most steps leave the table alone.
LEMMA RollsSame ==
  ASSUME RollsInv, UNCHANGED <<targets, lastId, gone>>, installed \subseteq installed'
  PROVE  RollTable' /\ RollsKept
<1>1. Rolls!TargetsCanMatch'
  BY DEF RollsInv, RollTable, Rolls!TargetsCanMatch, Rolls!Pool, Rolls!Names
<1> QED
  BY <1>1 DEF RollsInv, RollTable, RollsKept, TargetRow, Rolls!Saved, Rolls!Roll

\* A row that is inserted has an id of its own, and can match.
LEMMA RollsInserted ==
  ASSUME RollsInv, NEW c \in Callers, call[c].pc = "write",
         targets' = Rolls!Inserted(c), lastId' = lastId + 1, UNCHANGED <<installed, gone>>
  PROVE  RollTable' /\ RollsKept /\ call[c].roll \in Rolls!Saved'
<1> DEFINE t == [id |-> lastId + 1, item |-> call[c].roll.item, wanted |-> call[c].roll.wanted,
                 perks |-> call[c].roll.perks, importId |-> call[c].importId]
<1>1. RollCallInv(c) /\ lastId \in Nat
  BY DEF RollsInv, RollTable
<1>2. t \in TargetRow /\ Rolls!Roll(t) = call[c].roll /\ targets' = targets \cup {t}
  BY <1>1 DEF RollCallInv, RollTyped, TargetRow, Rolls!Rolls, Rolls!Roll, Rolls!Inserted
<1>3. t.id = lastId + 1 /\ t.perks = call[c].roll.perks /\ t.item = call[c].roll.item
  OBVIOUS
<1> HIDE DEF t
<1>4. Rolls!TargetsCanMatch'
  BY <1>1, <1>2, <1>3
  DEF RollsInv, RollTable, RollCallInv, RollPlanned, Rolls!TargetsCanMatch, Rolls!Pool, Rolls!Names
<1>5. lastId' \in Nat /\ targets' \subseteq TargetRow /\ \A u \in targets' : u.id <= lastId'
  BY <1>1, <1>2, <1>3 DEF RollsInv, RollTable, TargetRow
<1>6. \A u, v \in targets' : u.id = v.id => u = v
  BY <1>1, <1>2, <1>3 DEF RollsInv, RollTable, TargetRow
<1>7. \A u \in targets' : u.id <= lastId => u \in targets
  BY <1>1, <1>2, <1>3
<1>8. call[c].roll \in Rolls!Saved' /\ Rolls!Saved \subseteq Rolls!Saved'
  BY <1>2 DEF Rolls!Saved, Rolls!Roll
<1> QED
  BY <1>1, <1>4, <1>5, <1>6, <1>7, <1>8 DEF RollTable, RollsKept, TargetRow

\* Rows that are deleted are gone.
LEMMA RollsDeleted ==
  ASSUME RollsInv, NEW doomed, doomed \subseteq targets, targets' = targets \ doomed,
         gone' = gone \cup {Rolls!Roll(t) : t \in doomed}, UNCHANGED <<lastId, installed>>
  PROVE  RollTable' /\ RollsKept
<1>1. Rolls!TargetsCanMatch'
  BY DEF RollsInv, RollTable, Rolls!TargetsCanMatch, Rolls!Pool, Rolls!Names
<1>2. Rolls!Saved \cup gone \subseteq (Rolls!Saved \cup gone)'
  BY DEF Rolls!Saved, Rolls!Roll
<1> QED
  BY <1>1, <1>2 DEF RollsInv, RollTable, RollsKept, TargetRow

\* An answer keeps the report.
LEMMA RollsAnswer ==
  ASSUME RollsInv, NEW c \in Callers, NEW status, Rolls!Answers(c, status), RollTable', RollsKept
  PROVE  RollsInv'
<1> DEFINE next == [Rolls!Idle EXCEPT !.pc = "answered", !.status = status,
                                      !.file = call[c].file, !.report = call[c].report]
<1>1. call' = [call EXCEPT ![c] = next] /\ RollCallInv(c)
  BY DEF RollsInv, Rolls!Answers, Rolls!Goes
<1>2. /\ RollCall(next) /\ next.pc = "answered" /\ next.kind = "none" /\ next.file = call[c].file
      /\ next.report = call[c].report /\ next.roll = Rolls!NoRoll /\ next.importId = 0
  BY DEF RollCall, RollFields, Rolls!Idle
<1>3. Rolls!NoRoll \in Rolls!Rolls
  BY DEF Rolls!NoRoll, Rolls!Rolls
<1> HIDE DEF next
<1>4. ASSUME call'[c] = next PROVE RollCallInv(c)'
  BY <1>1, <1>2, <1>3, <1>4
  DEF RollCallInv, RollTyped, RollPlanned, RollTold, RollsKept, Rolls!Rolls, Rolls!Outcomes
<1> QED
  BY <1>1, <1>4, RollsStep

\* A line is told of as saved only when it is.
LEMMA RollsTell ==
  ASSUME RollsInv, NEW c \in Callers, NEW outcome \in Rolls!Outcomes, Rolls!Tells(c, outcome),
         call[c].kind = "import",
         outcome \in {"imported", "already_saved"} => Rolls!Line(c).roll \in (Rolls!Saved \cup gone)',
         RollTable', RollsKept
  PROVE  RollsInv'
<1> DEFINE next == [call[c] EXCEPT !.pc = "line", !.report = Append(@, outcome)]
<1>1. call' = [call EXCEPT ![c] = next] /\ RollCallInv(c)
  BY DEF RollsInv, Rolls!Tells, Rolls!Goes
<1>2. /\ RollCall(next) /\ next.pc = "line" /\ next.kind = "import" /\ next.file = call[c].file
      /\ next.report = Append(call[c].report, outcome) /\ next.roll = call[c].roll
      /\ next.importId = call[c].importId
  BY <1>1 DEF RollCallInv, RollTyped, RollCall, RollFields
<1> HIDE DEF next
<1>3. /\ next.report \in Seq(Rolls!Outcomes)
      /\ \A i \in DOMAIN next.report :
            \/ i \in DOMAIN call[c].report /\ next.report[i] = call[c].report[i]
            \/ i = Len(call[c].report) + 1 /\ next.report[i] = outcome
  BY <1>1, <1>2 DEF RollCallInv, RollTyped
<1>4. ASSUME call'[c] = next PROVE RollCallInv(c)'
  <2>1. RollTyped(c)' /\ RollPlanned(c)'
    BY <1>1, <1>2, <1>3, <1>4 DEF RollCallInv, RollTyped, RollPlanned, Rolls!Rolls, Rolls!Outcomes
  <2>2. RollTold(c)'
    BY <1>1, <1>2, <1>3, <1>4 DEF RollCallInv, RollTold, RollsKept, Rolls!Line
  <2> QED
    BY <2>1, <2>2 DEF RollCallInv
<1> QED
  BY <1>1, <1>4, RollsStep

\* A request begins with nothing told.
LEMMA RollsBegin ==
  ASSUME RollsInv, NEW c \in Callers, NEW next, Rolls!Begins(c, next),
         RollCall(next), next.roll \in Rolls!Rolls, next.report = << >>, next.importId \in Nat,
         \/ next.kind = "update" /\ next.pc = "find"
         \/ next.kind = "add" /\ next.pc = "validate"
         \/ next.kind = "import" /\ next.pc = "line" /\ next.file \in Files
  PROVE  RollsInv'
<1>1. /\ call' = [call EXCEPT ![c] = next]
      /\ UNCHANGED <<targets, lastId, gone, installed>>
  BY DEF Rolls!Begins, Rolls!Goes
<1>2. RollTable' /\ RollsKept
  BY <1>1, RollsSame
<1>3. ASSUME call'[c] = next PROVE RollCallInv(c)'
  <2>1. RollTyped(c)'
    <3>1. << >> \in Seq(Rolls!Outcomes)
      OBVIOUS
    <3> QED
      BY <1>3, <3>1 DEF RollTyped, Rolls!Rolls, Rolls!Outcomes
  <2>2. RollPlanned(c)'
    BY <1>3 DEF RollPlanned
  <2>3. RollTold(c)'
    BY <1>3 DEF RollTold
  <2> QED
    BY <2>1, <2>2, <2>3 DEF RollCallInv
<1> QED
  BY <1>1, <1>2, <1>3, RollsStep

\* Every step of the roll targets keeps their invariant.
LEMMA RollsNext ==
  ASSUME RollsInv, Rolls!Next
  PROVE  RollsInv'
<1> USE NoneAssumption, InputAssumption
<1>1. ASSUME NEW c \in Callers
      PROVE  RollCallInv(c) /\ RollCall(call[c])
  BY DEF RollsInv, RollCallInv, RollTyped
<1>2. RollCall(Rolls!Idle) /\ Rolls!Idle.roll = Rolls!NoRoll /\ Rolls!NoRoll \in Rolls!Rolls
  BY DEF RollCall, RollFields, Rolls!Idle, Rolls!NoRoll, Rolls!Rolls
<1>3. ASSUME NEW c \in Callers, NEW roll \in OfferedRolls, Rolls!Add(c, roll)
      PROVE  RollsInv'
  <2> DEFINE next == [Rolls!Idle EXCEPT !.kind = "add", !.pc = "validate", !.roll = roll]
  <2>1. Rolls!Begins(c, next)
    BY <1>3 DEF Rolls!Add
  <2>2. /\ RollCall(next) /\ next.kind = "add" /\ next.pc = "validate" /\ next.roll = roll
        /\ next.report = << >> /\ next.importId = 0
    BY DEF RollCall, RollFields, Rolls!Idle
  <2> HIDE DEF next
  <2> QED
    BY <2>1, <2>2, RollsBegin
<1>4. ASSUME NEW c \in Callers, NEW id \in Rolls!Ids, NEW perks \in Edits, Rolls!Update(c, id, perks)
      PROVE  RollsInv'
  <2> DEFINE next == [Rolls!Idle EXCEPT !.kind = "update", !.pc = "find", !.id = id, !.roll.perks = perks]
  <2>1. Rolls!Begins(c, next)
    BY <1>4 DEF Rolls!Update
  <2>2. /\ RollCall(next) /\ next.kind = "update" /\ next.pc = "find"
        /\ next.roll = [Rolls!NoRoll EXCEPT !.perks = perks]
        /\ next.report = << >> /\ next.importId = 0
    BY DEF RollCall, RollFields, Rolls!Idle
  <2> HIDE DEF next
  <2>3. next.roll \in Rolls!Rolls
    BY <1>2, <2>2 DEF Rolls!Rolls
  <2> QED
    BY <2>1, <2>2, <2>3, RollsBegin
<1>5. ASSUME NEW c \in Callers, NEW file \in Files, Rolls!ImportDIM(c, file)
      PROVE  RollsInv'
  <2> DEFINE next == [Rolls!Idle EXCEPT !.kind = "import", !.pc = "line", !.file = file,
                                        !.importId = lastId + 1]
  <2>1. Rolls!Begins(c, next)
    BY <1>5 DEF Rolls!ImportDIM
  <2>2. /\ RollCall(next) /\ next.kind = "import" /\ next.pc = "line" /\ next.file = file
        /\ next.report = << >> /\ next.importId = lastId + 1 /\ next.roll = Rolls!NoRoll
    BY DEF RollCall, RollFields, Rolls!Idle
  <2> HIDE DEF next
  <2>3. next.importId \in Nat
    BY <2>2 DEF RollsInv, RollTable
  <2> QED
    BY <1>2, <2>1, <2>2, <2>3, RollsBegin
\* A line: one of the file's, of one of the four kinds.
<1>6. ASSUME NEW c \in Callers, Rolls!AtLine(c)
      PROVE  /\ call[c].kind = "import"
             /\ Rolls!Line(c).kind \in {"roll", "comment", "unsupported", "malformed"}
             /\ Rolls!Line(c).roll \in Rolls!Rolls
  <2> DEFINE Lines == [kind: {"roll", "comment", "unsupported", "malformed"}, roll: Rolls!Rolls]
  <2>1. /\ call[c].kind = "import" /\ call[c].report \in Seq(Rolls!Outcomes)
        /\ call[c].file \in Seq(Lines)
        /\ Len(call[c].report) < Len(call[c].file)
    BY <1>1, <1>6 DEF RollCallInv, RollPlanned, RollTyped, Rolls!AtLine
  <2> HIDE DEF Lines
  <2>2. call[c].file[Len(call[c].report) + 1] \in Lines
    BY <2>1
  <2> QED
    BY <2>1, <2>2 DEF Rolls!Line, Lines
<1>7. ASSUME NEW c \in Callers, Rolls!SkipLine(c)
      PROVE  RollsInv'
  <2>1. \E outcome \in {"skipped", "unsupported", "malformed"} : Rolls!Tells(c, outcome)
    BY <1>6, <1>7 DEF Rolls!SkipLine
  <2>2. RollTable' /\ RollsKept
    BY <1>7, RollsSame DEF Rolls!SkipLine
  <2> QED
    BY <1>6, <1>7, <2>1, <2>2, RollsTell DEF Rolls!SkipLine, Rolls!Outcomes
<1>8. ASSUME NEW c \in Callers, Rolls!ResolveLine(c)
      PROVE  RollsInv'
  <2> DEFINE next == [call[c] EXCEPT !.pc = "validate", !.roll = Rolls!Line(c).roll]
  <2>1. RollTable' /\ RollsKept
    BY <1>8, RollsSame DEF Rolls!ResolveLine
  <2>2. ASSUME NEW outcome \in {"unknown_weapon", "unresolved_perk"}, Rolls!Tells(c, outcome)
        PROVE  RollsInv'
    BY <1>6, <1>8, <2>1, <2>2, RollsTell DEF Rolls!ResolveLine, Rolls!Outcomes
  <2>3. CASE call' = [call EXCEPT ![c] = next]
    <3>1. /\ RollCall(next) /\ next.pc = "validate" /\ next.roll = Rolls!Line(c).roll
          /\ next.kind = call[c].kind /\ next.file = call[c].file /\ next.report = call[c].report
          /\ next.importId = call[c].importId
      BY <1>1 DEF RollCall, RollFields
    <3> HIDE DEF next
    <3>2. ASSUME call'[c] = next PROVE RollCallInv(c)'
      BY <1>1, <1>6, <1>8, <2>1, <3>1, <3>2
      DEF RollCallInv, RollTyped, RollPlanned, RollTold, RollsKept, Rolls!Rolls, Rolls!Outcomes,
          Rolls!Line, Rolls!ResolveLine
    <3> QED
      BY <2>1, <2>3, <3>2, RollsStep
  <2> QED
    BY <1>8, <2>2, <2>3 DEF Rolls!ResolveLine, Rolls!Resolution, Rolls!Goes
<1>9. ASSUME NEW c \in Callers, NEW status, Rolls!Answers(c, status),
             UNCHANGED <<targets, lastId, gone, installed>>
      PROVE  RollsInv'
  BY <1>9, RollsSame, RollsAnswer
<1>10. ASSUME NEW c \in Callers, Rolls!Find(c)
       PROVE  RollsInv'
  <2>1. UNCHANGED <<targets, lastId, gone, installed>> /\ call[c].pc = "find"
    BY <1>10 DEF Rolls!Find
  <2>2. ASSUME NEW t \in targets, t.id = call[c].id,
               call' = [call EXCEPT ![c] = [call[c] EXCEPT !.pc = "validate", !.roll.item = t.item]]
        PROVE  RollsInv'
    <3> DEFINE next == [call[c] EXCEPT !.pc = "validate", !.roll.item = t.item]
    <3>1. /\ RollCall(next) /\ next.pc = "validate" /\ next.roll = [call[c].roll EXCEPT !.item = t.item]
          /\ next.kind = call[c].kind /\ next.file = call[c].file /\ next.report = call[c].report
          /\ next.importId = call[c].importId /\ next.id = call[c].id
      <4> PICK old, item : old = call[c] /\ item = t.item
        OBVIOUS
      <4>1. RollCall(old)
        BY <1>1
      <4>2. next = [old EXCEPT !.pc = "validate", !.roll.item = item]
        OBVIOUS
      <4> HIDE DEF next
      <4> QED
        BY <4>1, <4>2 DEF RollCall, RollFields
    <3>2. call' = [call EXCEPT ![c] = next]
      BY <2>2
    <3> HIDE DEF next
    <3>3. t \in TargetRow /\ t.id <= lastId /\ \A u \in targets : u.id = t.id => u = t
      BY DEF RollsInv, RollTable
    <3>4. call[c].roll \in Rolls!Rolls
      BY <1>1 DEF RollCallInv, RollTyped
    <3>5. next.roll \in Rolls!Rolls /\ next.roll.item = t.item
      BY <3>1, <3>3, <3>4 DEF Rolls!Rolls, TargetRow
    <3>6. RollTable' /\ RollsKept
      BY <2>1, RollsSame
    <3>7. ASSUME call'[c] = next PROVE RollCallInv(c)'
      <4>1. RollTyped(c)'
        BY <1>1, <3>1, <3>5, <3>7 DEF RollCallInv, RollTyped, Rolls!Rolls, Rolls!Outcomes
      <4>2. RollPlanned(c)'
        BY <1>1, <2>1, <2>2, <3>1, <3>3, <3>5, <3>7 DEF RollCallInv, RollPlanned, TargetRow
      <4>3. RollTold(c)'
        BY <1>1, <3>1, <3>6, <3>7 DEF RollCallInv, RollTold, RollsKept
      <4> QED
        BY <4>1, <4>2, <4>3 DEF RollCallInv
    <3> QED
      BY <3>2, <3>6, <3>7, RollsStep
  <2> QED
    BY <1>9, <1>10, <2>1, <2>2 DEF Rolls!Find, Rolls!Refused, Rolls!Goes
<1>11. ASSUME NEW c \in Callers, Rolls!Validate(c)
       PROVE  RollsInv'
  <2>1. UNCHANGED <<targets, lastId, gone, installed>> /\ call[c].pc = "validate"
    BY <1>11 DEF Rolls!Validate
  <2>2. RollTable' /\ RollsKept
    BY <2>1, RollsSame
  <2>3. ASSUME NEW m \in installed,
               Rolls!Verdict(m, call[c].roll.item, call[c].roll.perks) = "nil", Rolls!GoesTo(c, "write")
        PROVE  RollsInv'
    <3> DEFINE next == [call[c] EXCEPT !.pc = "write"]
    <3>1. /\ RollCall(next) /\ next.pc = "write" /\ next.roll = call[c].roll
          /\ next.kind = call[c].kind /\ next.file = call[c].file /\ next.report = call[c].report
          /\ next.importId = call[c].importId /\ next.id = call[c].id
      BY <1>1 DEF RollCall, RollFields
    <3>2. call' = [call EXCEPT ![c] = next]
      BY <2>3 DEF Rolls!GoesTo, Rolls!Goes
    <3> HIDE DEF next
    <3>3. call[c].roll.perks \subseteq Rolls!Pool(m, call[c].roll.item)
      BY <2>3 DEF Rolls!Verdict
    <3>4. ASSUME call'[c] = next PROVE RollCallInv(c)'
      <4>1. RollTyped(c)'
        BY <1>1, <3>1, <3>4 DEF RollCallInv, RollTyped, Rolls!Rolls, Rolls!Outcomes
      <4>2. RollPlanned(c)'
        <5>1. \E n \in installed' : next.roll.perks \subseteq Rolls!Pool(n, next.roll.item)
          BY <2>1, <3>1, <3>3
        <5>2. next.kind = "import" => next.roll = call'[c].file[Len(call'[c].report) + 1].roll
          BY <1>1, <2>1, <3>1, <3>4 DEF RollCallInv, RollPlanned, Rolls!Line
        <5> QED
          BY <1>1, <2>1, <3>1, <3>4, <5>1, <5>2
          DEF RollCallInv, RollPlanned, Rolls!Line, Rolls!Pool, Rolls!Names
      <4>3. RollTold(c)'
        BY <1>1, <2>2, <3>1, <3>4 DEF RollCallInv, RollTold, RollsKept
      <4> QED
        BY <4>1, <4>2, <4>3 DEF RollCallInv
    <3> QED
      BY <2>2, <3>2, <3>4, RollsStep
  <2>4. ASSUME call[c].kind = "import", NEW outcome \in {"unresolved_perk", "failed"},
               Rolls!Tells(c, outcome)
        PROVE  RollsInv'
    BY <2>2, <2>4, RollsTell DEF Rolls!Outcomes
  <2> QED
    BY <1>9, <1>11, <2>1, <2>3, <2>4 DEF Rolls!Validate, Rolls!Refused
<1>12. ASSUME NEW c \in Callers, Rolls!ReadFails(c) \/ Rolls!Report(c)
       PROVE  RollsInv'
  BY <1>9, <1>12 DEF Rolls!ReadFails, Rolls!Report, Rolls!Refused
<1>13. ASSUME NEW c \in Callers, Rolls!Insert(c)
       PROVE  RollsInv'
  <2>1. /\ call[c].pc = "write" /\ UNCHANGED <<installed, gone>>
        /\ call[c].kind = "import" => call[c].roll = Rolls!Line(c).roll
    BY <1>1, <1>13 DEF Rolls!Insert, RollCallInv, RollPlanned
  <2>2. CASE Rolls!Taken(call[c].roll, targets)
    <3>1. UNCHANGED <<targets, lastId, gone, installed>>
      BY <1>13, <2>1, <2>2 DEF Rolls!Insert
    <3>2. RollTable' /\ RollsKept
      BY <3>1, RollsSame
    <3>3. call[c].roll \in Rolls!Saved
      BY <2>2 DEF Rolls!Taken, Rolls!SameTarget, Rolls!Saved
    <3>4. CASE Rolls!Tells(c, "already_saved") /\ call[c].kind = "import"
      BY <2>1, <3>2, <3>3, <3>4, RollsTell DEF RollsKept, Rolls!Outcomes
    <3> QED
      BY <1>1, <1>9, <1>13, <2>1, <2>2, <3>1, <3>4
      DEF Rolls!Insert, Rolls!Refused, RollCallInv, RollPlanned
  <2>3. CASE ~Rolls!Taken(call[c].roll, targets)
    <3>1. targets' = Rolls!Inserted(c) /\ lastId' = lastId + 1
      BY <1>13, <2>3 DEF Rolls!Insert
    <3>2. RollTable' /\ RollsKept /\ call[c].roll \in Rolls!Saved'
      BY <2>1, <3>1, RollsInserted
    <3>3. CASE Rolls!Tells(c, "imported") /\ call[c].kind = "import"
      BY <2>1, <3>2, <3>3, RollsTell DEF Rolls!Outcomes
    <3>4. CASE Rolls!Answers(c, 201)
      BY <3>2, <3>4, RollsAnswer
    <3> QED
      BY <1>1, <1>13, <2>1, <2>3, <3>3, <3>4 DEF Rolls!Insert, RollCallInv, RollPlanned
  <2> QED
    BY <2>2, <2>3
<1>14. ASSUME NEW c \in Callers, Rolls!Rewrite(c)
       PROVE  RollsInv'
  <2>1. /\ call[c].pc = "write" /\ call[c].kind = "update" /\ UNCHANGED <<lastId, installed>>
        /\ RollTyped(c) /\ RollPlanned(c)
    BY <1>1, <1>14 DEF Rolls!Rewrite, RollCallInv
  <2>2. ASSUME NEW status, Rolls!Answers(c, status), UNCHANGED <<targets, gone>>
        PROVE  RollsInv'
    BY <1>9, <2>1, <2>2
  <2>3. ASSUME NEW t \in targets, t.id = call[c].id,
               targets' = (targets \ {t}) \cup {[t EXCEPT !.perks = call[c].roll.perks]},
               gone' = gone \cup ({Rolls!Roll(t)} \ {Rolls!Roll([t EXCEPT !.perks = call[c].roll.perks])}),
               Rolls!Answers(c, 200)
        PROVE  RollsInv'
    <3> DEFINE edited == [t EXCEPT !.perks = call[c].roll.perks]
    <3>1. t \in TargetRow /\ call[c].roll.perks \in SUBSET Perks
      BY <2>1 DEF RollsInv, RollTable, RollTyped, Rolls!Rolls
    <3>2. /\ edited \in TargetRow /\ edited.id = t.id /\ edited.item = t.item
          /\ edited.perks = call[c].roll.perks
      BY <3>1 DEF TargetRow
    <3>3. /\ targets' = (targets \ {t}) \cup {edited}
          /\ gone' = gone \cup ({Rolls!Roll(t)} \ {Rolls!Roll(edited)})
      BY <2>3
    <3> HIDE DEF edited
    <3>4. Rolls!TargetsCanMatch'
      BY <2>1, <2>3, <3>2, <3>3
      DEF RollsInv, RollTable, RollPlanned, Rolls!TargetsCanMatch, Rolls!Pool, Rolls!Names
    <3>5. Rolls!Saved \cup gone \subseteq (Rolls!Saved \cup gone)'
      BY <3>3 DEF Rolls!Saved, Rolls!Roll
    <3>6. \A u \in targets' : \E v \in targets : u.id = v.id /\ u.item = v.item
      BY <3>2, <3>3
    <3>7. \A u, v \in targets' : u.id = v.id => u = v
      BY <3>2, <3>3 DEF RollsInv, RollTable
    <3>8. RollTable' /\ RollsKept
      BY <2>1, <3>2, <3>3, <3>4, <3>5, <3>6, <3>7 DEF RollsInv, RollTable, RollsKept, TargetRow
    <3> QED
      BY <2>3, <3>8, RollsAnswer
  <2> QED
    BY <1>14, <2>2, <2>3 DEF Rolls!Rewrite, Rolls!Refused
<1>15. ASSUME NEW c \in Callers, Rolls!WriteFails(c)
       PROVE  RollsInv'
  <2>1. /\ call[c].pc = "write" /\ UNCHANGED <<installed, gone>>
        /\ \/ call[c].kind = "import" /\ Rolls!Tells(c, "failed")
           \/ \E status : Rolls!Answers(c, status)
    BY <1>15 DEF Rolls!WriteFails, Rolls!Refused
  <2>2. RollTable' /\ RollsKept
    BY <1>15, <2>1, RollsSame, RollsInserted DEF Rolls!WriteFails
  <2> QED
    BY <2>1, <2>2, RollsTell, RollsAnswer DEF Rolls!Outcomes
<1>16. ASSUME NEW c \in Callers, NEW doomed, doomed \subseteq targets, NEW status,
              Rolls!Deletes(c, doomed, status)
       PROVE  RollsInv'
  <2> DEFINE next == [Rolls!Idle EXCEPT !.pc = "answered", !.status = status]
  <2>1. call' = [call EXCEPT ![c] = next]
    BY <1>16 DEF Rolls!Deletes, Rolls!Goes
  <2>2. /\ RollCall(next) /\ next.pc = "answered" /\ next.kind = "none" /\ next.report = << >>
        /\ next.roll = Rolls!NoRoll /\ next.importId = 0
    BY DEF RollCall, RollFields, Rolls!Idle
  <2> HIDE DEF next
  <2>3. RollTable' /\ RollsKept
    BY <1>16, RollsDeleted DEF Rolls!Deletes
  <2>4. ASSUME call'[c] = next PROVE RollCallInv(c)'
    <3>1. << >> \in Seq(Rolls!Outcomes)
      OBVIOUS
    <3>2. RollTyped(c)'
      <4>1. call'[c].report \in Seq(Rolls!Outcomes)
        BY <2>2, <2>4, <3>1
      <4>2. call'[c].roll \in Rolls!Rolls /\ call'[c].importId \in Nat /\ RollCall(call'[c])
        BY <1>2, <2>2, <2>4
      <4> QED
        BY <4>1, <4>2 DEF RollTyped, RollCall, RollFields, Rolls!Rolls, Rolls!Outcomes
    <3>3. RollPlanned(c)'
      BY <2>2, <2>4 DEF RollPlanned
    <3>4. RollTold(c)'
      BY <2>2, <2>4 DEF RollTold
    <3> QED
      BY <3>2, <3>3, <3>4 DEF RollCallInv
  <2> QED
    BY <2>1, <2>3, <2>4, RollsStep
<1>17. ASSUME NEW c \in Callers,
              \/ \E id \in Rolls!Ids : Rolls!Remove(c, id) \/ Rolls!RemoveImport(c, id)
              \/ \E ids \in SUBSET Rolls!Ids : Rolls!RemoveMany(c, ids)
              \/ Rolls!RemoveAll(c)
       PROVE  RollsInv'
  <2>1. \E doomed, status : doomed \subseteq targets /\ Rolls!Deletes(c, doomed, status)
    <3>1. CASE \E id \in Rolls!Ids : Rolls!Remove(c, id)
      BY <3>1 DEF Rolls!Remove
    <3>2. CASE \E id \in Rolls!Ids : Rolls!RemoveImport(c, id)
      BY <3>2 DEF Rolls!RemoveImport
    <3>3. CASE \E ids \in SUBSET Rolls!Ids : Rolls!RemoveMany(c, ids)
      <4>1. PICK ids \in SUBSET Rolls!Ids : Rolls!RemoveMany(c, ids)
        BY <3>3
      <4> DEFINE doomed == IF Rolls!ValidBulk(ids) THEN {t \in targets : t.id \in ids} ELSE {}
                 status == IF Rolls!ValidBulk(ids) THEN 200 ELSE 400
      <4>2. Rolls!Deletes(c, doomed, status) /\ doomed \subseteq targets
        BY <4>1 DEF Rolls!RemoveMany
      <4> HIDE DEF doomed, status
      <4> QED
        BY <4>2
    <3>4. CASE Rolls!RemoveAll(c)
      BY <3>4 DEF Rolls!RemoveAll
    <3> QED
      BY <1>17, <3>1, <3>2, <3>3, <3>4
  <2> QED
    BY <1>16, <2>1
<1>18. ASSUME NEW m, Rolls!Swap(m)
       PROVE  RollsInv'
  <2>1. UNCHANGED <<targets, lastId, gone, call>> /\ installed \subseteq installed'
    BY <1>18 DEF Rolls!Swap
  <2>2. RollTable' /\ RollsKept
    BY <2>1, RollsSame
  <2> QED
    BY <2>1, <2>2, RollsOthers DEF RollsInv
<1> QED
  BY <1>3, <1>4, <1>5, <1>7, <1>8, <1>10, <1>11, <1>12, <1>13, <1>14, <1>15, <1>17, <1>18
  DEF Rolls!Next

\* No roll target is saved.
LEMMA RollsInit == Rolls!Init => RollsInv
<1> SUFFICES ASSUME Rolls!Init PROVE RollsInv
  OBVIOUS
<1>1. /\ RollCall(Rolls!Idle) /\ Rolls!Idle.pc = "idle" /\ Rolls!Idle.kind = "none"
      /\ Rolls!Idle.report = << >> /\ Rolls!Idle.roll = Rolls!NoRoll /\ Rolls!Idle.importId = 0
      /\ Rolls!NoRoll \in Rolls!Rolls
  BY DEF RollCall, RollFields, Rolls!Idle, Rolls!NoRoll, Rolls!Rolls
<1>2. RollTable
  BY DEF Rolls!Init, RollTable, Rolls!TargetsCanMatch
<1>3. << >> \in Seq(Rolls!Outcomes)
  OBVIOUS
<1>4. ASSUME NEW c \in Callers PROVE RollCallInv(c)
  <2>1. call[c] = Rolls!Idle
    BY DEF Rolls!Init
  <2>2. RollTyped(c)
    <3>1. call[c].report \in Seq(Rolls!Outcomes)
      BY <1>1, <1>3, <2>1
    <3>2. call[c].roll \in Rolls!Rolls /\ call[c].importId \in Nat
      BY <1>1, <2>1
    <3> QED
      BY <1>1, <2>1, <3>1, <3>2 DEF RollTyped
  <2>3. RollPlanned(c)
    BY <1>1, <2>1 DEF RollPlanned
  <2>4. RollTold(c)
    BY <1>1, <2>1 DEF RollTold
  <2> QED
    BY <2>2, <2>3, <2>4 DEF RollCallInv
<1> QED
  BY <1>2, <1>4 DEF Rolls!Init, RollsInv

-----------------------------------------------------------------------------
(* The wish list. *)

WishFields == {"pc", "kind", "item", "priority", "notes", "ids", "patch", "state", "read", "status",
               "list"}
WishCall(x) == x = [f \in WishFields |-> x[f]]
Refusals == {400, 404, 409, 503}

\* A request has written nothing until it is answered, nor when it is refused.
Unwritten(x) ==
    \/ x.pc \in {"find", "lookup", "validate", "write"}
    \/ x.pc = "answered" /\ x.status \in Refusals
WishUnwritten(c) == Unwritten(call[c]) => ~wrote[c]

WishesInv ==
    /\ call = [c \in Callers |-> call[c]]
    /\ wrote = [c \in Callers |-> wrote[c]]
    /\ \A c \in Callers : WishCall(call[c]) /\ WishUnwritten(c)

\* A step of one caller.
LEMMA WishesStep ==
  ASSUME WishesInv, NEW c \in Callers, NEW next, call' = [call EXCEPT ![c] = next],
         WishCall(next), NEW w, wrote' = wrote \/ wrote' = [wrote EXCEPT ![c] = w],
         Unwritten(next) => ~wrote'[c]
  PROVE  WishesInv'
<1>1. \A d \in Callers : call'[d] = IF d = c THEN next ELSE call[d]
  BY DEF WishesInv
<1>2. \A d \in Callers \ {c} : wrote'[d] = wrote[d]
  BY DEF WishesInv
<1>3. \A d \in Callers : WishCall(call'[d]) /\ WishUnwritten(d)'
  BY <1>1, <1>2 DEF WishesInv, WishUnwritten, Unwritten, Refusals
<1>4. /\ call' = [d \in Callers |-> call'[d]]
      /\ wrote' = [d \in Callers |-> wrote'[d]]
  BY DEF WishesInv
<1> QED
  BY <1>3, <1>4 DEF WishesInv, WishCall, WishFields

\* An answer.
LEMMA WishesAnswer ==
  ASSUME WishesInv, NEW c \in Callers, NEW status, Wishes!Answers(c, status),
         NEW w, wrote' = wrote \/ wrote' = [wrote EXCEPT ![c] = w],
         status \in Refusals => ~wrote'[c]
  PROVE  WishesInv'
<1> DEFINE next == [Wishes!Answered(c) EXCEPT !.status = status]
<1>1. call' = [call EXCEPT ![c] = next]
  BY DEF Wishes!Answers, Wishes!Goes
<1>2. WishCall(next) /\ next.pc = "answered" /\ next.status = status
  BY DEF Wishes!Answered, Wishes!Idle, WishCall, WishFields
<1> HIDE DEF next
<1> QED
  BY <1>1, <1>2, WishesStep DEF Unwritten

\* A request refused by its shape.
LEMMA WishRefused ==
  ASSUME NEW kind, NEW status
  PROVE  WishCall([Wishes!Idle EXCEPT !.pc = "answered", !.kind = kind, !.status = status])
BY DEF Wishes!Idle, WishCall, WishFields

\* A request begins.
LEMMA WishesBegin ==
  ASSUME WishesInv, NEW c \in Callers, NEW accepted, NEW next, Wishes!Begins(c, accepted, next), WishCall(next)
  PROVE  WishesInv'
<1> DEFINE refused == [Wishes!Idle EXCEPT !.pc = "answered", !.kind = next.kind, !.status = 400]
<1>1. WishCall(refused)
  BY WishRefused
<1> HIDE DEF refused
<1>2. call' = [call EXCEPT ![c] = IF accepted THEN next ELSE refused]
  BY DEF Wishes!Begins, Wishes!Goes, refused
<1>3. wrote' = [wrote EXCEPT ![c] = FALSE] /\ wrote'[c] = FALSE
  BY DEF Wishes!Begins, WishesInv
<1> QED
  BY <1>1, <1>2, <1>3, WishesStep

\* Every step of the wish list keeps its invariant.
LEMMA WishesNext ==
  ASSUME WishesInv, Wishes!Next
  PROVE  WishesInv'
<1>1. ASSUME NEW c \in Callers PROVE WishCall(call[c]) /\ WishUnwritten(c)
  BY DEF WishesInv
<1>2. ASSUME NEW c \in Callers,
             \/ Wishes!List(c)
             \/ \E cmd \in WishCommands : Wishes!Add(c, cmd)
             \/ \E id \in Wishes!Ids, patch \in WishPatches : Wishes!Update(c, id, patch)
             \/ \E id \in Wishes!Ids : Wishes!RemoveFromWishlist(c, id)
             \/ \E ids \in SUBSET Wishes!Ids : Wishes!DeleteMany(c, ids) \/ Wishes!SetPriorityMany(c, ids, 3)
      PROVE  WishesInv'
  <2>1. CASE Wishes!List(c)
    <3> DEFINE next == [Wishes!Idle EXCEPT !.pc = "find", !.kind = "list"]
    <3>1. WishCall(next)
      BY DEF Wishes!Idle, WishCall, WishFields
    <3>2. Wishes!Begins(c, TRUE, next)
      BY <2>1 DEF Wishes!List
    <3> HIDE DEF next
    <3> QED
      BY <3>1, <3>2, WishesBegin
  <2>2. ASSUME NEW cmd \in WishCommands, Wishes!Add(c, cmd)
        PROVE  WishesInv'
    <3> DEFINE filled == [cmd EXCEPT !.priority = IF @ = None THEN Wishes!PriorityMedium ELSE @]
    <3> HIDE DEF filled
    <3> DEFINE next == [Wishes!Idle EXCEPT !.pc = "lookup", !.kind = "add", !.item = cmd.item,
                                           !.priority = filled.priority, !.notes = cmd.notes]
    <3>1. WishCall(next)
      BY DEF Wishes!Idle, WishCall, WishFields
    <3>2. Wishes!Begins(c, Wishes!Valid(filled), next)
      BY <2>2 DEF Wishes!Add, filled
    <3> HIDE DEF next
    <3> QED
      BY <3>1, <3>2, WishesBegin
  <2>3. ASSUME NEW id \in Wishes!Ids, NEW patch \in WishPatches, Wishes!Update(c, id, patch)
        PROVE  WishesInv'
    <3> DEFINE next == [Wishes!Idle EXCEPT !.pc = "find", !.kind = "update", !.ids = {id},
                                           !.patch = patch]
    <3>1. WishCall(next)
      BY DEF Wishes!Idle, WishCall, WishFields
    <3>2. Wishes!Begins(c, TRUE, next)
      BY <2>3 DEF Wishes!Update
    <3> HIDE DEF next
    <3> QED
      BY <3>1, <3>2, WishesBegin
  <2>4. ASSUME NEW id \in Wishes!Ids, Wishes!RemoveFromWishlist(c, id)
        PROVE  WishesInv'
    <3> DEFINE next == [Wishes!Idle EXCEPT !.pc = "write", !.kind = "remove", !.ids = {id}]
    <3>1. WishCall(next)
      BY DEF Wishes!Idle, WishCall, WishFields
    <3>2. Wishes!Begins(c, TRUE, next)
      BY <2>4 DEF Wishes!RemoveFromWishlist
    <3> HIDE DEF next
    <3> QED
      BY <3>1, <3>2, WishesBegin
  <2>5. ASSUME NEW ids \in SUBSET Wishes!Ids, Wishes!DeleteMany(c, ids)
        PROVE  WishesInv'
    <3> DEFINE next == [Wishes!Idle EXCEPT !.pc = "write", !.kind = "deleteMany", !.ids = ids]
    <3>1. WishCall(next)
      BY DEF Wishes!Idle, WishCall, WishFields
    <3>2. \E accepted : Wishes!Begins(c, accepted, next)
      BY <2>5 DEF Wishes!DeleteMany
    <3> HIDE DEF next
    <3> QED
      BY <3>1, <3>2, WishesBegin
  <2>6. ASSUME NEW ids \in SUBSET Wishes!Ids, Wishes!SetPriorityMany(c, ids, 3)
        PROVE  WishesInv'
    <3> DEFINE next == [Wishes!Idle EXCEPT !.pc = "write", !.kind = "setPriorityMany",
                                           !.ids = ids, !.patch = [priority |-> 3]]
    <3>1. WishCall(next)
      BY DEF Wishes!Idle, WishCall, WishFields
    <3>2. \E accepted : Wishes!Begins(c, accepted, next)
      BY <2>6 DEF Wishes!SetPriorityMany
    <3> HIDE DEF next
    <3> QED
      BY <3>1, <3>2, WishesBegin
  <2> QED
    BY <1>2, <2>1, <2>2, <2>3, <2>4, <2>5, <2>6
\* A call under way that goes on, or is answered, before its write.
<1>3. ASSUME NEW c \in Callers, NEW next, call' = [call EXCEPT ![c] = next], WishCall(next),
             call[c].pc \in {"find", "lookup", "validate"}, UNCHANGED wrote
      PROVE  WishesInv'
  BY <1>1, <1>3, WishesStep DEF WishUnwritten, Unwritten
<1>4. ASSUME NEW c \in Callers, NEW status, Wishes!Answers(c, status), UNCHANGED wrote,
             call[c].pc \in {"find", "lookup", "validate", "write"}
      PROVE  WishesInv'
  BY <1>1, <1>4, WishesAnswer DEF WishUnwritten, Unwritten
<1>5. ASSUME NEW c \in Callers, Wishes!ReadRows(c)
      PROVE  WishesInv'
  <2>1. call[c].pc = "find" /\ UNCHANGED wrote
    BY <1>5 DEF Wishes!ReadRows
  <2>2. ASSUME NEW rows, call' = [call EXCEPT ![c] = [call[c] EXCEPT !.pc = "lookup", !.read = rows]]
        PROVE  WishesInv'
    <3>1. WishCall([call[c] EXCEPT !.pc = "lookup", !.read = rows])
      BY <1>1 DEF WishCall, WishFields
    <3> QED
      BY <1>3, <2>1, <2>2, <3>1
  <2> QED
    BY <1>4, <1>5, <2>1, <2>2 DEF Wishes!ReadRows, Wishes!Refused, Wishes!Goes
<1>6. ASSUME NEW c \in Callers, Wishes!Lookup(c)
      PROVE  WishesInv'
  <2>1. call[c].pc = "lookup" /\ UNCHANGED wrote
    BY <1>6 DEF Wishes!Lookup
  <2>2. ASSUME NEW list, call' = [call EXCEPT ![c] = [Wishes!Answered(c) EXCEPT !.status = 200, !.list = list]]
        PROVE  WishesInv'
    <3>1. WishCall([Wishes!Answered(c) EXCEPT !.status = 200, !.list = list])
      BY DEF Wishes!Answered, Wishes!Idle, WishCall, WishFields
    <3> QED
      BY <1>3, <2>1, <2>2, <3>1
  <2>3. ASSUME NEW pc, NEW state, call' = [call EXCEPT ![c] = [call[c] EXCEPT !.pc = pc, !.state = state]]
        PROVE  WishesInv'
    <3>1. WishCall([call[c] EXCEPT !.pc = pc, !.state = state])
      BY <1>1 DEF WishCall, WishFields
    <3> QED
      BY <1>3, <2>1, <2>3, <3>1
  <2> QED
    BY <1>4, <1>6, <2>1, <2>2, <2>3 DEF Wishes!Lookup, Wishes!Refused, Wishes!Goes
<1>7. ASSUME NEW c \in Callers, Wishes!LookupFails(c)
      PROVE  WishesInv'
  BY <1>4, <1>7 DEF Wishes!LookupFails, Wishes!Refused
<1>8. ASSUME NEW c \in Callers, Wishes!Validate(c)
      PROVE  WishesInv'
  <2>1. WishCall([call[c] EXCEPT !.pc = "write"])
    BY <1>1 DEF WishCall, WishFields
  <2> QED
    BY <1>3, <1>4, <1>8, <2>1 DEF Wishes!Validate, Wishes!Refused, Wishes!Goes
<1>9. ASSUME NEW c \in Callers, Wishes!Write(c)
      PROVE  WishesInv'
  <2>1. CASE \E status : Wishes!Answers(c, status) /\ UNCHANGED wrote
    BY <1>4, <1>9, <2>1 DEF Wishes!Write
  <2>2. CASE Wishes!Writes(c) /\ Wishes!Answers(c, Wishes!Success(call[c].kind))
    <3>1. Wishes!Success(call[c].kind) \notin Refusals
      BY DEF Wishes!Success, Refusals
    <3> QED
      BY <2>2, <3>1, WishesAnswer DEF Wishes!Writes
  <2> QED
    BY <1>9, <2>1, <2>2 DEF Wishes!Write, Wishes!Refused
<1>10. ASSUME NEW c \in Callers, Wishes!WriteFails(c)
       PROVE  WishesInv'
  <2>1. CASE \E status : Wishes!Answers(c, status) /\ UNCHANGED wrote
    BY <1>4, <1>10, <2>1 DEF Wishes!WriteFails
  <2>2. CASE Wishes!Writes(c) /\ Wishes!Refused(c, "other")
    <3>1. Wishes!Status("other") \notin Refusals
      BY DEF Wishes!Status, Refusals
    <3> QED
      BY <2>2, <3>1, WishesAnswer DEF Wishes!Writes, Wishes!Refused
  <2> QED
    BY <1>10, <2>1, <2>2 DEF Wishes!WriteFails, Wishes!Refused
<1>11. ASSUME NEW m, Wishes!Swap(m)
       PROVE  WishesInv'
  BY <1>11 DEF Wishes!Swap, WishesInv, WishUnwritten, Unwritten, Refusals, WishCall, WishFields
<1> QED
  BY <1>2, <1>5, <1>6, <1>7, <1>8, <1>9, <1>10, <1>11 DEF Wishes!Next

\* Nothing is on the wish list.
LEMMA WishesInit == Wishes!Init => WishesInv
<1> SUFFICES ASSUME Wishes!Init PROVE WishesInv
  OBVIOUS
<1>1. WishCall(Wishes!Idle)
  BY DEF Wishes!Idle, WishCall, WishFields
<1> QED
  BY <1>1 DEF Wishes!Init, WishesInv, WishUnwritten

-----------------------------------------------------------------------------
(* Visits. *)

VisitCalls == [pc: {"idle", "touch", "read", "save", "record"}, now: Visits!Times,
               existing: Visits!Row \cup {None}, next: Visits!Row \cup {None}]

VisitsShape ==
    /\ now \in Visits!Times /\ owned \in SUBSET Collectibles
    /\ digest \in Visits!Row \cup {None}
    /\ first \in SUBSET Collectibles /\ reported \in [Collectibles -> Nat]
    /\ disturbed \in BOOLEAN
    /\ call \in [Callers -> VisitCalls]

\* A collection of which every item was reported, or had at a first visit.
Told(items) == \A i \in items \ first : reported[i] > 0

\* Every baseline that is stored, or is to be replaced, was told of; and what a
\* visit is about to save reports what the baseline it read does not have.
VisitCallInv(c) ==
    /\ call[c].existing # None => digest # None /\ Told(call[c].existing.snapshot)
    /\ call[c].pc \in {"touch", "record"} => call[c].existing # None
    /\ call[c].pc = "save" =>
          /\ call[c].next # None
          /\ call[c].next.result.status = IF call[c].existing = None THEN "first-visit" ELSE "ready"
          /\ call[c].next.result.acquired =
                IF call[c].existing = None THEN {}
                ELSE call[c].next.snapshot \ call[c].existing.snapshot

\* While requests do not overlap and the collection does not shrink, the baseline
\* that a request read is the stored one, and baselines hold all that was told of.
Alone ==
    /\ \A c, d \in Callers : call[c].pc # "idle" /\ call[d].pc # "idle" => c = d
    /\ \A c \in Callers : call[c].pc # "idle" => call[c].existing = digest
    /\ \A c \in Callers : call[c].pc = "save" =>
          /\ call[c].next.snapshot \subseteq owned
          /\ digest # None => digest.snapshot \subseteq call[c].next.snapshot
    /\ digest = None => first = {} /\ \A i \in Collectibles : reported[i] = 0
    /\ digest # None =>
          /\ first \subseteq digest.snapshot /\ digest.snapshot \subseteq owned
          /\ \A i \in Collectibles :
                reported[i] <= IF i \in digest.snapshot \ first THEN 1 ELSE 0

VisitsInv ==
    /\ VisitsShape
    /\ digest # None => Told(digest.snapshot)
    /\ \A c \in Callers : VisitCallInv(c)
    /\ ~disturbed => Alone

\* The baseline holds what was told of, so that it tells of it once.
LEMMA VisitsTellOnce == VisitsInv => Visits!AcquiredToldOnce
<1> SUFFICES ASSUME VisitsInv, digest # None
             PROVE  /\ \A i \in digest.snapshot \ first : reported[i] > 0
                    /\ ~disturbed => \A i \in Collectibles : reported[i] <= (IF i \in first THEN 0 ELSE 1)
  BY DEF Visits!AcquiredToldOnce
<1>1. \A i \in digest.snapshot \ first : reported[i] > 0
  BY DEF VisitsInv, Told
<1>2. ASSUME ~disturbed, NEW i \in Collectibles PROVE reported[i] <= (IF i \in first THEN 0 ELSE 1)
  <2>1. reported[i] \in Nat /\ reported[i] <= IF i \in digest.snapshot \ first THEN 1 ELSE 0
    BY <1>2 DEF VisitsInv, VisitsShape, Alone
  <2> QED
    BY <2>1
<1> QED
  BY <1>1, <1>2

\* There has been no visit.
LEMMA VisitsInit == Visits!Init => VisitsInv
<1> SUFFICES ASSUME Visits!Init PROVE VisitsInv
  OBVIOUS
<1> USE ClockAssumption, RowAssumption
<1>1. 0 \in Visits!Times /\ Visits!Idle \in VisitCalls
  BY DEF Visits!Times, Visits!Idle, VisitCalls
<1>2. VisitsShape
  BY <1>1 DEF Visits!Init, VisitsShape
<1>3. \A c \in Callers : call[c].pc = "idle" /\ call[c].existing = None
  BY DEF Visits!Init, Visits!Idle
<1>4. \A i \in Collectibles : reported[i] = 0
  BY DEF Visits!Init
<1> QED
  BY <1>2, <1>3, <1>4 DEF Visits!Init, VisitsInv, VisitCallInv, Alone

\* A request that ends without writing the row.
LEMMA VisitsAnswer ==
  ASSUME VisitsInv, NEW c \in Callers, Visits!Answers(c),
         UNCHANGED <<now, owned, digest, first, reported, disturbed>>
  PROVE  VisitsInv'
<1> USE ClockAssumption, RowAssumption
<1>1. call' = [call EXCEPT ![c] = Visits!Idle] /\ call'[c] = Visits!Idle
      /\ \A d \in Callers \ {c} : call'[d] = call[d]
  BY DEF Visits!Answers, Visits!Goes, VisitsInv, VisitsShape
<1>2. Visits!Idle \in VisitCalls /\ Visits!Idle.pc = "idle" /\ Visits!Idle.existing = None
  BY DEF Visits!Times, Visits!Idle, VisitCalls
<1>3. VisitsShape'
  BY <1>1, <1>2 DEF VisitsInv, VisitsShape, Visits!Times
<1>4. \A d \in Callers : VisitCallInv(d)'
  BY <1>1, <1>2 DEF VisitsInv, VisitCallInv, Told
<1>5. ~disturbed => Alone'
  BY <1>1, <1>2 DEF VisitsInv, Alone
<1> QED
  BY <1>3, <1>4, <1>5 DEF VisitsInv, Told

\* A write of the row that keeps its baseline.
LEMMA VisitsKeepBaseline ==
  ASSUME VisitsInv, NEW c \in Callers, call[c].pc # "idle", Visits!Answers(c), digest # None,
         digest' \in Visits!Row, digest'.snapshot = digest.snapshot,
         UNCHANGED <<now, owned, first, reported, disturbed>>
  PROVE  VisitsInv'
<1> USE ClockAssumption, RowAssumption
<1>1. call' = [call EXCEPT ![c] = Visits!Idle] /\ call'[c] = Visits!Idle
      /\ \A d \in Callers \ {c} : call'[d] = call[d]
  BY DEF Visits!Answers, Visits!Goes, VisitsInv, VisitsShape
<1>2. Visits!Idle \in VisitCalls /\ Visits!Idle.pc = "idle" /\ Visits!Idle.existing = None
  BY DEF Visits!Times, Visits!Idle, VisitCalls
<1>3. VisitsShape'
  BY <1>1, <1>2 DEF VisitsInv, VisitsShape, Visits!Times
<1>4. digest' # None
  OBVIOUS
<1>5. \A d \in Callers : VisitCallInv(d)'
  BY <1>1, <1>2, <1>4 DEF VisitsInv, VisitCallInv, Told
<1>6. ~disturbed => Alone'
  BY <1>1, <1>2, <1>4 DEF VisitsInv, Alone
<1> QED
  BY <1>3, <1>4, <1>5, <1>6 DEF VisitsInv, Told

\* Every step of the visits keeps their invariant.
LEMMA VisitsNext ==
  ASSUME VisitsInv, Visits!Next
  PROVE  VisitsInv'
<1> USE ClockAssumption, RowAssumption
<1>1. CASE Visits!Tick
  <2>1. now + 1 \in Visits!Times
    BY <1>1 DEF Visits!Tick, VisitsInv, VisitsShape, Visits!Times
  <2> QED
    BY <1>1, <2>1 DEF Visits!Tick, Visits!history, VisitsInv, VisitsShape, Told, VisitCallInv, Alone,
                      Visits!Times
<1>2. ASSUME NEW i \in Collectibles, Visits!Acquire(i) PROVE VisitsInv'
  <2>1. owned' = owned \cup {i} /\ UNCHANGED <<now, digest, call, first, reported, disturbed>>
    BY <1>2 DEF Visits!Acquire, Visits!history
  <2>2. VisitsShape'
    BY <2>1 DEF VisitsInv, VisitsShape, Visits!Times
  <2>3. ~disturbed => Alone'
    BY <2>1 DEF VisitsInv, Alone
  <2> QED
    BY <2>1, <2>2, <2>3 DEF VisitsInv, VisitCallInv, Told
<1>3. ASSUME NEW i \in Collectibles, Visits!Shrink(i) PROVE VisitsInv'
  <2>1. owned' = owned \ {i} /\ disturbed' = TRUE /\ UNCHANGED <<now, digest, call, first, reported>>
    BY <1>3 DEF Visits!Shrink
  <2>2. VisitsShape'
    BY <2>1 DEF VisitsInv, VisitsShape, Visits!Times
  <2> QED
    BY <2>1, <2>2 DEF VisitsInv, VisitCallInv, Told
<1>4. ASSUME NEW c \in Callers, Visits!GetDigest(c) PROVE VisitsInv'
  <2> DEFINE next == [Visits!Idle EXCEPT !.pc = IF Visits!NewVisit(digest) THEN "read" ELSE "touch",
                                         !.now = now, !.existing = digest]
  <2>1. /\ call[c] = Visits!Idle /\ call' = [call EXCEPT ![c] = next]
        /\ disturbed' = (disturbed \/ \E d \in Callers : call[d].pc # "idle")
        /\ UNCHANGED <<now, owned, digest, first, reported>>
    BY <1>4 DEF Visits!GetDigest, Visits!Goes
  <2>2. /\ next.pc \in {"read", "touch"} /\ next.existing = digest /\ next.next = None
        /\ next.pc = "touch" => digest # None
    BY DEF Visits!Idle, Visits!NewVisit
  <2>3. next \in VisitCalls
    BY DEF Visits!Idle, VisitCalls, VisitsInv, VisitsShape
  <2> HIDE DEF next
  <2>4. call'[c] = next /\ \A d \in Callers \ {c} : call'[d] = call[d]
    BY <2>1 DEF VisitsInv, VisitsShape
  <2>5. VisitsShape'
    BY <2>1, <2>3 DEF VisitsInv, VisitsShape, Visits!Times
  <2>6. \A d \in Callers : VisitCallInv(d)'
    BY <2>1, <2>2, <2>4 DEF VisitsInv, VisitCallInv, Told
  <2>7. ~disturbed' => Alone'
    BY <2>1, <2>2, <2>4 DEF VisitsInv, Alone
  <2> QED
    BY <2>1, <2>5, <2>6, <2>7 DEF VisitsInv, Told
<1>5. ASSUME NEW c \in Callers, Visits!TouchActivity(c) PROVE VisitsInv'
  <2>1. call[c].pc = "touch" /\ digest # None /\ digest \in Visits!Row /\ call[c].now \in Visits!Times
    BY <1>5 DEF VisitsInv, VisitsShape, VisitCalls, VisitCallInv, Visits!TouchActivity
  <2>2. CASE UNCHANGED digest
    BY <1>5, <2>2, VisitsAnswer DEF Visits!TouchActivity, Visits!history
  <2>3. CASE digest' = [digest EXCEPT !.lastActivityAt = call[c].now]
    <3>1. digest' \in Visits!Row /\ digest'.snapshot = digest.snapshot
      BY <2>1, <2>3 DEF Visits!Row
    <3> QED
      BY <1>5, <2>1, <3>1, VisitsKeepBaseline DEF Visits!TouchActivity, Visits!history
  <2> QED
    BY <1>5, <2>2, <2>3 DEF Visits!TouchActivity
\* A request goes on, having read what it read.
<1>6. ASSUME NEW c \in Callers, NEW next \in VisitCalls, call' = [call EXCEPT ![c] = next],
             UNCHANGED <<now, owned, digest, first, reported, disturbed>>,
             call[c].pc = "read", next.existing = call[c].existing,
             \/ /\ next.pc = "record" /\ call[c].existing # None
             \/ /\ next.pc = "save" /\ next.next # None
                /\ next.next.snapshot = owned
                /\ next.next.result.status = IF next.existing = None THEN "first-visit" ELSE "ready"
                /\ next.next.result.acquired = IF next.existing = None THEN {}
                                               ELSE owned \ next.existing.snapshot
      PROVE  VisitsInv'
  <2>1. call'[c] = next /\ \A d \in Callers \ {c} : call'[d] = call[d]
    BY <1>6 DEF VisitsInv, VisitsShape
  <2>2. VisitsShape'
    BY <1>6 DEF VisitsInv, VisitsShape, Visits!Times
  <2>3. \A d \in Callers : VisitCallInv(d)'
    <3>1. VisitCallInv(c) /\ \A d \in Callers \ {c} : VisitCallInv(d)
      BY DEF VisitsInv
    <3>2. VisitCallInv(c)'
      <4>1. CASE next.pc = "record"
        BY <1>6, <2>1, <3>1, <4>1 DEF VisitCallInv, Told
      <4>2. CASE next.pc = "save"
        BY <1>6, <2>1, <3>1, <4>2 DEF VisitCallInv, Told
      <4> QED
        BY <1>6, <4>1, <4>2
    <3>3. ASSUME NEW d \in Callers \ {c} PROVE VisitCallInv(d)'
      BY <1>6, <2>1, <3>1 DEF VisitCallInv, Told
    <3> QED
      BY <3>2, <3>3
  <2>4. ~disturbed => Alone'
    BY <1>6, <2>1 DEF VisitsInv, Alone
  <2> QED
    BY <1>6, <2>2, <2>3, <2>4 DEF VisitsInv, Told
<1>7. ASSUME NEW c \in Callers, Visits!ReadCollection(c) PROVE VisitsInv'
  <2> DEFINE existing == call[c].existing
             result == [status |-> IF existing = None THEN "first-visit" ELSE "ready",
                        previous |-> Visits!Previous(c), acquired |-> Visits!Since(c)]
             saved == [lastActivityAt |-> call[c].now, visitStartedAt |-> call[c].now,
                       snapshot |-> owned, result |-> result]
             next == [call[c] EXCEPT !.pc = "save", !.next = saved]
  <2>1. call[c].pc = "read" /\ call' = [call EXCEPT ![c] = next]
        /\ UNCHANGED <<now, owned, digest, first, reported, disturbed>>
    BY <1>7 DEF Visits!ReadCollection, Visits!Goes, Visits!history
  <2>2. call[c] \in VisitCalls /\ owned \in SUBSET Collectibles
    BY DEF VisitsInv, VisitsShape
  <2>3. Visits!Previous(c) \in Visits!Times \cup {None}
    BY <2>2 DEF VisitCalls, Visits!Previous, Visits!Row
  <2>4. Visits!Since(c) \in SUBSET Collectibles
        /\ Visits!Since(c) = IF existing = None THEN {} ELSE owned \ existing.snapshot
    BY <2>2 DEF Visits!Since
  <2>5. result \in Visits!Result /\ result.acquired = Visits!Since(c)
        /\ result.status = IF existing = None THEN "first-visit" ELSE "ready"
    BY <2>3, <2>4 DEF Visits!Result
  <2> HIDE DEF result
  <2>6. saved \in Visits!Row /\ saved.snapshot = owned /\ saved.result = result
    BY <2>2, <2>5 DEF VisitCalls, Visits!Row
  <2> HIDE DEF saved
  <2>7. next \in VisitCalls /\ next.pc = "save" /\ next.next = saved /\ next.existing = existing
    BY <2>2, <2>6 DEF VisitCalls
  <2> HIDE DEF next
  <2>8. saved # None
    BY <2>6
  <2> QED
    BY <1>6, <2>1, <2>4, <2>5, <2>6, <2>7, <2>8
<1>8. ASSUME NEW c \in Callers, Visits!Unavailable(c) PROVE VisitsInv'
  <2>1. CASE Visits!Answers(c)
    BY <1>8, <2>1, VisitsAnswer DEF Visits!Unavailable, Visits!history
  <2>2. CASE Visits!GoesTo(c, "record") /\ call[c].existing # None
    <3> DEFINE next == [call[c] EXCEPT !.pc = "record"]
    <3>1. call[c] \in VisitCalls
      BY DEF VisitsInv, VisitsShape
    <3>2. next \in VisitCalls /\ next.pc = "record" /\ next.existing = call[c].existing
      BY <3>1 DEF VisitCalls
    <3>3. call' = [call EXCEPT ![c] = next]
      BY <2>2 DEF Visits!GoesTo, Visits!Goes
    <3> HIDE DEF next
    <3> QED
      BY <1>6, <1>8, <2>2, <3>2, <3>3 DEF Visits!Unavailable, Visits!history
  <2> QED
    BY <1>8, <2>1, <2>2 DEF Visits!Unavailable
<1>9. ASSUME NEW c \in Callers, Visits!LookupFails(c) \/ Visits!WriteFails(c) PROVE VisitsInv'
  BY <1>9, VisitsAnswer DEF Visits!LookupFails, Visits!WriteFails, Visits!history
<1>10. ASSUME NEW c \in Callers, Visits!Save(c) PROVE VisitsInv'
  <2> DEFINE next == call[c].next
             old == call[c].existing
  <2>1. /\ call[c].pc = "save" /\ digest' = next /\ Visits!Answers(c)
        /\ first' = IF next.result.status = "first-visit" THEN first \cup next.snapshot ELSE first
        /\ reported' = [i \in Collectibles |-> IF i \in next.result.acquired THEN reported[i] + 1
                                               ELSE reported[i]]
        /\ UNCHANGED <<now, owned, disturbed>>
    BY <1>10 DEF Visits!Save
  <2>2. call[c] \in VisitCalls /\ VisitCallInv(c)
    BY DEF VisitsInv, VisitsShape
  <2>3. next # None /\ next \in Visits!Row /\ next.snapshot \in SUBSET Collectibles
    BY <2>1, <2>2 DEF VisitCalls, VisitCallInv, Visits!Row
  <2>4. /\ next.result.acquired = IF old = None THEN {} ELSE next.snapshot \ old.snapshot
        /\ old # None => Told(old.snapshot)
    BY <2>1, <2>2 DEF VisitCallInv
  <2>5. first' = IF old = None THEN first \cup next.snapshot ELSE first
    BY <2>1, <2>2 DEF VisitCallInv
  <2> HIDE DEF next
  <2>6. \A i \in Collectibles : reported[i] \in Nat
          /\ reported'[i] = IF old # None /\ i \in next.snapshot /\ i \notin old.snapshot
                            THEN reported[i] + 1 ELSE reported[i]
    BY <2>1, <2>4 DEF VisitsInv, VisitsShape
  <2>7. call' = [call EXCEPT ![c] = Visits!Idle] /\ call'[c] = Visits!Idle
        /\ \A d \in Callers \ {c} : call'[d] = call[d]
    BY <2>1 DEF Visits!Answers, Visits!Goes, VisitsInv, VisitsShape
  <2>8. Visits!Idle \in VisitCalls /\ Visits!Idle.pc = "idle" /\ Visits!Idle.existing = None
    BY DEF Visits!Times, Visits!Idle, VisitCalls
  <2>9. VisitsShape'
    <3>1. call' \in [Callers -> VisitCalls]
      BY <2>7, <2>8 DEF VisitsInv, VisitsShape
    <3>2. reported' \in [Collectibles -> Nat]
      BY <2>1, <2>6
    <3>3. call' \in [Callers -> VisitCalls'] /\ Visits!Times' = Visits!Times
      BY <3>1 DEF VisitCalls, Visits!Times
    <3> QED
      BY <2>1, <2>3, <2>5, <3>1, <3>2, <3>3 DEF VisitsInv, VisitsShape
  <2>10. ASSUME NEW items, items \subseteq Collectibles, Told(items) PROVE Told(items)'
    BY <2>5, <2>6, <2>10 DEF Told
  <2>11. \A i \in next.snapshot \ first' : reported'[i] > 0
    BY <2>1, <2>3, <2>4, <2>5, <2>6 DEF Told
  <2>12. \A d \in Callers : VisitCallInv(d)'
    <3>1. VisitCallInv(c)'
      BY <2>7, <2>8 DEF VisitCallInv
    <3>2. ASSUME NEW d \in Callers \ {c} PROVE VisitCallInv(d)'
      <4>1. VisitCallInv(d) /\ call'[d] = call[d] /\ digest' # None
        BY <2>1, <2>3, <2>7 DEF VisitsInv
      <4>2. call[d].existing # None => call[d].existing.snapshot \subseteq Collectibles
        BY DEF VisitsInv, VisitsShape, VisitCalls, Visits!Row
      <4> QED
        BY <2>10, <4>1, <4>2 DEF VisitCallInv
    <3> QED
      BY <3>1, <3>2
  <2>13. ~disturbed => Alone'
    <3> SUFFICES ASSUME ~disturbed PROVE Alone'
      OBVIOUS
    <3>1. /\ old = digest /\ next.snapshot \subseteq owned
          /\ digest # None => digest.snapshot \subseteq next.snapshot
          /\ \A d \in Callers \ {c} : call[d].pc = "idle"
      BY <2>1 DEF VisitsInv, Alone, next
    <3>2. first' \subseteq next.snapshot
      BY <2>3, <2>5, <3>1 DEF VisitsInv, Alone
    <3>3. \A i \in Collectibles : reported'[i] <= IF i \in next.snapshot \ first' THEN 1 ELSE 0
      <4>1. CASE old = None
        BY <2>5, <2>6, <3>1, <4>1 DEF VisitsInv, Alone
      <4>2. CASE old # None
        BY <2>5, <2>6, <3>1, <4>2 DEF VisitsInv, Alone
      <4> QED
        BY <4>1, <4>2
    <3> QED
      BY <2>1, <2>3, <2>7, <2>8, <3>1, <3>2, <3>3 DEF Alone
  <2> QED
    BY <2>1, <2>9, <2>11, <2>12, <2>13 DEF VisitsInv, Told
<1>11. ASSUME NEW c \in Callers, Visits!RecordUnavailableVisit(c) PROVE VisitsInv'
  <2> DEFINE result == [status |-> "unavailable", previous |-> Visits!Previous(c), acquired |-> {}]
  <2>1. /\ call[c].pc = "record" /\ digest # None /\ digest \in Visits!Row
        /\ call[c] \in VisitCalls
    BY <1>11 DEF VisitsInv, VisitsShape, VisitCallInv, Visits!RecordUnavailableVisit
  <2>2. Visits!Previous(c) \in Visits!Times \cup {None} /\ call[c].now \in Visits!Times
    BY <2>1 DEF VisitCalls, Visits!Previous, Visits!Row
  <2>3. result \in Visits!Result
    BY <2>2 DEF Visits!Result
  <2>4. digest' = [digest EXCEPT !.lastActivityAt = call[c].now, !.visitStartedAt = call[c].now,
                                 !.result = result]
    BY <1>11 DEF Visits!RecordUnavailableVisit
  <2> HIDE DEF result
  <2>5. digest' \in Visits!Row /\ digest'.snapshot = digest.snapshot
    BY <2>1, <2>2, <2>3, <2>4 DEF Visits!Row
  <2> QED
    BY <1>11, <2>1, <2>5, VisitsKeepBaseline DEF Visits!RecordUnavailableVisit, Visits!history
<1> QED
  BY <1>1, <1>2, <1>3, <1>4, <1>5, <1>7, <1>8, <1>9, <1>10, <1>11 DEF Visits!Next

-----------------------------------------------------------------------------
(* Preferences. *)

PatchTyped(patch) ==
    /\ Devices!Valid(patch)
    /\ "personalize" \in DOMAIN patch => patch.personalize \in BOOLEAN

DevicesInv ==
    /\ now \in 0 .. MaxPreferenceTime
    /\ preferences \in Devices!Values \cup {None}
    /\ call = [c \in Callers |-> call[c]]
    /\ \A c \in Callers : call[c].pc = "apply" => PatchTyped(call[c].patch)

\* A patch that is stored changes the fields it names.
LEMMA PatchApplied ==
  ASSUME DevicesInv, NEW patch, PatchTyped(patch)
  PROVE  LET old == Devices!Stored
             new == Devices!Applied(old, patch)
         IN /\ new \in Devices!Values
            /\ "cardStyle" \in DOMAIN patch \/ new.cardStyle = old.cardStyle
            /\ "personalize" \in DOMAIN patch \/ new.personalize = old.personalize
            /\ "onboardingComplete" \in DOMAIN patch \/ new.onboardedAt = old.onboardedAt
            /\ old.onboardedAt # None => new.onboardedAt = old.onboardedAt
<1> USE ClockAssumption, RowAssumption
<1> DEFINE old == Devices!Stored
           new == Devices!Applied(old, patch)
<1>1. old \in Devices!Values
  BY DEF DevicesInv, Devices!Stored, Devices!Defaults, Devices!Values, Devices!CardStyles
<1> HIDE DEF old
<1>2. /\ new.cardStyle = IF "cardStyle" \in DOMAIN patch THEN patch.cardStyle ELSE old.cardStyle
      /\ new.personalize = IF "personalize" \in DOMAIN patch THEN patch.personalize ELSE old.personalize
      /\ new.onboardedAt = IF "onboardingComplete" \in DOMAIN patch /\ old.onboardedAt = None THEN now
                           ELSE old.onboardedAt
      /\ new = [cardStyle |-> new.cardStyle, personalize |-> new.personalize,
                onboardedAt |-> new.onboardedAt]
  BY DEF Devices!Applied
<1> HIDE DEF new
<1>3. /\ new.cardStyle \in Devices!CardStyles /\ new.personalize \in BOOLEAN
      /\ new.onboardedAt \in (0 .. MaxPreferenceTime) \cup {None}
  BY <1>1, <1>2 DEF DevicesInv, PatchTyped, Devices!Valid, Devices!Values
<1>4. new \in Devices!Values
  BY <1>2, <1>3 DEF Devices!Values
<1> QED
  BY <1>2, <1>4 DEF old, new

\* No preferences are stored.
LEMMA DevicesInit == Devices!Init => DevicesInv
  BY ClockAssumption DEF Devices!Init, DevicesInv, Devices!Idle

\* What a step of the preferences may do.
DevicesMerge ==
    UNCHANGED preferences
    \/ /\ preferences' # None
       /\ \A f \in DOMAIN Devices!Defaults :
             preferences'[f] # Devices!Stored[f] =>
                 \E c \in Callers :
                     /\ call[c].pc = "apply"
                     /\ (IF f = "onboardedAt" THEN "onboardingComplete" ELSE f) \in DOMAIN call[c].patch
       /\ Devices!Stored.onboardedAt # None => preferences'.onboardedAt = Devices!Stored.onboardedAt

\* Every step of the preferences keeps their invariant, and merges.
LEMMA DevicesNext ==
  ASSUME DevicesInv, Devices!Next
  PROVE  DevicesInv' /\ DevicesMerge
<1> USE ClockAssumption, RowAssumption
<1>1. CASE Devices!Tick
  BY <1>1 DEF Devices!Tick, DevicesInv, PatchTyped, Devices!Valid, Devices!Values, DevicesMerge
\* A step of one caller.
<1>2. ASSUME NEW c \in Callers, NEW next, call' = [call EXCEPT ![c] = next], UNCHANGED now,
             preferences' \in Devices!Values \cup {None},
             next.pc = "apply" => PatchTyped(next.patch)
      PROVE  DevicesInv'
  <2>1. \A d \in Callers : call'[d] = IF d = c THEN next ELSE call[d]
    BY <1>2 DEF DevicesInv
  <2> QED
    BY <1>2, <2>1 DEF DevicesInv, PatchTyped, Devices!Valid, Devices!Values
<1>3. ASSUME NEW c \in Callers, NEW values, NEW persisted,
             Devices!Goes(c, [Devices!Idle EXCEPT !.pc = "answered", !.values = values,
                                                  !.persisted = persisted]),
             preferences' \in Devices!Values \cup {None}, UNCHANGED now
      PROVE  DevicesInv'
  <2> DEFINE next == [Devices!Idle EXCEPT !.pc = "answered", !.values = values, !.persisted = persisted]
  <2>1. call' = [call EXCEPT ![c] = next] /\ next.pc = "answered"
    BY <1>3 DEF Devices!Goes, Devices!Idle
  <2> HIDE DEF next
  <2> QED
    BY <1>2, <1>3, <2>1
<1>4. ASSUME NEW c \in Callers, Devices!Goes(c, [Devices!Idle EXCEPT !.pc = "answered"]),
             preferences' \in Devices!Values \cup {None}, UNCHANGED now
      PROVE  DevicesInv'
  <2> DEFINE next == [Devices!Idle EXCEPT !.pc = "answered"]
  <2>1. call' = [call EXCEPT ![c] = next] /\ next.pc = "answered"
    BY <1>4 DEF Devices!Goes, Devices!Idle
  <2> HIDE DEF next
  <2> QED
    BY <1>2, <1>4, <2>1
<1>5. ASSUME NEW c \in Callers, NEW patch \in PreferencePatches, Devices!UpdatePreferences(c, patch)
      PROVE  DevicesInv' /\ DevicesMerge
  <2> DEFINE bound == Devices!Bound(patch)
  <2>1. "personalize" \in DOMAIN bound => bound.personalize \in BOOLEAN
    BY InputAssumption DEF Devices!Bound
  <2>2. UNCHANGED <<now, preferences>> /\ preferences' \in Devices!Values \cup {None}
    BY <1>5 DEF Devices!UpdatePreferences, DevicesInv
  <2>3. CASE Devices!Valid(bound)
    <3> HIDE DEF bound
    <3> DEFINE next == [Devices!Idle EXCEPT !.pc = "apply", !.patch = bound]
    <3>1. call' = [call EXCEPT ![c] = next] /\ next.pc = "apply" /\ next.patch = bound
      BY <1>5, <2>3 DEF Devices!UpdatePreferences, Devices!Goes, Devices!Idle, bound
    <3> HIDE DEF next
    <3> QED
      BY <1>2, <2>1, <2>2, <2>3, <3>1 DEF PatchTyped, DevicesMerge
  <2>4. CASE ~Devices!Valid(bound)
    BY <1>4, <1>5, <2>2, <2>4 DEF Devices!UpdatePreferences, DevicesMerge
  <2> QED
    BY <2>3, <2>4
<1>6. ASSUME NEW c \in Callers, call[c].pc = "apply", Devices!Stores(c)
      PROVE  preferences' \in Devices!Values /\ DevicesMerge
  <2>1. PatchTyped(call[c].patch)
    BY <1>6 DEF DevicesInv
  <2> DEFINE old == Devices!Stored
             new == Devices!Applied(old, call[c].patch)
  <2>2. preferences' = new
    BY <1>6 DEF Devices!Stores
  <2>3. DOMAIN Devices!Defaults = {"cardStyle", "personalize", "onboardedAt"}
    BY DEF Devices!Defaults
  <2>4. /\ new \in Devices!Values
        /\ "cardStyle" \in DOMAIN call[c].patch \/ new.cardStyle = old.cardStyle
        /\ "personalize" \in DOMAIN call[c].patch \/ new.personalize = old.personalize
        /\ "onboardingComplete" \in DOMAIN call[c].patch \/ new.onboardedAt = old.onboardedAt
        /\ old.onboardedAt # None => new.onboardedAt = old.onboardedAt
    BY <2>1, PatchApplied
  <2> HIDE DEF old, new
  <2>5. new # None
    BY <2>4
  <2>6. ASSUME NEW f \in {"cardStyle", "personalize", "onboardedAt"}, new[f] # old[f]
        PROVE  (IF f = "onboardedAt" THEN "onboardingComplete" ELSE f) \in DOMAIN call[c].patch
    BY <2>4, <2>6
  <2> QED
    BY <1>6, <2>2, <2>3, <2>4, <2>5, <2>6 DEF DevicesMerge, old
<1>7. ASSUME NEW c \in Callers, Devices!Apply(c)
      PROVE  DevicesInv' /\ DevicesMerge
  BY <1>3, <1>6, <1>7 DEF Devices!Apply
<1>8. ASSUME NEW c \in Callers, Devices!ApplyFails(c)
      PROVE  DevicesInv' /\ DevicesMerge
  <2>1. CASE UNCHANGED preferences
    BY <1>4, <1>8, <2>1 DEF Devices!ApplyFails, DevicesInv, DevicesMerge
  <2>2. CASE Devices!Stores(c)
    BY <1>4, <1>6, <1>8, <2>2 DEF Devices!ApplyFails
  <2> QED
    BY <1>8, <2>1, <2>2 DEF Devices!ApplyFails
<1>9. ASSUME NEW c \in Callers, Devices!GetPreferences(c) \/ Devices!GetDegraded(c)
      PROVE  DevicesInv' /\ DevicesMerge
  BY <1>3, <1>4, <1>9 DEF Devices!GetPreferences, Devices!GetDegraded, DevicesInv, DevicesMerge
<1> QED
  BY <1>1, <1>5, <1>7, <1>8, <1>9 DEF Devices!Next

-----------------------------------------------------------------------------
(* The composition. *)

\* The last administrator cannot be demoted: however many requests change roles
\* at once, on however old a view of who may, a system that had an administrator
\* has one.
THEOREM AdministratorsRemain == Spec => []AdminRemains
<1> DEFINE Inv == part = "roles" => RolesInv
<1>1. Init => Inv
  BY RolesInit DEF Init
<1>2. Inv /\ [Next]_vars => Inv'
  <2> SUFFICES ASSUME Inv, [Next]_vars, part' = "roles" PROVE RolesInv'
    OBVIOUS
  <2>1. CASE Roles!Next /\ part = "roles"
    BY <2>1, RolesNext
  <2>2. CASE UNCHANGED vars
    BY <2>2, RolesUnchanged DEF vars, roleVars
  <2> QED
    BY <2>1, <2>2 DEF Next
<1>3. Inv => AdminRemains
  BY DEF AdminRemains, RolesInv
<1> QED
  BY <1>1, <1>2, <1>3, PTL DEF Spec

\* The audit log tells how every role and flag became what it is, but for roles
\* that a sign-in pins: however transactions meet, none writes a row that does
\* not start from what is stored, nor a change without its row.
THEOREM AuditLogTells == Spec => []AuditTells
<1> DEFINE Inv == part = "roles" => RolesInv /\ AuditInv
<1>1. Init => Inv
  BY RolesInit, AuditInit DEF Init
<1>2. Inv /\ [Next]_vars => Inv'
  <2> SUFFICES ASSUME Inv, [Next]_vars, part' = "roles" PROVE RolesInv' /\ AuditInv'
    OBVIOUS
  <2>1. CASE Roles!Next /\ part = "roles"
    BY <2>1, RolesNext, AuditNext
  <2>2. CASE UNCHANGED vars
    BY <2>2, RolesUnchanged, AuditUnchanged DEF vars, roleVars
  <2> QED
    BY <2>1, <2>2 DEF Next
<1>3. Inv => AuditTells
  BY DEF AuditTells, Roles!AuditTells, AuditInv, Chained, Stored, Audited
<1> QED
  BY <1>1, <1>2, <1>3, PTL DEF Spec

\* Barring faults and sign-outs the player stays connected to Bungie, however
\* many replicas refresh the tokens at once.
THEOREM PlayersStayConnected == Spec => []ConnectionKept
<1> DEFINE Inv == part = "tokens" => TokensInv
<1>1. Init => Inv
  BY TokensInit DEF Init
<1>2. Inv /\ [Next]_vars => Inv'
  <2> SUFFICES ASSUME Inv, [Next]_vars, part' = "tokens" PROVE TokensInv'
    OBVIOUS
  <2>1. CASE Tokens!Next /\ part = "tokens"
    BY <2>1, TokensNext
  <2>2. CASE UNCHANGED vars
    BY <2>2, TokensUnchanged DEF vars, tokenVars
  <2> QED
    BY <2>1, <2>2 DEF Next
<1>3. Inv => ConnectionKept
  BY TokensConnect DEF ConnectionKept
<1> QED
  BY <1>1, <1>2, <1>3, PTL DEF Spec

\* A refresh puts older tokens over newer ones only where it skips the comparison.
THEOREM RefreshesStepForward == Spec => RefreshNeverStepsBack
<1> DEFINE Inv == IF part = "tokens" THEN TokensInv ELSE grant = None
<1>1. Init => Inv
  BY TokensInit DEF Init, NoTokens
<1>2. Inv /\ [Next]_vars => Inv'
  <2> SUFFICES ASSUME Inv, [Next]_vars PROVE Inv'
    OBVIOUS
  <2>1. CASE Tokens!Next /\ part = "tokens" /\ part' = part
    BY <2>1, TokensNext
  <2>2. CASE UNCHANGED vars
    BY <2>2, TokensUnchanged DEF vars, tokenVars
  <2>3. CASE Next /\ part # "tokens"
    BY <2>3 DEF Next, tokenVars
  <2> QED
    BY <2>1, <2>2, <2>3 DEF Next
<1>3. Inv /\ [Next]_vars =>
        [ \A c \in Callers :
            call[c].pc = "persist" /\ call[c].held.durable /\ grant # None /\ grant' # grant
            /\ call'[c] # call[c] => grant' > grant ]_Tokens!vars
  <2>1. CASE part # "tokens"
    BY <2>1
  <2>2. CASE part = "tokens"
    BY <2>2, TokensNeverStepBack DEF Next, vars, tokenVars, Tokens!vars, Tokens!bungieVars
  <2> QED
    BY <2>1, <2>2
<1> QED
  BY <1>1, <1>2, <1>3, PTL DEF Spec, RefreshNeverStepsBack, Tokens!RefreshNeverStepsBack

\* The invariant of the roll targets holds while they are what is worked on.
LEMMA RollsAlways == Spec => [](part = "rolls" => RollsInv)
<1> DEFINE Inv == part = "rolls" => RollsInv
<1>1. Init => Inv
  BY RollsInit DEF Init
<1>2. Inv /\ [Next]_vars => Inv'
  <2> SUFFICES ASSUME Inv, [Next]_vars, part' = "rolls" PROVE RollsInv'
    OBVIOUS
  <2>1. CASE Rolls!Next /\ part = "rolls"
    BY <2>1, RollsNext
  <2>2. CASE UNCHANGED vars
    <3>1. UNCHANGED <<targets, lastId, gone, installed, call>>
      BY <2>2 DEF vars, rollVars
    <3> QED
      BY <2>2, <3>1, RollsSame, RollsOthers DEF RollsInv, vars
  <2> QED
    BY <2>1, <2>2 DEF Next
<1> QED
  BY <1>1, <1>2, PTL DEF Spec

\* A saved roll target can match, whatever manifests are installed, edits and
\* imports meet, and writes fail.
THEOREM SavedTargetsCanMatch == Spec => []TargetsCanMatch
<1>1. (part = "rolls" => RollsInv) => TargetsCanMatch
  BY DEF TargetsCanMatch, RollsInv, RollTable
<1> QED
  BY <1>1, RollsAlways, PTL

\* What an import tells of as saved is saved, or was and is gone.
THEOREM ImportsReportTruly == Spec => []ReportsHold
<1>1. (part = "rolls" => RollsInv) => ReportsHold
  BY DEF ReportsHold, RollsInv, RollCallInv, RollTold, Rolls!ReportsHold
<1> QED
  BY <1>1, RollsAlways, PTL

\* A wish list request that is refused has written nothing.
THEOREM RefusalsWriteNothing == Spec => []RefusalWritesNothing
<1> DEFINE Inv == part = "wishes" => WishesInv
<1>1. Init => Inv
  BY WishesInit DEF Init
<1>2. Inv /\ [Next]_vars => Inv'
  <2> SUFFICES ASSUME Inv, [Next]_vars, part' = "wishes" PROVE WishesInv'
    OBVIOUS
  <2>1. CASE Wishes!Next /\ part = "wishes"
    BY <2>1, WishesNext
  <2>2. CASE UNCHANGED vars
    BY <2>2 DEF vars, wishVars, WishesInv, WishUnwritten, Unwritten, Refusals, WishCall, WishFields
  <2> QED
    BY <2>1, <2>2 DEF Next
<1>3. Inv => RefusalWritesNothing
  BY DEF RefusalWritesNothing, Wishes!RefusalWritesNothing, WishesInv, WishUnwritten, Unwritten, Refusals
<1> QED
  BY <1>1, <1>2, <1>3, PTL DEF Spec

\* What the player acquires is told of once: whatever requests, reads and writes
\* of the row meet, nothing slips into the baseline untold, and nothing is told
\* twice unless requests overlapped or the collection shrank.
THEOREM VisitsTellOfAll == Spec => []AcquiredToldOnce
<1> DEFINE Inv == part = "visits" => VisitsInv
<1>1. Init => Inv
  BY VisitsInit DEF Init
<1>2. Inv /\ [Next]_vars => Inv'
  <2> SUFFICES ASSUME Inv, [Next]_vars, part' = "visits" PROVE VisitsInv'
    OBVIOUS
  <2>1. CASE Visits!Next /\ part = "visits"
    BY <2>1, VisitsNext
  <2>2. CASE UNCHANGED vars
    BY <2>2 DEF vars, visitVars, VisitsInv, VisitsShape, VisitCallInv, VisitCalls, Alone, Told,
                Visits!Times, Visits!Row, Visits!Result
  <2> QED
    BY <2>1, <2>2 DEF Next
<1>3. Inv => AcquiredToldOnce
  BY VisitsTellOnce DEF AcquiredToldOnce
<1> QED
  BY <1>1, <1>2, <1>3, PTL DEF Spec

\* Patches from several devices merge: a step of any of them changes the fields
\* that a patch under way names, by what is stored as it is applied.
THEOREM DevicesDoNotUndo == Spec => PatchesMerge
<1> DEFINE Inv == IF part = "devices" THEN DevicesInv ELSE preferences = None
<1>1. Init => Inv
  BY DevicesInit DEF Init, NoDevices
<1>2. Inv /\ [Next]_vars => Inv'
  <2> SUFFICES ASSUME Inv, [Next]_vars PROVE Inv'
    OBVIOUS
  <2>1. CASE Devices!Next /\ part = "devices" /\ part' = part
    BY <2>1, DevicesNext
  <2>2. CASE UNCHANGED vars
    BY <2>2 DEF vars, DevicesInv, PatchTyped, Devices!Valid, Devices!Values
  <2>3. CASE Next /\ part # "devices"
    BY <2>3 DEF Next
  <2> QED
    BY <2>1, <2>2, <2>3 DEF Next
<1>3. Inv /\ [Next]_vars =>
        [ /\ preferences' # None
          /\ \A f \in DOMAIN Devices!Defaults :
                preferences'[f] # Devices!Stored[f] =>
                    \E c \in Callers :
                        /\ call[c].pc = "apply"
                        /\ (IF f = "onboardedAt" THEN "onboardingComplete" ELSE f)
                                \in DOMAIN call[c].patch
          /\ Devices!Stored.onboardedAt # None =>
                preferences'.onboardedAt = Devices!Stored.onboardedAt ]_preferences
  <2> SUFFICES ASSUME Inv, [Next]_vars PROVE DevicesMerge
    BY DEF DevicesMerge
  <2>1. CASE Devices!Next /\ part = "devices"
    BY <2>1, DevicesNext
  <2>2. CASE UNCHANGED preferences
    BY <2>2 DEF DevicesMerge
  <2> QED
    BY <2>1, <2>2 DEF Next, vars
<1> QED
  BY <1>1, <1>2, <1>3, PTL DEF Spec, PatchesMerge, Devices!PatchesMerge

=============================================================================
