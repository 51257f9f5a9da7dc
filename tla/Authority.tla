------------------------------ MODULE Authority ------------------------------
(***************************************************************************)
(* Roles and feature flags: administrators change the roles of users and   *)
(* patch the flags, users opt in to a tier, sign-in creates users and      *)
(* makes those named in ADMIN_MEMBERSHIP_IDS administrators.  Transactions *)
(* are split where they take the lock of a row; a row read under its lock  *)
(* does not change before the transaction ends, so its write, its audit    *)
(* row and its commit are one step.                                        *)
(*                                                                         *)
(* A request is let in on a role read from its replica's revocation cache. *)
(* The two fields of the one flag are numbers: minTier, and enabled 0 or 1. *)
(***************************************************************************)
EXTENDS Integers, FiniteSets, Sequences, SequencesExt

CONSTANTS Replicas, Callers, Users, None,
          Bootstrap,      \* the users in ADMIN_MEMBERSHIP_IDS
          Offered,        \* the roles that requests ask for
          Patches,        \* flag patches: functions from some of its fields
          MaxAudit,       \* bound: audited changes
          MaxFaults       \* bound: failed transactions

VARIABLES role,           \* per user users.role, or None before it signs in
          flag,           \* the feature flag's row
          audit,          \* audit_log: what changed, from what to what
          lock,           \* per row, the caller whose transaction has it locked
          cached,         \* per replica and user, the role cached, or None
          call,           \* per caller, its request
          faults,
          hadAdmin        \* history: there has been an administrator

vars == <<role, flag, audit, lock, cached, call, faults, hadAdmin>>

Standard == 0
Alpha    == 2
Admin    == 3
Roles == Standard .. Admin
Fields == {"enabled", "minTier"}
Rows == Users \cup {"flag"}
Idle == [pc |-> "idle", kind |-> "none", replica |-> None, target |-> None, to |-> Standard,
         patch |-> << >>, old |-> Standard, scan |-> {}, admins |-> 0]

TypeOK ==
    /\ \A u \in Users : role[u] \in Roles \cup {None}
    /\ flag.enabled \in {0, 1} /\ flag.minTier \in Standard .. Alpha
    /\ \A r \in Replicas, u \in Users : cached[r][u] \in Roles \cup {None}
    /\ \A x \in Rows : lock[x] # None => call[lock[x]].pc \in {"locked", "scan"}
    /\ \A c \in Callers : call[c].admins <= Cardinality(Users)

Init ==
    /\ role = [u \in Users |-> None]
    /\ flag = [enabled |-> 1, minTier |-> Standard]
    /\ audit = << >>
    /\ lock = [x \in Rows |-> None]
    /\ cached = [r \in Replicas |-> [u \in Users |-> None]]
    /\ call = [c \in Callers |-> Idle]
    /\ faults = 0 /\ hadAdmin = FALSE

-----------------------------------------------------------------------------

Goes(c, next) == call' = [call EXCEPT ![c] = next]
\* A transaction that ends, either way, releases its locks.
Release(c) == lock' = [x \in Rows |-> IF lock[x] = c THEN None ELSE lock[x]]
Rollback(c) == Goes(c, Idle) /\ Release(c) /\ UNCHANGED <<role, flag, audit, cached, hadAdmin>>

Audited(changes) ==
    /\ Len(audit) + Len(changes) <= MaxAudit
    /\ audit' = audit \o changes

\* Upsert keeps the role of a user it knows, unless it is one to pin.
SignIn(u) ==
    /\ lock[u] = None
    /\ role' = [role EXCEPT ![u] = IF u \in Bootstrap THEN Admin
                                   ELSE IF @ = None THEN Standard ELSE @]
    /\ role' # role
    /\ hadAdmin' = (hadAdmin \/ u \in Bootstrap)
    /\ UNCHANGED <<flag, audit, lock, cached, call, faults>>

\* A revocation check on a replica reads the row, and its entry expires.
Check(r, u) ==
    /\ cached[r][u] = None /\ role[u] # None
    /\ cached' = [cached EXCEPT ![r][u] = role[u]]
    /\ UNCHANGED <<role, flag, audit, lock, call, faults, hadAdmin>>

Expire(r, u) ==
    /\ cached[r][u] # None
    /\ cached' = [cached EXCEPT ![r][u] = None]
    /\ UNCHANGED <<role, flag, audit, lock, call, faults, hadAdmin>>

\* The requests, and who may make them.
Begins(c, next) ==
    /\ call[c] = Idle
    /\ Goes(c, next)
    /\ UNCHANGED <<role, flag, audit, lock, cached, faults, hadAdmin>>

SetRole(c, r, u, to) ==
    /\ to # Admin
    /\ cached[r][u] \notin {None, Admin}
    /\ Begins(c, [Idle EXCEPT !.pc = "begin", !.kind = "self", !.replica = r,
                              !.target = u, !.to = to])

RequireAdmin(r) == \E u \in Users : cached[r][u] = Admin

SetUserRole(c, r, u, to) ==
    /\ RequireAdmin(r)
    /\ Begins(c, [Idle EXCEPT !.pc = "begin", !.kind = "admin", !.replica = r,
                              !.target = u, !.to = to])

UpdateFlag(c, r, patch) ==
    /\ RequireAdmin(r)
    /\ patch # << >> /\ ("minTier" \in DOMAIN patch => patch.minTier <= Alpha)
    /\ Begins(c, [Idle EXCEPT !.pc = "begin", !.kind = "flag", !.replica = r,
                              !.target = "flag", !.patch = patch])

-----------------------------------------------------------------------------
(* Transactions. *)

\* SELECT ... FOR UPDATE of the row to change; no such user is refused.
\* Bug: the row is read without its lock.
ReadUnlocked(c) ==
    /\ call[c].pc = "begin" /\ call[c].target \in Users => role[call[c].target] # None
    /\ LET u == call[c].target
       IN Goes(c, [call[c] EXCEPT !.pc = "locked", !.old = IF u \in Users THEN role[u] ELSE @])
    /\ UNCHANGED <<role, flag, audit, lock, cached, faults, hadAdmin>>

LockTarget(c) ==
    LET x == call[c].target
    IN /\ call[c].pc = "begin"
       /\ lock[x] = None
       /\ IF x \in Users /\ role[x] = None
          THEN Goes(c, Idle) /\ UNCHANGED lock
          ELSE /\ Goes(c, [call[c] EXCEPT !.pc = "locked", !.old = IF x \in Users THEN role[x] ELSE @])
               /\ lock' = [lock EXCEPT ![x] = c]
       /\ UNCHANGED <<role, flag, audit, cached, faults, hadAdmin>>

\* SetSelfRole refuses an administrator by the row it locked, whatever role
\* the request was let in with.
RefuseOptIn(c) ==
    /\ call[c].pc = "locked" /\ call[c].kind = "self" /\ call[c].old = Admin
    /\ Rollback(c)
    /\ UNCHANGED faults

Demotes(c) == call[c].kind = "admin" /\ call[c].old = Admin /\ call[c].to # Admin

\* Last-admin protection: the statement finds the administrators of its start,
\* and locks each in turn; one that is none any more by then does not count.
StartScan(c) ==
    /\ call[c].pc = "locked" /\ Demotes(c)
    /\ Goes(c, [call[c] EXCEPT !.pc = "scan", !.scan = {u \in Users : role[u] = Admin}])
    /\ UNCHANGED <<role, flag, audit, lock, cached, faults, hadAdmin>>

\* Bug: administrators are counted without a lock.
CountAdmin(c, u) ==
    /\ call[c].pc = "scan" /\ u \in call[c].scan
    /\ Goes(c, [call[c] EXCEPT !.scan = @ \ {u}, !.admins = @ + 1])
    /\ UNCHANGED <<role, flag, audit, lock, cached, faults, hadAdmin>>

LockAdmin(c, u) ==
    /\ call[c].pc = "scan" /\ u \in call[c].scan
    /\ lock[u] \in {None, c}
    /\ Goes(c, [call[c] EXCEPT !.scan = @ \ {u},
                               !.admins = IF role[u] = Admin THEN @ + 1 ELSE @])
    /\ lock' = IF role[u] = Admin THEN [lock EXCEPT ![u] = c] ELSE lock
    /\ UNCHANGED <<role, flag, audit, cached, faults, hadAdmin>>

Scanned(c) == call[c].pc = "scan" /\ call[c].scan = {}

RefuseLastAdmin(c) ==
    /\ Scanned(c) /\ call[c].admins <= 1
    /\ Rollback(c)
    /\ UNCHANGED faults

\* The role and its audit row; equal roles of an administrator's change are not
\* written.
MayWriteRole(c) ==
    \/ Scanned(c) /\ call[c].admins > 1
    \/ call[c].pc = "locked" /\ call[c].kind = "self" /\ call[c].old # Admin
    \/ call[c].pc = "locked" /\ call[c].kind = "admin" /\ ~Demotes(c)

CommitRole(c) ==
    LET u == call[c].target IN
    /\ MayWriteRole(c)
    /\ role' = [role EXCEPT ![u] = call[c].to]
    /\ IF call[c].kind = "admin" /\ call[c].old = call[c].to THEN UNCHANGED audit
       ELSE Audited(<<[of |-> u, old |-> call[c].old, new |-> call[c].to]>>)
    /\ hadAdmin' = (hadAdmin \/ call[c].to = Admin)
    /\ Release(c)
    /\ Goes(c, [Idle EXCEPT !.pc = "evict", !.replica = call[c].replica, !.target = u])
    /\ UNCHANGED <<flag, cached, faults>>

\* The fields a patch leaves out are kept, and those it does not change are not
\* audited.
CommitFlag(c) ==
    LET patch == call[c].patch
        changed == {f \in DOMAIN patch : patch[f] # flag[f]}
    IN /\ call[c].pc = "locked" /\ call[c].kind = "flag"
       /\ flag' = [f \in Fields |-> IF f \in DOMAIN patch THEN patch[f] ELSE flag[f]]
       /\ Audited(SetToSeq({[of |-> f, old |-> flag[f], new |-> patch[f]] : f \in changed}))
       /\ Release(c)
       /\ Goes(c, Idle)
       /\ UNCHANGED <<role, cached, faults, hadAdmin>>

\* The replica that answers forgets the role it had cached.
Evict(c) ==
    /\ call[c].pc = "evict"
    /\ cached' = [cached EXCEPT ![call[c].replica][call[c].target] = None]
    /\ Goes(c, Idle)
    /\ UNCHANGED <<role, flag, audit, lock, faults, hadAdmin>>

\* PostgreSQL aborts one of several transactions that wait for each other.
Waits(c) == IF call[c].pc = "scan" THEN {lock[u] : u \in call[c].scan} \ {None, c}
            ELSE IF call[c].pc = "begin" THEN {lock[call[c].target]} \ {None} ELSE {}

Deadlocked(c) ==
    /\ \E D \in SUBSET Callers : c \in D /\ \A d \in D : Waits(d) \cap D # {}
    /\ Rollback(c)
    /\ UNCHANGED faults

Fails(c) ==
    /\ call[c].pc \in {"begin", "locked", "scan"}
    /\ faults < MaxFaults /\ faults' = faults + 1
    /\ Rollback(c)

Next ==
    \/ \E u \in Users : SignIn(u) \/ \E r \in Replicas : Check(r, u) \/ Expire(r, u)
    \/ \E c \in Callers :
          \/ \E r \in Replicas, u \in Users, to \in Offered :
                SetRole(c, r, u, to) \/ SetUserRole(c, r, u, to)
          \/ \E r \in Replicas, patch \in Patches : UpdateFlag(c, r, patch)
          \/ LockTarget(c) \/ RefuseOptIn(c) \/ StartScan(c)
          \/ \E u \in Users : LockAdmin(c, u)
          \/ RefuseLastAdmin(c) \/ CommitRole(c) \/ CommitFlag(c) \/ Evict(c)
          \/ Deadlocked(c) \/ Fails(c)

Spec == Init /\ [][Next]_vars

-----------------------------------------------------------------------------
(* Properties. *)

\* Whatever changes of role meet, and however old the roles are that requests
\* were let in with, a system that had an administrator has one.
AdminRemains == hadAdmin => \E u \in Users : role[u] = Admin

\* The first n rows of the log leave a role, or a field of the flag, at a value.
From(x) == IF x = "enabled" THEN 1 ELSE Standard
Leaves(n, x, value) ==
    \/ value = From(x) /\ \A i \in 1 .. n : audit[i].of # x
    \/ \E i \in 1 .. n : /\ audit[i].of = x /\ audit[i].new = value
                         /\ \A j \in i + 1 .. n : audit[j].of # x

\* The audit log tells the roles and flags as they became: each change starts
\* from what the one before it left, and the last left what is stored.  Only a
\* sign-in that pins an administrator leaves no row.
AuditTells ==
    \A x \in (Users \ Bootstrap) \cup Fields :
        LET is == IF x \in Fields THEN flag[x] ELSE role[x]
        IN /\ \A n \in DOMAIN audit : audit[n].of = x => Leaves(n - 1, x, audit[n].old)
           /\ is # None => Leaves(Len(audit), x, is)

=============================================================================
