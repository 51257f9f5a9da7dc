----------------------------- MODULE TokenStore -----------------------------
(***************************************************************************)
(* The Bungie tokens of one membership: the replicas' memories, the one    *)
(* database row they share, and Bungie's token endpoint, whose refresh     *)
(* tokens are exchanged for new ones and then spent.                       *)
(*                                                                         *)
(* Tokens are the number of the grant that Bungie issued them with.  Time  *)
(* is two sets: the grants whose access token still counts as valid, and   *)
(* those with an unexpired refresh token, which only matters once the      *)
(* access token has expired: a public client, given none, holds one that   *)
(* lapses at once.  Each grant is written to the row once at most, so the  *)
(* row's updated_at is told apart by the grant in it, and what a caller    *)
(* keeps of dbUpdatedAt is whether it is set.  An unreadable row counts as *)
(* absent.                                                                 *)
(***************************************************************************)
EXTENDS Naturals

CONSTANTS Replicas,     \* processes, each with a TokenStore
          Callers,      \* goroutines in a call of one of them
          None,         \* no tokens, or no caller
          MaxGrants,    \* bound: grants issued in a run
          MaxFaults     \* bound: crashes, failed writes and lost answers in a run

VARIABLES
    issued,      \* how many grants Bungie has issued
    valid,       \* grants with an unexpired access token
    renewable,   \* grants with an unexpired refresh token
    spent,       \* grants whose refresh token has been exchanged
    row,         \* the grant in bungie_tokens, or None
    mem,         \* per replica, TokenStore.tokens: a grant and whether it is from the row
    userMu,      \* per replica, the caller that holds the membership's refresh lock
    call,        \* per caller, where it is
    faults,      \* how many faults there have been
    disturbed    \* history: a fault or a sign-out may have cost the last grant

bungieVars == <<issued, valid, renewable, spent>>
vars == <<bungieVars, row, mem, userMu, call, faults, disturbed>>

Grants == 1 .. MaxGrants
Tokens == [grant: Grants, durable: BOOLEAN]

Idle == [pc |-> "idle", on |-> None, held |-> None, new |-> None]

TypeOK ==
    /\ issued \in 0 .. MaxGrants
    /\ renewable \cup valid \in SUBSET (1 .. issued)
    /\ spent \in SUBSET (1 .. issued)
    /\ row \in (1 .. issued) \cup {None}
    /\ mem \in [Replicas -> Tokens \cup {None}]
    /\ userMu \in [Replicas -> Callers \cup {None}]
    /\ call \in [Callers ->
          [pc: {"idle", "load", "cache", "lock", "exchange", "persist", "reconcile",
                "overwrite", "adopt", "remember", "signIn", "deleteRow"},
           on: Replicas \cup {None}, held: Tokens \cup {None}, new: Tokens \cup {None}]]
    /\ faults \in 0 .. MaxFaults
    /\ disturbed \in BOOLEAN

Init ==
    /\ issued = 0
    /\ valid = {} /\ renewable = {} /\ spent = {}
    /\ row = None
    /\ mem = [r \in Replicas |-> None]
    /\ userMu = [r \in Replicas |-> None]
    /\ call = [c \in Callers |-> Idle]
    /\ faults = 0 /\ disturbed = FALSE

-----------------------------------------------------------------------------
(* Bungie, and time. *)

\* A grant is answered.
Issue ==
    /\ issued < MaxGrants
    /\ issued' = issued + 1
    /\ valid' = valid \cup {issued + 1}
    /\ renewable' = renewable \cup {issued + 1}

\* A token outlives the call that brings it: an hour against timeouts of seconds.
Age(g) ==
    /\ g \in valid
    /\ \A c \in Callers : call[c].new # None => call[c].new.grant # g
    /\ valid' = valid \ {g}
    /\ UNCHANGED <<issued, renewable, spent, row, mem, userMu, call, faults, disturbed>>

Lapse(g) ==
    /\ g \in renewable \ valid
    /\ renewable' = renewable \ {g}
    /\ UNCHANGED <<issued, valid, spent, row, mem, userMu, call, faults, disturbed>>

\* Something goes wrong that may cost the only copy of a grant.
Fault ==
    /\ faults < MaxFaults
    /\ faults' = faults + 1
    /\ disturbed' = TRUE

-----------------------------------------------------------------------------
(* Where a call goes next. *)

Goes(c, next) == call' = [call EXCEPT ![c] = next]

\* It returns, and the deferred Unlock runs.
Returns(c) ==
    /\ Goes(c, Idle)
    /\ userMu' = [userMu EXCEPT ![call[c].on] = IF @ = c THEN None ELSE @]

NeedsRefresh(t) == t # None /\ t.grant \in renewable \ valid

\* GetValidToken: tokens in memory are answered, refused or refreshed; a miss
\* goes to the database.
Ask(c, r) ==
    /\ call[c] = Idle
    /\ mem[r] # None => NeedsRefresh(mem[r])
    /\ Goes(c, [Idle EXCEPT !.on = r, !.pc = IF mem[r] = None THEN "load" ELSE "lock"])
    /\ UNCHANGED <<bungieVars, row, mem, userMu, faults, disturbed>>

\* loadFromDB, at a memory miss: no row and a failed read both end the call.
Load(c) ==
    /\ call[c].pc = "load"
    /\ \/ /\ row # None
          /\ Goes(c, [call[c] EXCEPT !.pc = "cache", !.held = [grant |-> row, durable |-> TRUE]])
       \/ Goes(c, Idle)
    /\ UNCHANGED <<bungieVars, row, mem, userMu, faults, disturbed>>

\* What was loaded goes to memory, whatever is there by now.
Cache(c) ==
    /\ call[c].pc = "cache"
    /\ mem' = [mem EXCEPT ![call[c].on] = call[c].held]
    /\ Goes(c, IF NeedsRefresh(call[c].held) THEN [call[c] EXCEPT !.pc = "lock", !.held = None]
               ELSE Idle)
    /\ UNCHANGED <<bungieVars, row, userMu, faults, disturbed>>

\* Under the lock memory is read again: someone may have refreshed by now.
Lock(c) ==
    LET r == call[c].on
        t == mem[r]
    IN /\ call[c].pc = "lock"
       /\ userMu[r] = None
       /\ IF NeedsRefresh(t)
          THEN /\ userMu' = [userMu EXCEPT ![r] = c]
               /\ Goes(c, [call[c] EXCEPT !.pc = "exchange", !.held = t])
          ELSE Goes(c, Idle) /\ UNCHANGED userMu
       /\ UNCHANGED <<bungieVars, row, mem, faults, disturbed>>

-----------------------------------------------------------------------------
(* The refresh, under the lock. *)

Spend(c) == spent' = spent \cup {call[c].held.grant}

\* The refresh token is exchanged.  Of one that is spent already Bungie may
\* still answer with a grant, or refuse it.
Exchange(c) ==
    /\ call[c].pc = "exchange"
    /\ Issue
    /\ Spend(c)
    /\ Goes(c, [call[c] EXCEPT !.pc = "persist",
                               !.new = [grant |-> issued + 1, durable |-> FALSE]])
    /\ UNCHANGED <<row, mem, userMu, faults, disturbed>>

\* The grant is refused, or Bungie is not reached.
Refuse(c) ==
    /\ call[c].pc = "exchange"
    /\ Returns(c)
    /\ UNCHANGED <<bungieVars, row, mem, faults, disturbed>>

\* It is accepted, and the answer is lost.
LoseAnswer(c) ==
    /\ call[c].pc = "exchange"
    /\ Fault
    /\ Spend(c)
    /\ Returns(c)
    /\ UNCHANGED <<issued, valid, renewable, row, mem>>

\* persist, and the row's compare-and-swap: an insert meets no condition, nor
\* does a write on behalf of tokens that are not from the row.
\* Bugs: the row is written whatever is in it; it is not written at all.
SwapsAlways(held) == TRUE
Swaps(held) == row \in {None, held.grant} \/ ~held.durable

Unwritten(c, next) ==
    /\ Goes(c, [call[c] EXCEPT !.pc = next, !.new.durable = TRUE])
    /\ UNCHANGED row
Written(c, next) ==
    /\ row' = call[c].new.grant
    /\ Goes(c, [call[c] EXCEPT !.pc = next, !.new.durable = TRUE])

Persist(c) ==
    /\ call[c].pc = "persist"
    /\ IF Swaps(call[c].held) THEN Written(c, "remember")
       ELSE Goes(c, [call[c] EXCEPT !.pc = "reconcile"]) /\ UNCHANGED row
    /\ UNCHANGED <<bungieVars, mem, userMu, faults, disturbed>>

\* A lost swap reads the row: tokens that are valid are adopted; of others the
\* new ones take the place; if the read fails the new ones stay in memory.
Reconcile(c) ==
    /\ call[c].pc = "reconcile"
    /\ \/ /\ row \in valid
          /\ Goes(c, [call[c] EXCEPT !.pc = "adopt", !.held = [grant |-> row, durable |-> TRUE]])
       \/ row \notin valid /\ Goes(c, [call[c] EXCEPT !.pc = "overwrite"])
       \/ Goes(c, [call[c] EXCEPT !.pc = "remember"])
    /\ UNCHANGED <<bungieVars, row, mem, userMu, faults, disturbed>>

Overwrite(c) ==
    /\ call[c].pc = "overwrite"
    /\ Written(c, "remember")
    /\ UNCHANGED <<bungieVars, mem, userMu, faults, disturbed>>

\* A write of a refresh fails: the call goes on.
WriteFails(c) ==
    /\ call[c].pc \in {"persist", "overwrite"}
    /\ Fault
    /\ Goes(c, [call[c] EXCEPT !.pc = "remember"])
    /\ UNCHANGED <<bungieVars, row, mem, userMu>>

Adopt(c) ==
    /\ call[c].pc = "adopt"
    /\ mem' = [mem EXCEPT ![call[c].on] = call[c].held]
    /\ Returns(c)
    /\ UNCHANGED <<bungieVars, row, faults, disturbed>>

Remember(c) ==
    /\ call[c].pc = "remember"
    /\ mem' = [mem EXCEPT ![call[c].on] = call[c].new]
    /\ Returns(c)
    /\ UNCHANGED <<bungieVars, row, faults, disturbed>>

-----------------------------------------------------------------------------
(* Sign-in, reconnection, sign-out, and the process. *)

\* An authorization code is exchanged, and the grant written to the row.
SignIn(c, r) ==
    /\ call[c] = Idle
    /\ Issue
    /\ Goes(c, [Idle EXCEPT !.on = r, !.pc = "signIn",
                            !.new = [grant |-> issued + 1, durable |-> FALSE]])
    /\ UNCHANGED <<spent, row, mem, userMu, faults, disturbed>>

StoreRow(c) ==
    /\ call[c].pc = "signIn"
    /\ Written(c, "remember")
    /\ UNCHANGED <<bungieVars, mem, userMu, faults, disturbed>>

\* The write fails: a sign-in (Store) keeps the tokens in memory, a
\* reconnection (StoreConfirmed) fails and leaves memory as it was.
StoreRowFails(c) ==
    /\ call[c].pc = "signIn"
    /\ Fault
    /\ Goes(c, [call[c] EXCEPT !.pc = "remember"]) \/ Goes(c, Idle)
    /\ UNCHANGED <<bungieVars, row, mem, userMu>>

\* Delete: memory, then the row, whose deletion may fail.
SignOut(c, r) ==
    /\ call[c] = Idle
    /\ mem[r] # None \/ row # None
    /\ mem' = [mem EXCEPT ![r] = None]
    /\ Goes(c, [Idle EXCEPT !.on = r, !.pc = "deleteRow"])
    /\ disturbed' = TRUE
    /\ UNCHANGED <<bungieVars, row, userMu, faults>>

DeleteRow(c) ==
    /\ call[c].pc = "deleteRow"
    /\ row' \in {row, None}
    /\ Goes(c, Idle)
    /\ UNCHANGED <<bungieVars, mem, userMu, faults, disturbed>>

\* cleanupLoop
CleanUp(r) ==
    /\ mem[r] # None
    /\ mem[r].grant \notin valid \cup renewable
    /\ mem' = [mem EXCEPT ![r] = None]
    /\ UNCHANGED <<bungieVars, row, userMu, call, faults, disturbed>>

\* The process ends, with its memory and its calls, and starts anew.
Restart(r) ==
    /\ Fault
    /\ mem' = [mem EXCEPT ![r] = None]
    /\ userMu' = [userMu EXCEPT ![r] = None]
    /\ call' = [c \in Callers |-> IF call[c].on = r THEN Idle ELSE call[c]]
    /\ UNCHANGED <<bungieVars, row>>

\* What a call does next once it is under way.
Step(c) ==
    \/ Lock(c) \/ Load(c) \/ Cache(c)
    \/ Exchange(c) \/ Refuse(c) \/ LoseAnswer(c)
    \/ Persist(c) \/ Reconcile(c) \/ Overwrite(c) \/ WriteFails(c)
    \/ Adopt(c) \/ Remember(c)
    \/ StoreRow(c) \/ StoreRowFails(c) \/ DeleteRow(c)

Next ==
    \/ \E g \in Grants : Age(g) \/ Lapse(g)
    \/ \E c \in Callers, r \in Replicas : Ask(c, r) \/ SignIn(c, r) \/ SignOut(c, r)
    \/ \E c \in Callers : Step(c)
    \/ \E r \in Replicas : CleanUp(r) \/ Restart(r)

Spec == Init /\ [][Next]_vars

-----------------------------------------------------------------------------
(* Properties. *)

\* The grants somebody still has.
HeldGrants ==
    {row} \cup {mem[r].grant : r \in {s \in Replicas : mem[s] # None}}
          \cup {call[c].new.grant : c \in {d \in Callers : call[d].new # None}}
          \cup {call[c].held.grant : c \in {d \in Callers : call[d].held # None}}

\* The player stays connected: barring faults and sign-outs, some replica, call
\* or the row holds tokens whose refresh token nobody has spent, however the
\* refreshes of two replicas and late loads of the row interleave.
ConnectionKept ==
    issued > 0 /\ ~disturbed => ~(HeldGrants \subseteq spent \cup {None})

\* A refresh puts older tokens over newer ones only on the two paths that skip
\* the comparison: after reading the winner's row as expired, and for tokens
\* that are not from the row.
RefreshNeverStepsBack ==
    [][ \A c \in Callers :
          call[c].pc = "persist" /\ call[c].held.durable /\ row # None /\ row' # row
          /\ call'[c] # call[c] => row' > row ]_vars

\* "Per-user mutex ensures only one refresh call fires at a time for the same
\* user, preventing double-refresh races where the second call would use an
\* already-consumed token": where one process runs and no answer is lost, it
\* never presents a refresh token that it has exchanged before.
NeverReplaysItsOwn ==
    \A c \in Callers : call[c].pc = "exchange" => call[c].held.grant \notin spent

=============================================================================
