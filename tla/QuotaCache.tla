------------------------------ MODULE QuotaCache ------------------------------
(***************************************************************************)
(* The balance of ONE account (the wallet of a user), which the program    *)
(* keeps in three places: the users row, a Redis hash that is the truth    *)
(* for reservations while it exists, and (batch mode) an in-memory store   *)
(* of deltas that a timer writes to the row.  model/quota_reserve.go,      *)
(* model/user.go, model/user_cache.go, model/utils.go; tokens follow the   *)
(* same scheme with their own hash.                                        *)
(*                                                                         *)
(* Each database statement, Lua script and store access is one step; calls *)
(* of any number of requests interleave.  The hash can disappear at any    *)
(* moment: its TTL runs from the last hydration, not from the last flush,  *)
(* and profile updates delete it.                                          *)
(***************************************************************************)
EXTENDS Integers, FiniteSets, Functions

CONSTANTS
    Ops,            \* calls that may be made, each at most once
    Kinds,          \* which operations are called
    Amounts,        \* quota amounts of a call (positive; 0 returns at once)
    InitQuota,
    Modes,          \* "batch": BATCH_UPDATE_ENABLED, "direct": not
    Faults          \* failures that may happen: "redis", "hydrate", "persist", "flush"

AllKinds == {"reserve", "credit", "debit", "topup", "refund", "read"}

ASSUME QuotaConstants ==
    /\ IsFiniteSet(Ops)
    /\ Kinds \subseteq AllKinds
    /\ Amounts \subseteq Nat \ {0}
    /\ InitQuota \in Nat
    /\ Modes \subseteq {"batch", "direct"}

VARIABLES
    mode,           \* the deployment's mode, fixed at the start
    db,             \* users.quota
    hash, quota,    \* the Redis hash is "live" or "gone"; its Quota field
    batch,          \* batchUpdateStores[BatchUpdateTypeUserQuota][id]
    flushing,       \* the store batchUpdate() swapped out and is writing
    op,             \* the calls: [pc, kind, amt, snap]
    job,            \* cache deltas handed to gopool and not yet applied
    truth,          \* ghost: balance implied by every accepted call
    unsaved,        \* ghost: reserved in the hash, not yet handed to db or batch
    lost,           \* ghost: deltas dropped with a batched update that failed
    drift,          \* ghost: by how much the hash is off for good, see Drifts
    worst           \* ghost: the most a reservation's balance was ever ahead

ghosts == <<drift, worst>>
vars == <<mode, db, hash, quota, batch, flushing, op, job, truth, unsaved, lost, ghosts>>

Pcs == {"idle", "reserve1", "hydrate", "fill", "reserve2", "dbReserve",
        "persist", "compensate", "apply", "commit", "sync",
        "done", "refused", "failed"}
Ended == {"done", "refused", "failed"}

Live == hash = "live"

TypeOK ==
    /\ mode \in {"batch", "direct"}
    /\ db \in Int
    /\ hash \in {"live", "gone"}
    /\ quota \in Int
    /\ batch \in Int
    /\ flushing \in Int
    /\ op \in [Ops -> [pc : Pcs, kind : AllKinds, amt : Nat, snap : Int]]
    /\ job \in [Ops -> Int]
    /\ truth \in Int
    /\ unsaved \in Int
    /\ lost \in Int
    /\ drift \in Int
    /\ worst \in Nat
    /\ ~Live => quota = 0      \* a missing hash has no Quota field

Init ==
    /\ mode \in Modes
    /\ db = InitQuota
    /\ hash \in {"live", "gone"}
    /\ quota = IF Live THEN InitQuota ELSE 0
    /\ batch = 0
    /\ flushing = 0
    /\ op = [o \in Ops |-> [pc |-> "idle", kind |-> "read", amt |-> 0, snap |-> 0]]
    /\ job = [o \in Ops |-> 0]
    /\ truth = InitQuota
    /\ unsaved = 0
    /\ lost = 0
    /\ drift = 0
    /\ worst = 0

-----------------------------------------------------------------------------
(* Building blocks. *)

Goto(o, pc) == op' = [op EXCEPT ![o].pc = pc]

\* Mutant: the credit is not put into the hash.
CacheDeltaLost(d) == UNCHANGED <<hash, quota>>

\* Mutant: a bare HINCRBY, which leaves a field behind in a missing hash.
CacheDeltaBare(d) == quota' = quota + d /\ UNCHANGED hash

\* userQuotaDeltaScript: a hash that does not exist is left alone.
CacheDelta(d) ==
    /\ quota' = IF Live THEN quota + d ELSE quota
    /\ UNCHANGED hash

\* Mutant: the delta is both queued and written.
SaveTwice(d) ==
    /\ batch' = IF mode = "batch" THEN batch + d ELSE batch
    /\ db' = db + d

\* addNewRecord in batch mode, otherwise UPDATE quota = quota + d.
Save(d) ==
    IF mode = "batch" THEN batch' = batch + d /\ UNCHANGED db
             ELSE db' = db + d /\ UNCHANGED batch

\* Mutant: hydration overwrites a Quota field that is already there.
FillOverwrites(q) == hash' = "live" /\ quota' = q

\* writeUserCache(user, includeQuota): Quota is set only when it is absent.
Fill(q) ==
    /\ hash' = "live"
    /\ quota' = IF Live THEN quota ELSE q

Larger(a, b) == IF a >= b THEN a ELSE b

\* What call o changes, or takes back, in the hash or the truth later than in
\* the other: the delta of its goroutine, the credit its transaction has
\* committed, less a settlement whose row update is still to come.
Delta(o) == IF op[o].kind = "debit" THEN -op[o].amt ELSE op[o].amt
Outstanding(o) ==
    job[o] + (IF op[o].pc = "sync" THEN op[o].amt ELSE 0)
           - (IF op[o].pc = "apply" THEN Delta(o) ELSE 0)
OutstandingOf == [o \in Ops |-> Outstanding(o)]
Owed == SumFunctionOnSet(OutstandingOf, Ops)

\* The hash is d further ahead of the account: it was not told of a reservation
\* on the row (d > 0) or of a credit (d < 0).  A new hash starts afresh.
Drifts(d) ==
    /\ drift' = IF Live THEN drift + d ELSE drift
    /\ UNCHANGED worst

-----------------------------------------------------------------------------
(* Calls. *)

\* A request, a settlement, a payment callback or a refund calls in.  The
\* goroutine of IncreaseUserQuota/DecreaseUserQuota is started before the row
\* or the store is touched.
Call(o, k, a) ==
    /\ op[o].pc = "idle"
    /\ op' = [op EXCEPT ![o] =
                 [pc |-> CASE k = "reserve" -> "reserve1"
                           [] k = "read" -> "hydrate"
                           [] k \in {"credit", "debit"} -> "apply"
                           [] k \in {"topup", "refund"} -> "commit",
                  kind |-> k, amt |-> a, snap |-> 0]]
    /\ job' = [job EXCEPT ![o] = CASE k = "credit" -> a
                                   [] k = "debit" -> -a
                                   [] OTHER -> 0]
    /\ UNCHANGED <<mode, db, hash, quota, batch, flushing, truth, unsaved, lost, ghosts>>

-----------------------------------------------------------------------------
(* TryReserveUserQuota. *)

\* userQuotaReserveScript found enough: the amount leaves the hash.
ReserveOk(o) ==
    /\ op[o].pc \in {"reserve1", "reserve2"}
    /\ Live
    /\ quota >= op[o].amt
    /\ quota' = quota - op[o].amt
    /\ truth' = truth - op[o].amt
    /\ unsaved' = unsaved + op[o].amt
    /\ Goto(o, "persist")
    /\ UNCHANGED <<mode, db, hash, batch, flushing, job, lost, ghosts>>

ReserveInsufficient(o) ==
    /\ op[o].pc \in {"reserve1", "reserve2"}
    /\ Live
    /\ quota < op[o].amt
    /\ Goto(o, "refused")
    /\ UNCHANGED <<mode, db, hash, quota, batch, flushing, job, truth, unsaved, lost, ghosts>>

\* A first miss hydrates, a second one falls back to the database.
ReserveMiss(o) ==
    /\ op[o].pc \in {"reserve1", "reserve2"}
    /\ ~Live
    /\ Goto(o, IF op[o].pc = "reserve1" THEN "hydrate" ELSE "dbReserve")
    /\ UNCHANGED <<mode, db, hash, quota, batch, flushing, job, truth, unsaved, lost, ghosts>>

ReserveRedisError(o) ==
    /\ "redis" \in Faults
    /\ op[o].pc \in {"reserve1", "reserve2"}
    /\ Goto(o, "dbReserve")
    /\ UNCHANGED <<mode, db, hash, quota, batch, flushing, job, truth, unsaved, lost, ghosts>>

\* reserveUserQuotaDB: UPDATE ... WHERE quota >= amount; the hash is not told.
DbReserve(o) ==
    /\ op[o].pc = "dbReserve"
    /\ IF db >= op[o].amt
       THEN /\ db' = db - op[o].amt
            /\ truth' = truth - op[o].amt
            /\ drift' = IF Live THEN drift + op[o].amt ELSE drift
            /\ worst' = Larger(Larger(worst, db - truth), drift')
            /\ Goto(o, "done")
       ELSE /\ Goto(o, "refused")
            /\ UNCHANGED <<db, truth, ghosts>>
    /\ UNCHANGED <<mode, hash, quota, batch, flushing, job, unsaved, lost>>

\* persistUserQuotaDelta(-amount).
Persist(o) ==
    /\ op[o].pc = "persist"
    /\ Save(-op[o].amt)
    /\ unsaved' = unsaved - op[o].amt
    /\ Goto(o, "done")
    /\ UNCHANGED <<mode, hash, quota, flushing, job, truth, lost, ghosts>>

\* The direct write fails, or the row is gone.
PersistError(o) ==
    /\ "persist" \in Faults
    /\ mode = "direct"
    /\ op[o].pc = "persist"
    /\ Goto(o, "compensate")
    /\ UNCHANGED <<mode, db, hash, quota, batch, flushing, job, truth, unsaved, lost, ghosts>>

\* The reservation is given back to the hash, if there still is one, and the
\* call fails.
Compensate(o) ==
    /\ op[o].pc = "compensate"
    /\ CacheDelta(op[o].amt)
    /\ truth' = truth + op[o].amt
    /\ unsaved' = unsaved - op[o].amt
    /\ Goto(o, "failed")
    /\ UNCHANGED <<mode, db, batch, flushing, job, lost, ghosts>>

\* The compensation fails, which is only logged.
CompensateError(o) ==
    /\ "redis" \in Faults
    /\ op[o].pc = "compensate"
    /\ truth' = truth + op[o].amt
    /\ unsaved' = unsaved - op[o].amt
    /\ Drifts(-op[o].amt)
    /\ Goto(o, "failed")
    /\ UNCHANGED <<mode, db, hash, quota, batch, flushing, job, lost>>

-----------------------------------------------------------------------------
(* GetUserCache: a read of the hash, a read of the row, a guarded write. *)

AfterHydrate(o) == IF op[o].kind = "read" THEN "done" ELSE "reserve2"

HydrateHit(o) ==
    /\ op[o].pc = "hydrate"
    /\ Live
    /\ Goto(o, AfterHydrate(o))
    /\ UNCHANGED <<mode, db, hash, quota, batch, flushing, job, truth, unsaved, lost, ghosts>>

HydrateRead(o) ==
    /\ op[o].pc = "hydrate"
    /\ ~Live \/ "redis" \in Faults
    /\ op' = [op EXCEPT ![o].pc = "fill", ![o].snap = db]
    /\ UNCHANGED <<mode, db, hash, quota, batch, flushing, job, truth, unsaved, lost, ghosts>>

\* GetUserById fails: a reservation goes on to the conditional update.
HydrateError(o) ==
    /\ "hydrate" \in Faults
    /\ op[o].pc = "hydrate"
    /\ ~Live
    /\ Goto(o, IF op[o].kind = "read" THEN "failed" ELSE "dbReserve")
    /\ UNCHANGED <<mode, db, hash, quota, batch, flushing, job, truth, unsaved, lost, ghosts>>

HydrateFill(o) ==
    /\ op[o].pc = "fill"
    /\ Fill(op[o].snap)
    /\ IF Live
       THEN UNCHANGED ghosts
       ELSE /\ drift' = op[o].snap + Owed - truth
            /\ worst' = Larger(worst, drift')
    /\ Goto(o, AfterHydrate(o))
    /\ UNCHANGED <<mode, db, batch, flushing, job, truth, unsaved, lost>>

\* populateUserCache fails and is only logged.
HydrateFillError(o) ==
    /\ "redis" \in Faults
    /\ op[o].pc = "fill"
    /\ Goto(o, AfterHydrate(o))
    /\ UNCHANGED <<mode, db, hash, quota, batch, flushing, job, truth, unsaved, lost, ghosts>>

-----------------------------------------------------------------------------
(* IncreaseUserQuota, DecreaseUserQuota: settlements and rollbacks. *)

Apply(o) ==
    /\ op[o].pc = "apply"
    /\ Save(Delta(o))
    /\ truth' = truth + Delta(o)
    /\ Goto(o, "done")
    /\ UNCHANGED <<mode, hash, quota, flushing, job, unsaved, lost, ghosts>>

ApplyError(o) ==
    /\ "persist" \in Faults
    /\ mode = "direct"
    /\ op[o].pc = "apply"
    /\ Drifts(Delta(o))
    /\ Goto(o, "failed")
    /\ UNCHANGED <<mode, db, hash, quota, batch, flushing, job, truth, unsaved, lost>>

\* The goroutine's cacheIncrUserQuota, at any time after the call.
CacheJob(o) ==
    /\ job[o] # 0
    /\ CacheDelta(job[o])
    /\ job' = [job EXCEPT ![o] = 0]
    /\ UNCHANGED <<mode, db, batch, flushing, op, truth, unsaved, lost, ghosts>>

CacheJobError(o) ==
    /\ "redis" \in Faults
    /\ job[o] # 0
    /\ Drifts(-job[o])
    /\ job' = [job EXCEPT ![o] = 0]
    /\ UNCHANGED <<mode, db, hash, quota, batch, flushing, op, truth, unsaved, lost>>

-----------------------------------------------------------------------------
(* Credits written by a transaction. *)

\* Top-up and redemption commit, then bring the hash up to date; the wallet
\* refund of a failed request (refundWalletQuota) only commits.
Commit(o) ==
    /\ op[o].pc = "commit"
    /\ db' = db + op[o].amt
    /\ truth' = truth + op[o].amt
    /\ Drifts(IF op[o].kind = "topup" THEN 0 ELSE -op[o].amt)
    /\ Goto(o, IF op[o].kind = "topup" THEN "sync" ELSE "done")
    /\ UNCHANGED <<mode, hash, quota, batch, flushing, job, unsaved, lost>>

\* syncCreditUserQuotaCache.
Sync(o) ==
    /\ op[o].pc = "sync"
    /\ CacheDelta(op[o].amt)
    /\ Goto(o, "done")
    /\ UNCHANGED <<mode, db, batch, flushing, job, truth, unsaved, lost, ghosts>>

SyncError(o) ==
    /\ "redis" \in Faults
    /\ op[o].pc = "sync"
    /\ Drifts(-op[o].amt)
    /\ Goto(o, "done")
    /\ UNCHANGED <<mode, db, hash, quota, batch, flushing, job, truth, unsaved, lost>>

-----------------------------------------------------------------------------
(* batchUpdate: swap the store under its lock, then write it.  The next     *)
(* round starts only after the writes (one goroutine, one loop).            *)

\* Mutant: only positive deltas count as data.
HasDataPositive == batch > 0

\* There is an entry for this account.
HasData == batch # 0

FlushSwap ==
    /\ HasData
    /\ flushing = 0
    /\ flushing' = batch
    /\ batch' = 0
    /\ UNCHANGED <<mode, db, hash, quota, op, job, truth, unsaved, lost, ghosts>>

\* updateUserQuotaUsedQuotaAndRequestCount.
FlushWrite ==
    /\ flushing # 0
    /\ db' = db + flushing
    /\ flushing' = 0
    /\ UNCHANGED <<mode, hash, quota, batch, op, job, truth, unsaved, lost, ghosts>>

\* The update fails: it is logged and the deltas are gone.
FlushError ==
    /\ "flush" \in Faults
    /\ flushing # 0
    /\ flushing' = 0
    /\ lost' = lost + flushing
    /\ UNCHANGED <<mode, db, hash, quota, batch, op, job, truth, unsaved, ghosts>>

-----------------------------------------------------------------------------
(* The hash disappears: TTL or invalidateUserCache, whoever is at work. *)

Evict ==
    /\ Live
    /\ hash' = "gone"
    /\ quota' = 0
    /\ drift' = 0
    /\ UNCHANGED <<mode, db, batch, flushing, op, job, truth, unsaved, lost, worst>>

-----------------------------------------------------------------------------
Step(o) ==
    \/ ReserveOk(o) \/ ReserveInsufficient(o) \/ ReserveMiss(o) \/ ReserveRedisError(o)
    \/ DbReserve(o) \/ Persist(o) \/ PersistError(o)
    \/ Compensate(o) \/ CompensateError(o)
    \/ HydrateHit(o) \/ HydrateRead(o) \/ HydrateError(o)
    \/ HydrateFill(o) \/ HydrateFillError(o)
    \/ Apply(o) \/ ApplyError(o)
    \/ Commit(o) \/ Sync(o) \/ SyncError(o)

RunJob(o) == CacheJob(o) \/ CacheJobError(o)
Flush == FlushSwap \/ FlushWrite \/ FlushError

Next ==
    \/ \E o \in Ops :
          \/ \E k \in Kinds, a \in Amounts : Call(o, k, a)
          \/ Step(o)
          \/ RunJob(o)
    \/ Flush
    \/ Evict

Spec == Init /\ [][Next]_vars

\* A started call runs to its end, goroutines run, the timer keeps firing.
FairSpec ==
    /\ Spec
    /\ \A o \in Ops : WF_vars(Step(o)) /\ WF_vars(RunJob(o))
    /\ WF_vars(Flush)

-----------------------------------------------------------------------------
(* Properties. *)

\* Reservations never take out more than the account ever held: the comment
\* of TryReserveUserQuota says that going by the cached balance keeps the outdated
\* row of batch mode from multiplying over-deduction, PreConsumeTokenQuota that
\* concurrent requests cannot both pass the check and over-deduct.
NoOverspend == truth >= 0

\* What is left of that promise when the hash may disappear under pending
\* deltas: as long as no settlement has run, which charges unconditionally, an
\* account is overspent by no more than a single balance was ahead of it (a hash
\* hydrated from a row that missed reservations, a row checked while deltas were
\* pending, a hash not told of a reservation on the row).  Concurrency and
\* repeated expiry do not add up.
NoSettlement == \A o \in Ops : op[o].kind \notin {"credit", "debit"}
OverspendBounded == NoSettlement => truth + worst >= 0

\* Once every call and goroutine has ended, the balance that reservations are
\* checked against is the balance the calls add up to, up to what this hash was
\* off by when it was hydrated and the changes it was not told of: wallet
\* refunds, reservations on the row, settlements the row refused and deltas Redis
\* refused.  No other credit is invisible and none is counted twice.
AtRest == \A o \in Ops : op[o].pc \in Ended \cup {"idle"} /\ job[o] = 0
CacheAgrees == Live /\ AtRest => quota = truth + drift

\* Row, pending deltas and the deltas being written always add up to what the
\* accepted calls changed, whatever Redis does and whenever batchUpdate swaps
\* the store under a concurrent addNewRecord; a batched update that fails loses
\* its own deltas and nothing else.
LedgerConserved == db + batch + flushing - unsaved + lost = truth

\* Every accepted change reaches the row, unless its batched update fails: the
\* account is written down for good once the calls stop.
EventuallyDurable == <>[](db + lost = truth)
=============================================================================
