--------------------------- MODULE QuotaCacheProofs ---------------------------
(***************************************************************************)
(* Proofs about QuotaCache for any number of calls, any amounts and any    *)
(* initial balance.                                                        *)
(***************************************************************************)
EXTENDS QuotaCache, SetSums, TLAPS

-----------------------------------------------------------------------------
(* Types. *)

OutstandingTyped ==
  \A o \in Ops : OutstandingOf[o] = Outstanding(o) /\ Outstanding(o) \in Int

LEMMA OutstandingInt == TypeOK => OutstandingTyped
  BY DEF OutstandingTyped, TypeOK, Outstanding, OutstandingOf, Delta

LEMMA OwedInt == TypeOK => Owed \in Int
  BY OutstandingInt, SumInt, QuotaConstants DEF OutstandingTyped, Owed

LEMMA TypeInit == Init => TypeOK
  BY QuotaConstants DEF Init, TypeOK, Pcs, AllKinds, Live

LEMMA TypeNext == TypeOK /\ [Next]_vars => TypeOK'
<1> SUFFICES ASSUME TypeOK, [Next]_vars PROVE TypeOK'
  OBVIOUS
<1>0. Owed \in Int
  BY OwedInt
<1> USE DEF TypeOK, Pcs, Goto, Live, ghosts, Drifts
<1>1. ASSUME NEW o \in Ops, NEW k \in Kinds, NEW a \in Amounts, Call(o, k, a)
      PROVE TypeOK'
  <2>1. k \in AllKinds /\ a \in Nat
    BY QuotaConstants
  <2> QED
    BY <1>1, <2>1 DEF Call, AllKinds
<1>2. ASSUME NEW o \in Ops, Step(o) PROVE TypeOK'
  <2>1. CASE ReserveOk(o)
    BY <2>1 DEF ReserveOk
  <2>2. CASE ReserveInsufficient(o) \/ ReserveMiss(o) \/ ReserveRedisError(o)
    BY <2>2 DEF ReserveInsufficient, ReserveMiss, ReserveRedisError
  <2>3. CASE DbReserve(o)
    BY <2>3 DEF DbReserve, Larger
  <2>4. CASE Persist(o)
    BY <2>4 DEF Persist, Save
  <2>5. CASE PersistError(o) \/ HydrateError(o) \/ HydrateFillError(o) \/ ApplyError(o) \/ SyncError(o)
    BY <2>5 DEF PersistError, HydrateError, HydrateFillError, ApplyError, SyncError, AfterHydrate, Delta
  <2>6. CASE Compensate(o) \/ CompensateError(o)
    BY <2>6 DEF Compensate, CompensateError, CacheDelta
  <2>7. CASE HydrateHit(o) \/ HydrateRead(o)
    BY <2>7 DEF HydrateHit, HydrateRead, AfterHydrate
  <2>10. CASE HydrateFill(o)
    BY <2>10, <1>0 DEF HydrateFill, Fill, AfterHydrate, Larger
  <2>8. CASE Apply(o)
    BY <2>8 DEF Apply, Save, Delta
  <2>9. CASE Commit(o) \/ Sync(o)
    BY <2>9 DEF Commit, Sync, CacheDelta
  <2> QED
    BY <1>2, <2>1, <2>2, <2>3, <2>4, <2>5, <2>6, <2>7, <2>8, <2>9, <2>10 DEF Step
<1>3. ASSUME NEW o \in Ops, RunJob(o) PROVE TypeOK'
  BY <1>3 DEF RunJob, CacheJob, CacheJobError, CacheDelta
<1>4. CASE Flush
  BY <1>4 DEF Flush, FlushSwap, FlushWrite, FlushError
<1>5. CASE Evict
  BY <1>5 DEF Evict
<1>6. CASE UNCHANGED vars
  BY <1>6 DEF vars
<1> QED
  BY <1>1, <1>2, <1>3, <1>4, <1>5, <1>6 DEF Next

\* The balance and the calls stay well formed, and a hash that is gone leaves no
\* Quota field behind.
THEOREM QuotaTypeCorrect == Spec => []TypeOK
  BY TypeInit, TypeNext, PTL DEF Spec

-----------------------------------------------------------------------------
(* Conservation. *)

LEMMA LedgerNext ==
  ASSUME TypeOK, LedgerConserved, [Next]_vars
  PROVE  LedgerConserved'
<1> USE DEF TypeOK, LedgerConserved
<1>1. ASSUME NEW o \in Ops, NEW k \in Kinds, NEW a \in Amounts, Call(o, k, a)
      PROVE LedgerConserved'
  BY <1>1 DEF Call
<1>2. ASSUME NEW o \in Ops, Step(o) PROVE LedgerConserved'
  <2>1. CASE ReserveOk(o) \/ DbReserve(o) \/ Commit(o)
    BY <2>1 DEF ReserveOk, DbReserve, Commit
  <2>2. CASE Persist(o) \/ Apply(o)
    BY <2>2 DEF Persist, Apply, Save, Delta
  <2>3. CASE Compensate(o) \/ CompensateError(o)
    BY <2>3 DEF Compensate, CompensateError
  <2>4. CASE \/ ReserveInsufficient(o) \/ ReserveMiss(o) \/ ReserveRedisError(o)
             \/ PersistError(o) \/ HydrateHit(o) \/ HydrateRead(o) \/ HydrateError(o)
             \/ HydrateFill(o) \/ HydrateFillError(o) \/ ApplyError(o)
             \/ Sync(o) \/ SyncError(o)
    BY <2>4 DEF ReserveInsufficient, ReserveMiss, ReserveRedisError, PersistError,
                HydrateHit, HydrateRead, HydrateError, HydrateFill, HydrateFillError,
                ApplyError, Sync, SyncError
  <2> QED
    BY <1>2, <2>1, <2>2, <2>3, <2>4 DEF Step
<1>3. ASSUME NEW o \in Ops, RunJob(o) PROVE LedgerConserved'
  BY <1>3 DEF RunJob, CacheJob, CacheJobError
<1>4. CASE Flush
  BY <1>4 DEF Flush, FlushSwap, FlushWrite, FlushError
<1>5. CASE Evict
  BY <1>5 DEF Evict
<1>6. CASE UNCHANGED vars
  BY <1>6 DEF vars
<1> QED
  BY <1>1, <1>2, <1>3, <1>4, <1>5, <1>6 DEF Next

\* No change of the balance is lost or applied twice between the hash, the
\* in-memory store and the row, whatever Redis does and whenever the store is
\* swapped; a batched update that the database rejects loses its own deltas and
\* nothing else.
THEOREM ChangesConserved == Spec => []LedgerConserved
<1>1. Init => LedgerConserved
  BY QuotaConstants DEF Init, LedgerConserved
<1>2. TypeOK /\ LedgerConserved /\ [Next]_vars => LedgerConserved'
  BY LedgerNext
<1> QED
  BY <1>1, <1>2, TypeInit, TypeNext, PTL DEF Spec

-----------------------------------------------------------------------------
(* The hash against the accepted calls. *)

\* Only a settlement starts a goroutine, and only a new call.
CallsSound ==
  \A o \in Ops :
    /\ op[o].pc = "idle" => job[o] = 0 /\ op[o].kind = "read"
    /\ op[o].pc = "apply" \/ job[o] # 0 => op[o].kind \in {"credit", "debit"}

\* The hash and what the calls still owe it make up the account, up to the drift.
Balanced == quota + Owed = truth + drift

HashInv == TypeOK /\ CallsSound /\ (Live => Balanced)

\* A balance q with a sum n outstanding, one summand of which goes from b to c.
Follows(q, q2, t, t2) ==
  \A n, m, b, c \in Int :
    q + n = t /\ m = n + c - b /\ q2 + c - t2 = q + b - t => q2 + m = t2

LEMMA BalanceFollows ==
  ASSUME NEW q \in Int, NEW q2 \in Int, NEW t \in Int, NEW t2 \in Int
  PROVE  Follows(q, q2, t, t2)
  BY DEF Follows

\* The hash balances again after a step of one call that moves the hash, the
\* account and what the call has outstanding consistently.
LEMMA OneCallMoves ==
  ASSUME TypeOK, TypeOK', NEW o \in Ops, Balanced,
         \A x \in Ops \ {o} : Outstanding(x)' = Outstanding(x),
         quota' + Outstanding(o)' - (truth' + drift') = quota + Outstanding(o) - (truth + drift)
  PROVE  Balanced'
<1> DEFINE t == truth + drift
           t2 == truth' + drift'
<1>1. OutstandingTyped
  BY OutstandingInt
<1>2. TypeOK' => OutstandingTyped'
  BY OutstandingInt, PTL
<1>3. \A x \in Ops : OutstandingOf'[x] = Outstanding(x)' /\ Outstanding(x)' \in Int
  BY <1>2 DEF OutstandingTyped
<1>4. \A x \in Ops : OutstandingOf[x] = Outstanding(x) /\ Outstanding(x) \in Int
  BY <1>1 DEF OutstandingTyped
<1>5. quota \in Int /\ t \in Int /\ quota' \in Int /\ t2 \in Int
  BY DEF TypeOK
<1>6. /\ SumFunctionOnSet(OutstandingOf, Ops) \in Int
      /\ SumFunctionOnSet(OutstandingOf', Ops)
           = SumFunctionOnSet(OutstandingOf, Ops) + OutstandingOf'[o] - OutstandingOf[o]
  BY <1>3, <1>4, SumChange, QuotaConstants
<1>7. /\ OutstandingOf'[o] = Outstanding(o)' /\ OutstandingOf[o] = Outstanding(o)
      /\ Outstanding(o) \in Int /\ Outstanding(o)' \in Int
  BY <1>3, <1>4
<1>8. SumFunctionOnSet(OutstandingOf', Ops)
        = SumFunctionOnSet(OutstandingOf, Ops) + Outstanding(o)' - Outstanding(o)
  BY <1>6, <1>7
<1>9. SumFunctionOnSet(OutstandingOf', Ops) \in Int
  BY <1>6, <1>7, <1>8
<1>10. quota + SumFunctionOnSet(OutstandingOf, Ops) = t
  BY DEF Balanced, Owed
<1>11. Follows(quota, quota', t, t2)
  BY <1>5, BalanceFollows
<1>12. quota' + Outstanding(o)' - t2 = quota + Outstanding(o) - t
  OBVIOUS
<1> HIDE DEF t, t2
<1>13. \A m \in Int : m = SumFunctionOnSet(OutstandingOf, Ops) + Outstanding(o)' - Outstanding(o)
          => quota' + m = t2
  BY <1>6, <1>7, <1>10, <1>11, <1>12, Zenon DEF Follows
<1>14. quota' + SumFunctionOnSet(OutstandingOf', Ops) = t2
  BY <1>8, <1>9, <1>13, Zenon
<1> QED
  BY <1>14, Zenon DEF Balanced, Owed, t2

\* Nothing a call waits for, the hash or the account changes.
LEMMA NoCallMoves ==
  ASSUME UNCHANGED <<quota, truth, drift>>, Balanced,
         \A x \in Ops : Outstanding(x)' = Outstanding(x)
  PROVE  Balanced'
  BY DEF Balanced, Owed, OutstandingOf

LEMMA HashInit == Init => HashInv
<1> SUFFICES ASSUME Init PROVE HashInv
  OBVIOUS
<1>1. TypeOK
  BY TypeInit
<1>2. CallsSound
  BY DEF Init, CallsSound
<1>3. \A o \in Ops : OutstandingOf[o] = 0
  BY DEF Init, OutstandingOf, Outstanding
<1>4. Owed = 0
  BY <1>3, SumZero, QuotaConstants DEF Owed
<1>5. Live => quota = truth /\ quota \in Int /\ drift = 0
  BY QuotaConstants DEF Init
<1> QED
  BY <1>1, <1>2, <1>4, <1>5 DEF HashInv, Balanced

\* What one step of call o that leaves the hash in place has to show.
LEMMA HashStep ==
  ASSUME HashInv, TypeOK', NEW o \in Ops, UNCHANGED hash,
         \A x \in Ops \ {o} : op'[x] = op[x] /\ job'[x] = job[x],
         op'[o].pc # "idle",
         op'[o].pc = "apply" \/ job'[o] # 0 => op'[o].kind \in {"credit", "debit"},
         Live => quota' + Outstanding(o)' - (truth' + drift')
                   = quota + Outstanding(o) - (truth + drift)
  PROVE  HashInv'
<1>1. \A x \in Ops \ {o} : Outstanding(x)' = Outstanding(x)
  BY DEF Outstanding, Delta
<1>2. Live => Balanced'
  BY <1>1, OneCallMoves DEF HashInv
<1>3. CallsSound'
  BY DEF CallsSound, HashInv
<1> QED
  BY <1>2, <1>3 DEF HashInv, Live

LEMMA HashNext ==
  ASSUME HashInv, [Next]_vars
  PROVE  HashInv'
<1>1. TypeOK /\ TypeOK'
  BY TypeNext DEF HashInv
<1>2. CallsSound
  BY DEF HashInv
<1> USE <1>1, <1>2 DEF Goto, Live, Outstanding, Delta, ghosts, Drifts
<1>3. ASSUME NEW o \in Ops, NEW k \in Kinds, NEW a \in Amounts, Call(o, k, a)
      PROVE  HashInv'
  <2>1. k \in AllKinds /\ a \in Nat /\ a # 0
    BY QuotaConstants
  <2>2. op[o].pc = "idle" /\ job[o] = 0
    BY <1>3 DEF Call, CallsSound
  <2>3. \A x \in Ops \ {o} : op'[x] = op[x] /\ job'[x] = job[x]
    BY <1>3 DEF Call, TypeOK
  <2>4. /\ op'[o].pc \notin {"idle", "sync"}
        /\ op'[o].pc = "apply" => k \in {"credit", "debit"}
        /\ k \in {"credit", "debit"} => op'[o].pc = "apply"
        /\ op'[o].kind = k /\ op'[o].amt = a
    BY <1>3, <2>1 DEF Call, TypeOK, AllKinds
  <2>5. job'[o] = CASE k = "credit" -> a [] k = "debit" -> -a [] OTHER -> 0
    BY <1>3 DEF Call, TypeOK
  <2>6. Outstanding(o)' = 0 /\ Outstanding(o) = 0
    BY <2>1, <2>2, <2>4, <2>5
  <2>7. UNCHANGED <<hash, quota, truth, drift>>
    BY <1>3 DEF Call
  <2>8. job'[o] # 0 => k \in {"credit", "debit"}
    BY <2>5
  <2> QED
    BY <2>3, <2>4, <2>6, <2>7, <2>8, HashStep
<1>4. ASSUME NEW o \in Ops, Step(o) PROVE HashInv'
  <2>1. CASE ReserveOk(o)
    BY <2>1, HashStep DEF ReserveOk, TypeOK, CallsSound
  <2>2. CASE ReserveInsufficient(o) \/ ReserveMiss(o) \/ ReserveRedisError(o)
    BY <2>2, HashStep DEF ReserveInsufficient, ReserveMiss, ReserveRedisError, TypeOK, CallsSound
  <2>3. CASE Persist(o)
    BY <2>3, HashStep DEF Persist, TypeOK, CallsSound
  <2>4. CASE PersistError(o)
    BY <2>4, HashStep DEF PersistError, TypeOK, CallsSound
  <2>5. CASE Compensate(o) \/ CompensateError(o)
    BY <2>5, HashStep DEF Compensate, CompensateError, CacheDelta, TypeOK, CallsSound
  <2>6. CASE HydrateHit(o) \/ HydrateRead(o) \/ HydrateError(o) \/ HydrateFillError(o)
    BY <2>6, HashStep DEF HydrateHit, HydrateRead, HydrateError, HydrateFillError,
                          AfterHydrate, TypeOK, CallsSound
  <2>7. CASE Apply(o) \/ ApplyError(o)
    BY <2>7, HashStep DEF Apply, ApplyError, TypeOK, CallsSound
  <2>8. CASE Commit(o)
    BY <2>8, HashStep DEF Commit, TypeOK, CallsSound
  <2>9. CASE Sync(o) \/ SyncError(o)
    BY <2>9, HashStep DEF Sync, SyncError, CacheDelta, TypeOK, CallsSound
  <2>10. CASE DbReserve(o)
    BY <2>10, HashStep DEF DbReserve, TypeOK, CallsSound
  <2>11. CASE HydrateFill(o)
    <3>1. CASE Live
      BY <2>11, <3>1, HashStep DEF HydrateFill, Fill, AfterHydrate, TypeOK, CallsSound
    <3>2. CASE ~Live
      <4>1. \A x \in Ops : Outstanding(x)' = Outstanding(x)
        BY <2>11 DEF HydrateFill, AfterHydrate, TypeOK
      <4>2. Owed' = Owed
        BY <4>1, Zenon DEF Owed, OutstandingOf
      <4>3. /\ quota' = op[o].snap
            /\ drift' = op[o].snap + Owed - truth
            /\ truth' = truth
        BY <2>11, <3>2 DEF HydrateFill, Fill
      <4>4. op[o].snap \in Int /\ truth \in Int /\ Owed \in Int
        BY OwedInt DEF TypeOK
      <4>5. Balanced'
        BY ONLY <4>2, <4>3, <4>4 DEF Balanced
      <4>6. CallsSound'
        BY <2>11 DEF HydrateFill, AfterHydrate, TypeOK, CallsSound
      <4> QED
        BY <4>5, <4>6 DEF HashInv
    <3> QED
      BY <3>1, <3>2
  <2> QED
    BY <1>4, <2>1, <2>2, <2>3, <2>4, <2>5, <2>6, <2>7, <2>8, <2>9, <2>10, <2>11 DEF Step
<1>5. ASSUME NEW o \in Ops, RunJob(o) PROVE HashInv'
  BY <1>5, HashStep DEF RunJob, CacheJob, CacheJobError, CacheDelta, TypeOK, CallsSound
<1>6. ASSUME Flush \/ UNCHANGED vars PROVE HashInv'
  <2>1. UNCHANGED <<hash, quota, truth, drift, op, job>>
    BY <1>6 DEF Flush, FlushSwap, FlushWrite, FlushError, vars
  <2> QED
    BY <2>1, NoCallMoves DEF HashInv, CallsSound
<1>7. ASSUME Evict PROVE HashInv'
  BY <1>7 DEF Evict, HashInv, CallsSound
<1> QED
  BY <1>3, <1>4, <1>5, <1>6, <1>7 DEF Next

\* Whenever no call or goroutine is under way, the balance reservations are
\* checked against is the balance of the accepted calls, up to what the hash
\* missed when it was hydrated and the changes it was never told of, in whatever
\* order goroutines, commits and row updates ran, whenever the hash expires and
\* whichever writes fail.
THEOREM HashAgreesAtRest == Spec => []CacheAgrees
<1>1. Init => HashInv
  BY HashInit
<1>2. HashInv /\ [Next]_vars => HashInv'
  BY HashNext
<1>3. HashInv => CacheAgrees
  <2> SUFFICES ASSUME HashInv, Live, AtRest PROVE quota = truth + drift
    BY DEF CacheAgrees
  <2>1. \A o \in Ops : OutstandingOf[o] = 0
    BY DEF AtRest, Ended, OutstandingOf, Outstanding, HashInv, TypeOK
  <2>2. Owed = 0
    BY <2>1, SumZero, QuotaConstants DEF Owed
  <2> QED
    BY <2>2 DEF HashInv, Balanced, TypeOK
<1> QED
  BY <1>1, <1>2, <1>3, PTL DEF Spec

-----------------------------------------------------------------------------
(* Reservations. *)

\* The hash is ahead by no more than a balance has been, and so is what was spent.
Covered == NoSettlement => (Live => drift <= worst) /\ truth + worst >= 0

LEMMA CoveredNext ==
  ASSUME HashInv, Covered, [Next]_vars
  PROVE  Covered'
<1>1. TypeOK /\ TypeOK' /\ CallsSound
  BY TypeNext DEF HashInv
<1> USE <1>1 DEF Goto, ghosts, Drifts, Live
<1>2. NoSettlement' => NoSettlement
  <2>1. ASSUME NEW o \in Ops, NEW k \in Kinds, NEW a \in Amounts, Call(o, k, a), NoSettlement'
        PROVE  NoSettlement
    BY <2>1 DEF Call, CallsSound, NoSettlement, TypeOK
  <2>2. ASSUME NEW o \in Ops, Step(o) PROVE \A x \in Ops : op'[x].kind = op[x].kind
    BY <2>2 DEF Step, ReserveOk, ReserveInsufficient, ReserveMiss, ReserveRedisError,
        DbReserve, Persist, PersistError, Compensate, CompensateError, HydrateHit,
        HydrateRead, HydrateError, HydrateFill, HydrateFillError, Apply, ApplyError,
        Commit, Sync, SyncError, TypeOK
  <2>3. ASSUME \/ Flush \/ Evict \/ UNCHANGED vars \/ \E o \in Ops : RunJob(o)
        PROVE  UNCHANGED op
    BY <2>3 DEF Flush, FlushSwap, FlushWrite, FlushError, Evict, vars, RunJob, CacheJob, CacheJobError
  <2> QED
    BY <2>1, <2>2, <2>3 DEF Next, NoSettlement
<1>3. SUFFICES ASSUME NoSettlement, NoSettlement' PROVE (Live' => drift' <= worst') /\ truth' + worst' >= 0
  BY <1>2 DEF Covered
<1>4. (Live => drift <= worst) /\ truth + worst >= 0
  BY <1>3 DEF Covered
<1>5. \A o \in Ops : op[o].pc # "apply" /\ job[o] = 0
  BY <1>3 DEF CallsSound, NoSettlement
<1>6. Live => quota <= truth + drift
  <2>1. \A o \in Ops : OutstandingOf[o] \in Nat
    BY <1>5 DEF OutstandingOf, Outstanding, TypeOK
  <2>2. Owed \in Nat
    BY <2>1, SumNat, QuotaConstants DEF Owed
  <2> QED
    BY <2>2 DEF HashInv, Balanced, TypeOK
<1>7. ASSUME NEW o \in Ops, NEW k \in Kinds, NEW a \in Amounts, Call(o, k, a)
      PROVE  (Live' => drift' <= worst') /\ truth' + worst' >= 0
  BY <1>7, <1>4 DEF Call
<1>8. ASSUME NEW o \in Ops, Step(o)
      PROVE  (Live' => drift' <= worst') /\ truth' + worst' >= 0
  <2>1. CASE ReserveOk(o)
    BY <2>1, <1>4, <1>6 DEF ReserveOk, TypeOK
  <2>2. CASE DbReserve(o)
    BY <2>2, <1>4 DEF DbReserve, Larger, TypeOK
  <2>3. CASE Compensate(o) \/ CompensateError(o)
    BY <2>3, <1>4 DEF Compensate, CompensateError, CacheDelta, TypeOK
  <2>4. CASE HydrateFill(o)
    <3>1. Owed \in Int
      BY OwedInt
    <3> QED
      BY <2>4, <1>4, <3>1 DEF HydrateFill, Fill, Larger, TypeOK
  <2>5. CASE Commit(o) \/ SyncError(o)
    BY <2>5, <1>4 DEF Commit, SyncError, TypeOK
  <2>6. CASE \/ ReserveInsufficient(o) \/ ReserveMiss(o) \/ ReserveRedisError(o)
             \/ Persist(o) \/ PersistError(o) \/ HydrateHit(o) \/ HydrateRead(o)
             \/ HydrateError(o) \/ HydrateFillError(o) \/ Sync(o)
    BY <2>6, <1>4 DEF ReserveInsufficient, ReserveMiss, ReserveRedisError, Persist,
       PersistError, HydrateHit, HydrateRead, HydrateError, HydrateFillError, Sync, CacheDelta
  <2>7. ~(Apply(o) \/ ApplyError(o))
    BY <1>5 DEF Apply, ApplyError
  <2> QED
    BY <1>8, <2>1, <2>2, <2>3, <2>4, <2>5, <2>6, <2>7 DEF Step
<1>9. ASSUME NEW o \in Ops, RunJob(o) PROVE FALSE
  BY <1>9, <1>5 DEF RunJob, CacheJob, CacheJobError
<1>10. ASSUME Flush \/ Evict \/ UNCHANGED vars
       PROVE  (Live' => drift' <= worst') /\ truth' + worst' >= 0
  BY <1>10, <1>4 DEF Flush, FlushSwap, FlushWrite, FlushError, Evict, vars
<1> QED
  BY <1>7, <1>8, <1>9, <1>10 DEF Next

\* However many reservations, hydrations, refunds and top-ups run at once,
\* however often the hash expires over pending deltas and whatever fails, an
\* account is overspent by at most the most that one balance was ahead of it.
THEOREM ReservationsBounded == Spec => []OverspendBounded
<1>1. Init => Covered
  BY QuotaConstants DEF Init, Covered, Live
<1>2. HashInv /\ Covered /\ [Next]_vars => Covered'
  BY CoveredNext
<1>3. HashInv /\ [Next]_vars => HashInv'
  BY HashNext
<1>4. Covered => OverspendBounded
  BY DEF Covered, OverspendBounded
<1> QED
  BY <1>1, <1>2, <1>3, <1>4, HashInit, PTL DEF Spec
=============================================================================
