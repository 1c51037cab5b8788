-------------------------- MODULE SystemTaskProofs --------------------------
(***************************************************************************)
(* Proofs about SystemTask for every number of tasks and runners, every    *)
(* lease length and every stall.  The invariants are built in two layers:  *)
(* Core needs no assumption on timing; LeaseInv is inductive together with *)
(* Core when claims complete within the lease (MaxStall < TTL).            *)
(***************************************************************************)
EXTENDS SystemTask, TLAPS

\* The owner column is written by the pending -> running update only.
OwnerMatchesStatus ==
    \A t \in Tasks : owner[t] = NoRunner <=> status[t] \in {"none", "pending"}

Core == TypeOK /\ OneActiveTask /\ OwnerMatchesStatus /\ SingleExecution

Claiming(r) == pass[r].pc \in {"acquire", "inspect", "takeover"}
Holding(r) == pass[r].pc \in {"markExpired", "cas", "reread"}

\* A claim in flight names a row, which its runner does not own yet.
ClaimsUnowned ==
    \A r \in Runners :
        /\ Claiming(r) \/ Holding(r) => pass[r].task \in Tasks
        /\ Claiming(r) \/ pass[r].pc \in {"markExpired", "cas"} => owner[pass[r].task] # r

\* From the acquisition to the dispatch the lock row is the claim's own: it
\* cannot expire before the claim ends, so nobody takes it over.
HoldersLocked == \A r \in Runners : Holding(r) => lock = ClaimedLock(r)

\* The lock of a running task was written after any claim in flight read the
\* clock, so no such claim may take it over ...
ClaimsTooOld ==
    \A r \in Runners, t \in Tasks :
        Claiming(r) /\ status[t] = "running" => lock.left >= -pass[r].age

\* ... and a sweep that saw an earlier lock of the same task may not delete it.
SweepsTooOld ==
    \A r \in Runners, t \in Tasks :
        pass[r].pc = "sweepDelete" /\ pass[r].task = t /\ status[t] = "running"
            => lock.left >= -pass[r].age

ReleaseAfterFinish == \A t \in Tasks : handler[t] = "release" => status[t] \in Terminal

LiveHandlerHoldsLease ==
    Timely => \A t \in Tasks : handler[t] = "run" => HoldsLease(t, owner[t])

LeaseInv ==
    /\ ClaimsUnowned /\ HoldersLocked /\ ClaimsTooOld /\ SweepsTooOld
    /\ ReleaseAfterFinish /\ RunningHasLock /\ LiveHandlerHoldsLease

-----------------------------------------------------------------------------
LEMMA IdleType ==
    Idle \in [pc : PassPcs, task : Tasks \cup {NoTask}, other : Tasks \cup {NoTask},
              by : Runners \cup {NoRunner}, age : 0..MaxStall]
BY ConstantsOK DEF Idle, PassPcs

\* What the statement that fails an expired task can do to one row.
LEMMA MarkEffect ==
    ASSUME TypeOK, NEW t, MarkLeaseExpired(t)
    PROVE  /\ status' \in [Tasks -> Statuses]
           /\ activeKey' \in [Tasks -> BOOLEAN]
           /\ \A u \in Tasks :
                \/ status'[u] = status[u] /\ activeKey'[u] = activeKey[u]
                \/ status[u] = "running" /\ status'[u] = "failed" /\ ~activeKey'[u]
BY DEF MarkLeaseExpired, TypeOK, Statuses

LEMMA TypePreserved == TypeOK /\ [Next]_vars => TypeOK'
<1> SUFFICES ASSUME TypeOK, [Next]_vars PROVE TypeOK'
    OBVIOUS
<1> USE ConstantsOK, IdleType
<1>1. ASSUME NEW t \in Tasks, CreateSystemTask(t) PROVE TypeOK'
    BY <1>1 DEF CreateSystemTask, TypeOK, Statuses
<1>2. ASSUME NEW t \in Tasks, HandlerStep(t) PROVE TypeOK'
  <2>1. CASE Heartbeat(t)
      BY <2>1 DEF Heartbeat, HoldsLease, TypeOK, HandlerPcs, Floor
  <2>2. CASE HeartbeatError(t)
      BY <2>2 DEF HeartbeatError, TypeOK, HandlerPcs
  <2>3. CASE \E s \in Terminal : Finish(t, s)
      BY <2>3 DEF Finish, TypeOK, HandlerPcs, Terminal, Statuses
  <2>4. CASE FinishRelease(t)
      BY <2>4 DEF FinishRelease, Release, NoLock, TypeOK, HandlerPcs, Floor
  <2>5. CASE HandlerAbort(t)
      BY <2>5 DEF HandlerAbort, TypeOK, HandlerPcs
  <2> QED BY <1>2, <2>1, <2>2, <2>3, <2>4, <2>5 DEF HandlerStep
<1>3. ASSUME NEW r \in Runners, PassStep(r) PROVE TypeOK'
  <2>1. CASE SweepRead(r)
      BY <2>1 DEF SweepRead, TypeOK, Idle, PassPcs
  <2>2. CASE SweepMark(r)
    <3>1. status' \in [Tasks -> Statuses] /\ activeKey' \in [Tasks -> BOOLEAN]
        BY <2>2, MarkEffect DEF SweepMark
    <3> QED BY <2>2, <3>1 DEF SweepMark, Goto, TypeOK, PassPcs
  <2>3. CASE SweepDelete(r)
      BY <2>3 DEF SweepDelete, EndPass, TypeOK, NoLock, Floor
  <2>4. CASE SweepError(r)
      BY <2>4 DEF SweepError, EndPass, TypeOK
  <2>5. CASE \E t \in Tasks : ClaimBegin(r, t)
    <3> PICK t \in Tasks : ClaimBegin(r, t)
        BY <2>5
    <3> QED BY DEF ClaimBegin, TypeOK, Idle, PassPcs
  <2>6. ClaimedLock(r) \in [task : Tasks \cup {NoTask}, by : Runners \cup {NoRunner},
                            left : Floor..TTL]
      BY DEF ClaimedLock, TypeOK, Floor
  <2>7. CASE AcquireInsert(r)
      BY <2>6, <2>7 DEF AcquireInsert, Goto, TypeOK, PassPcs
  <2>8. CASE AcquireInspect(r)
      BY <2>8 DEF AcquireInspect, EndPass, TypeOK, PassPcs
  <2>9. CASE AcquireTakeover(r)
      BY <2>6, <2>9 DEF AcquireTakeover, Goto, EndPass, TypeOK, PassPcs
  <2>10. CASE AcquireError(r)
      BY <2>10 DEF AcquireError, EndPass, TypeOK
  <2>11. CASE ClaimMarkExpired(r)
    <3>1. status' \in [Tasks -> Statuses] /\ activeKey' \in [Tasks -> BOOLEAN]
        BY <2>11, MarkEffect DEF ClaimMarkExpired
    <3> QED BY <2>11, <3>1 DEF ClaimMarkExpired, Goto, TypeOK, PassPcs
  <2>12. CASE ClaimCas(r)
      BY <2>12 DEF ClaimCas, Goto, EndPass, Release, NoLock, TypeOK, PassPcs, Statuses, Floor
  <2>13. CASE ClaimError(r)
      BY <2>13 DEF ClaimError, EndPass, Release, NoLock, TypeOK, Floor
  <2>14. CASE Dispatch(r)
      BY <2>14 DEF Dispatch, EndPass, TypeOK, HandlerPcs
  <2>15. CASE DispatchError(r)
      BY <2>15 DEF DispatchError, EndPass, TypeOK
  <2> QED BY <1>3, <2>1, <2>2, <2>3, <2>4, <2>5, <2>7, <2>8, <2>9, <2>10, <2>11,
             <2>12, <2>13, <2>14, <2>15 DEF PassStep
<1>4. ASSUME NEW r \in Runners, Crash(r) PROVE TypeOK'
    BY <1>4 DEF Crash, TypeOK, HandlerPcs, Idle, PassPcs
<1>5. CASE Tick
    BY <1>5 DEF Tick, InFlight, TypeOK, Floor
<1>6. CASE UNCHANGED vars
    BY <1>6 DEF vars, TypeOK
<1> QED BY <1>1, <1>2, <1>3, <1>4, <1>5, <1>6 DEF Next

-----------------------------------------------------------------------------
\* Every step does one of these things to a row and its owner column.
RowStep(t) ==
    \/ status'[t] = status[t] /\ activeKey'[t] = activeKey[t] /\ owner'[t] = owner[t]
    \/ /\ status[t] = "none" /\ status'[t] = "pending" /\ activeKey'[t]
       /\ owner'[t] = owner[t] /\ \A u \in Tasks : ~activeKey[u]
    \/ /\ CasMatches(t) /\ status'[t] = "running" /\ activeKey'[t] = activeKey[t]
       /\ owner'[t] \in Runners /\ pass[owner'[t]].pc = "cas" /\ pass[owner'[t]].task = t
    \/ /\ status[t] = "running" /\ status'[t] \in Terminal /\ ~activeKey'[t]
       /\ owner'[t] = owner[t]

LEMMA RowSteps ==
    ASSUME TypeOK, [Next]_vars
    PROVE  /\ \A t \in Tasks : RowStep(t)
           /\ \A t, u \in Tasks : status[t] = "none" /\ status'[t] = "pending" /\ u # t
                                => status'[u] = status[u] /\ activeKey'[u] = activeKey[u]
<1> DEFINE Goal == /\ \A t \in Tasks : RowStep(t)
                   /\ \A t, u \in Tasks : status[t] = "none" /\ status'[t] = "pending" /\ u # t
                                => status'[u] = status[u] /\ activeKey'[u] = activeKey[u]
<1>0. ASSUME UNCHANGED <<status, activeKey, owner>> PROVE Goal
    BY <1>0 DEF RowStep
<1>m. ASSUME NEW x, MarkLeaseExpired(x), UNCHANGED owner PROVE Goal
    BY <1>m, MarkEffect DEF RowStep, Terminal, CasMatches
<1>1. ASSUME NEW t \in Tasks, CreateSystemTask(t) PROVE Goal
    BY <1>1 DEF CreateSystemTask, TypeOK, RowStep
<1>2. ASSUME NEW t \in Tasks, HandlerStep(t) PROVE Goal
  <2>1. CASE \E s \in Terminal : Finish(t, s)
      BY <2>1 DEF Finish, MayWriteTask, TypeOK, RowStep, Terminal
  <2> QED BY <1>0, <1>2, <2>1 DEF HandlerStep, Heartbeat, HeartbeatError, FinishRelease, HandlerAbort
<1>3. ASSUME NEW r \in Runners, PassStep(r) PROVE Goal
  <2>1. CASE SweepMark(r)
      BY <1>m, <2>1 DEF SweepMark
  <2>2. CASE ClaimMarkExpired(r)
      BY <1>m, <2>2 DEF ClaimMarkExpired
  <2>3. CASE ClaimCas(r)
    <3>1. CASE UNCHANGED <<status, owner>>
        BY <2>3, <3>1, <1>0 DEF ClaimCas
    <3>2. CASE /\ CasMatches(pass[r].task)
               /\ status' = [status EXCEPT ![pass[r].task] = "running"]
               /\ owner' = [owner EXCEPT ![pass[r].task] = r]
        BY <2>3, <3>2 DEF ClaimCas, RowStep, TypeOK
    <3> QED BY <2>3, <3>1, <3>2 DEF ClaimCas
  <2> QED BY <1>0, <1>3, <2>1, <2>2, <2>3 DEF PassStep, SweepRead, SweepDelete, SweepError,
             ClaimBegin, AcquireInsert, AcquireInspect, AcquireTakeover, AcquireError,
             ClaimError, Dispatch, DispatchError
<1> QED BY <1>0, <1>1, <1>2, <1>3 DEF Next, Crash, Tick, vars

LEMMA OneActivePreserved ==
    TypeOK /\ OneActiveTask /\ [Next]_vars => OneActiveTask'
<1> SUFFICES ASSUME TypeOK, OneActiveTask, [Next]_vars PROVE OneActiveTask'
    OBVIOUS
<1>1. TypeOK'
    BY TypePreserved
<1>2. ASSUME NEW t \in Tasks PROVE activeKey'[t] <=> status'[t] \in {"pending", "running"}
    BY <1>1, RowSteps DEF OneActiveTask, Active, RowStep, CasMatches, Terminal, TypeOK
<1>3. ASSUME NEW t \in Tasks, NEW u \in Tasks, activeKey'[t], activeKey'[u] PROVE t = u
    BY <1>2, <1>3, RowSteps DEF OneActiveTask, Active, RowStep, CasMatches, Terminal, TypeOK
<1> QED BY <1>2, <1>3 DEF OneActiveTask, Active

-----------------------------------------------------------------------------
\* A step of one runner's pass leaves the passes of the others alone.
LEMMA PassStepLocal ==
    ASSUME TypeOK, NEW q \in Runners, PassStep(q), NEW r \in Runners, r # q
    PROVE  pass'[r] = pass[r]
BY DEF TypeOK, PassStep, SweepRead, SweepMark, SweepDelete, SweepError, ClaimBegin,
       AcquireInsert, AcquireInspect, AcquireTakeover, AcquireError, ClaimMarkExpired,
       ClaimCas, ClaimError, Dispatch, DispatchError, Goto, EndPass

\* Only the pending -> running update brings a pass to its dispatch.
LEMMA RereadOnlyByCas ==
    ASSUME TypeOK, [Next]_vars, NEW r \in Runners, pass'[r].pc = "reread", ~ClaimCas(r)
    PROVE  pass[r].pc = "reread" /\ pass'[r].task = pass[r].task
<1>1. CASE PassStep(r)
  <2>1. pass'[r].pc # "reread"
    <3>1. CASE AcquireTakeover(r)
        BY <3>1 DEF AcquireTakeover, Goto, EndPass, Idle, TypeOK
    <3>2. CASE SweepRead(r) \/ (\E t \in Tasks : ClaimBegin(r, t))
        BY <3>2 DEF SweepRead, ClaimBegin, Idle, TypeOK
    <3>3. CASE \/ SweepMark(r) \/ SweepDelete(r) \/ SweepError(r) \/ AcquireInsert(r)
               \/ AcquireInspect(r) \/ AcquireError(r) \/ ClaimMarkExpired(r)
               \/ ClaimError(r) \/ Dispatch(r) \/ DispatchError(r)
        BY <3>3 DEF SweepMark, SweepDelete, SweepError, AcquireInsert, AcquireInspect,
           AcquireError, ClaimMarkExpired, ClaimError, Dispatch, DispatchError,
           Goto, EndPass, Idle, TypeOK
    <3> QED BY <1>1, <3>1, <3>2, <3>3 DEF PassStep
  <2> QED BY <2>1
<1>2. ASSUME NEW q \in Runners, PassStep(q), q # r PROVE pass'[r] = pass[r]
    BY <1>2, PassStepLocal
<1>3. ASSUME NEW q \in Runners, Crash(q)
      PROVE pass[r].pc = "reread" /\ pass'[r].task = pass[r].task
    BY <1>3 DEF Crash, Idle, TypeOK
<1>4. CASE Tick
    BY <1>4 DEF Tick, TypeOK
<1>5. CASE UNCHANGED pass
    BY <1>5
<1> QED BY <1>1, <1>2, <1>3, <1>4, <1>5 DEF Next, vars, CreateSystemTask, HandlerStep,
           Heartbeat, HeartbeatError, Finish, FinishRelease, HandlerAbort

LEMMA ExecutionPreserved ==
    TypeOK /\ OwnerMatchesStatus /\ SingleExecution /\ [Next]_vars
        => OwnerMatchesStatus' /\ SingleExecution'
<1> SUFFICES ASSUME TypeOK, OwnerMatchesStatus, SingleExecution, [Next]_vars
             PROVE OwnerMatchesStatus' /\ SingleExecution'
    OBVIOUS
<1> USE ConstantsOK
<1>1. TypeOK'
    BY TypePreserved
<1>2. OwnerMatchesStatus'
    BY <1>1, RowSteps DEF OwnerMatchesStatus, RowStep, CasMatches, Terminal, TypeOK
<1>3. ASSUME NEW t \in Tasks, owner'[t] = NoRunner
      PROVE status'[t] \in {"none", "pending"} /\ handler'[t] = "none"
  <2>1. status'[t] \in {"none", "pending"}
      BY <1>2, <1>3 DEF OwnerMatchesStatus
  <2>2. owner[t] = NoRunner
      BY <1>3, RowSteps DEF RowStep
  <2>3. handler[t] = "none" /\ \A r \in Runners : ~Executing(r, t)
      BY <2>2 DEF SingleExecution
  <2>4. handler'[t] = "none"
      BY <2>3 DEF Next, vars, CreateSystemTask, HandlerStep, Heartbeat, HeartbeatError, Finish,
          FinishRelease, HandlerAbort, PassStep, SweepRead, SweepMark, SweepDelete,
          SweepError, ClaimBegin, AcquireInsert, AcquireInspect, AcquireTakeover,
          AcquireError, ClaimMarkExpired, ClaimCas, ClaimError, Dispatch, DispatchError,
          Crash, Tick, Executing, TypeOK
  <2> QED BY <2>1, <2>4
<1>4. ASSUME NEW t \in Tasks, NEW r \in Runners, Executing(r, t)'
      PROVE handler'[t] = "none" /\ owner'[t] = r
  \* Either r already held t, or this step is its pending -> running update.
  <2>1. CASE ~ClaimCas(r)
    <3>1. Executing(r, t)
        BY <1>4, <2>1, RereadOnlyByCas DEF Executing
    <3>2. handler[t] = "none" /\ owner[t] = r
        BY <3>1 DEF SingleExecution
    <3>3. owner'[t] = r
        BY <3>2, RowSteps DEF RowStep, CasMatches, OwnerMatchesStatus
    <3>4. ASSUME NEW q \in Runners, Dispatch(q) PROVE pass[q].task # t
        BY <1>4, <3>2, <3>4 DEF Dispatch, EndPass, Idle, Executing, SingleExecution, TypeOK
    <3>5. handler'[t] = "none"
        BY <3>2, <3>4 DEF Next, vars, CreateSystemTask, HandlerStep, Heartbeat, HeartbeatError,
          Finish, FinishRelease, HandlerAbort, PassStep, SweepRead, SweepMark, SweepDelete,
          SweepError, ClaimBegin, AcquireInsert, AcquireInspect, AcquireTakeover,
          AcquireError, ClaimMarkExpired, ClaimCas, ClaimError, Dispatch, DispatchError,
          Crash, Tick, TypeOK
    <3> QED BY <3>3, <3>5
  <2>2. CASE ClaimCas(r)
      BY <1>4, <2>2 DEF ClaimCas, CasMatches, Goto, EndPass, Idle, Executing,
          OwnerMatchesStatus, SingleExecution, TypeOK
  <2> QED BY <2>1, <2>2
<1> QED BY <1>2, <1>3, <1>4 DEF SingleExecution

LEMMA CoreInvariant == Spec => []Core
<1>1. Init => Core
    BY ConstantsOK, IdleType DEF Init, Core, TypeOK, OneActiveTask, OwnerMatchesStatus, SingleExecution,
       Active, Executing, Statuses, HandlerPcs, NoLock, Idle, Floor
<1>2. Core /\ [Next]_vars => Core'
    BY TypePreserved, OneActivePreserved, ExecutionPreserved DEF Core
<1> QED BY <1>1, <1>2, PTL DEF Spec

\* The rows, the lock, every runner pass and every handler stay in range: in
\* particular a lease never exceeds systemTaskLockTTL.
THEOREM TypeCorrect == Spec => []TypeOK
BY CoreInvariant, PTL DEF Core

\* However creation, claim, expiry, finish and crashes interleave, no two rows
\* of a type are active at once and active_key says which one is.
THEOREM AtMostOneActive == Spec => []OneActiveTask
BY CoreInvariant, PTL DEF Core

\* A task is executed by the one runner its row names, even when claims stall
\* past the lease and several runners believe they hold the lock.
THEOREM ExecutedOnce == Spec => []SingleExecution
BY CoreInvariant, PTL DEF Core

\* The outcome recorded for a task never changes.
THEOREM OutcomeStable == Spec => TerminalStable
<1>1. TypeOK /\ [Next]_vars => [\A t \in Tasks : status[t] \in Terminal => status'[t] = status[t]]_vars
    BY RowSteps DEF RowStep, Terminal, CasMatches
<1> QED BY <1>1, TypeCorrect, PTL DEF Spec, TerminalStable
-----------------------------------------------------------------------------
\* Second layer: timing.
LEMMA LeasePreserved ==
    ASSUME MaxStall < TTL, Core, Core', LeaseInv, [Next]_vars
    PROVE  LeaseInv'
<1> USE ConstantsOK DEF LeaseInv, ClaimsUnowned, HoldersLocked, ClaimsTooOld, SweepsTooOld,
        ReleaseAfterFinish, RunningHasLock, LiveHandlerHoldsLease, Claiming, Holding,
        ClaimedLock, HoldsLease, Core, TypeOK, Terminal
<1>1. ASSUME NEW t \in Tasks, CreateSystemTask(t) PROVE LeaseInv'
    BY <1>1 DEF CreateSystemTask
<1>2. ASSUME NEW t \in Tasks, HandlerStep(t) PROVE LeaseInv'
  <2>1. CASE Heartbeat(t)
      BY <2>1 DEF Heartbeat, SingleExecution, Executing
  <2>2. CASE HeartbeatError(t)
      BY <2>2 DEF HeartbeatError
  <2>3. CASE \E s \in Terminal : Finish(t, s)
      BY <2>3 DEF Finish, MayWriteTask
  <2>4. CASE FinishRelease(t)
      BY <2>4 DEF FinishRelease, Release, NoLock, SingleExecution, Executing
  <2>5. CASE HandlerAbort(t)
      BY <2>5 DEF HandlerAbort
  <2> QED BY <1>2, <2>1, <2>2, <2>3, <2>4, <2>5 DEF HandlerStep
<1>3. ASSUME NEW r \in Runners, PassStep(r) PROVE LeaseInv'
  <2>1. CASE SweepRead(r)
      BY <2>1 DEF SweepRead, Goto, EndPass, Idle, Expired
  <2>2. CASE SweepMark(r)
      BY <2>2 DEF SweepMark, MarkLeaseExpired, Goto, EndPass, Idle, Expired
  <2>3. CASE SweepDelete(r)
      BY <2>3 DEF SweepDelete, NoLock, Goto, EndPass, Idle, Expired
  <2>4. CASE SweepError(r)
      BY <2>4 DEF SweepError, Goto, EndPass, Idle, Expired
  <2>5. CASE \E t \in Tasks : ClaimBegin(r, t)
      BY <2>5 DEF ClaimBegin, OneActiveTask, Active, OwnerMatchesStatus, Goto, EndPass, Idle, Expired
  <2>6. CASE AcquireInsert(r)
      BY <2>6 DEF AcquireInsert, Goto, EndPass, Idle, Expired
  <2>7. CASE AcquireInspect(r)
      BY <2>7 DEF AcquireInspect, Goto, EndPass, Idle, Expired
  <2>8. CASE AcquireTakeover(r)
      BY <2>8 DEF AcquireTakeover, Goto, EndPass, Idle, Expired
  <2>9. CASE AcquireError(r)
      BY <2>9 DEF AcquireError, Goto, EndPass, Idle, Expired
  <2>10. CASE ClaimMarkExpired(r)
      BY <2>10 DEF ClaimMarkExpired, MarkLeaseExpired, Goto, EndPass, Idle, Expired
  <2>11. CASE ClaimCas(r)
    <3>1. ClaimsUnowned'
        BY <2>11 DEF ClaimCas, CasMatches, Release, NoLock, OneActiveTask, Active, Goto, EndPass, Idle, Expired
    <3>2. HoldersLocked'
        BY <2>11 DEF ClaimCas, CasMatches, Release, NoLock, OneActiveTask, Active, Goto, EndPass, Idle, Expired
    <3>3. ClaimsTooOld'
        BY <2>11 DEF ClaimCas, CasMatches, Release, NoLock, OneActiveTask, Active, Goto, EndPass, Idle, Expired
    <3>4. SweepsTooOld'
        BY <2>11 DEF ClaimCas, CasMatches, Release, NoLock, OneActiveTask, Active, Goto, EndPass, Idle, Expired
    <3>5. ReleaseAfterFinish'
        BY <2>11 DEF ClaimCas, CasMatches, Release, NoLock, OneActiveTask, Active, Goto, EndPass, Idle, Expired
    <3>6. RunningHasLock'
        BY <2>11 DEF ClaimCas, CasMatches, Release, NoLock, OneActiveTask, Active, Goto, EndPass, Idle, Expired
    <3>7. LiveHandlerHoldsLease'
        BY <2>11 DEF ClaimCas, CasMatches, Release, NoLock, OneActiveTask, Active, Goto, EndPass, Idle, Expired
    <3> HIDE DEF ClaimsUnowned, HoldersLocked, ClaimsTooOld, SweepsTooOld,
        ReleaseAfterFinish, RunningHasLock, LiveHandlerHoldsLease
    <3> QED BY <3>1, <3>2, <3>3, <3>4, <3>5, <3>6, <3>7
  <2>12. CASE ClaimError(r)
      BY <2>12 DEF ClaimError, Release, NoLock, Goto, EndPass, Idle, Expired
  <2>13. CASE Dispatch(r)
      BY <2>13 DEF Dispatch, SingleExecution, Executing, Goto, EndPass, Idle, Expired
  <2>14. CASE DispatchError(r)
      BY <2>14 DEF DispatchError, Goto, EndPass, Idle, Expired
  <2> QED BY <1>3, <2>1, <2>2, <2>3, <2>4, <2>5, <2>6, <2>7, <2>8, <2>9, <2>10, <2>11, <2>12, <2>13, <2>14 DEF PassStep
<1>4. ASSUME NEW r \in Runners, Crash(r) PROVE LeaseInv'
    BY <1>4 DEF Crash, Idle
<1>5. CASE Tick
    BY <1>5 DEF Tick, InFlight, Floor
<1>6. CASE UNCHANGED vars
    BY <1>6 DEF vars
<1> QED BY <1>1, <1>2, <1>3, <1>4, <1>5, <1>6 DEF Next

LEMMA LeaseInvariant == ASSUME MaxStall < TTL PROVE Spec => [](Core /\ LeaseInv)
<1>1. Init => LeaseInv
    BY ConstantsOK DEF Init, LeaseInv, ClaimsUnowned, HoldersLocked, ClaimsTooOld, SweepsTooOld,
        ReleaseAfterFinish, RunningHasLock, LiveHandlerHoldsLease, Claiming, Holding, Idle
<1>2. LeaseInv /\ Core /\ Core' /\ [Next]_vars => LeaseInv'
    BY LeasePreserved
<1> QED BY <1>1, <1>2, CoreInvariant, PTL DEF Spec

\* As long as a claim completes within the lease, a running task never loses
\* the lock row through which a crash of its runner is noticed.
THEOREM CrashDetectable == ASSUME MaxStall < TTL PROVE Spec => []RunningHasLock
BY LeaseInvariant, PTL DEF LeaseInv

\* With timely heartbeats as well, two handlers of a type are never live at
\* the same time: each holds the one lock row.
THEOREM HandlersExclusive == ASSUME MaxStall < TTL, Timely PROVE Spec => []OneLiveHandler
<1>1. LeaseInv => OneLiveHandler
    BY DEF LeaseInv, LiveHandlerHoldsLease, HoldsLease, OneLiveHandler
<1> QED BY <1>1, LeaseInvariant, PTL
=============================================================================
