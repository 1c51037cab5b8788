------------------------------ MODULE SystemTask ------------------------------
(***************************************************************************)
(* Background tasks of ONE type, shared by every master node through two   *)
(* database tables (model/system_task.go) and driven by the runner loop of *)
(* service/system_task.go.  A row of system_tasks is created pending, is   *)
(* claimed (pending -> running) by the runner that owns the row of         *)
(* system_task_locks, and ends succeeded or failed.  Types do not interact *)
(* (active_key and the lock row are keyed by type), so one type is enough. *)
(*                                                                         *)
(* Every database statement is one step, so a runner may stall, or crash,  *)
(* between any two of them.  Time is kept RELATIVE to the present: a lock  *)
(* row carries the seconds it has left (negative: expired) and a runner    *)
(* pass carries the seconds since it read the clock, so that               *)
(*     locked_until < now   is   left < 0          (a fresh clock read)    *)
(*     locked_until < start is   left < -age       (a captured clock)      *)
(* and time is unbounded in a finite state space.                          *)
(***************************************************************************)
EXTENDS Integers, FiniteSets

CONSTANTS
    Tasks,          \* row identities; each is created at most once
    Runners,        \* runner ids: one per process start (name + random suffix)
    NoTask, NoRunner,
    TTL,            \* systemTaskLockTTL, in ticks
    MaxStall,       \* longest time a runner pass stays between two statements
    Timely          \* heartbeats of a live handler always reach the database

ASSUME ConstantsOK ==
    /\ NoTask \notin Tasks
    /\ NoRunner \notin Runners
    /\ TTL \in Nat \ {0}
    /\ MaxStall \in Nat
    /\ Timely \in BOOLEAN

VARIABLES
    status,         \* system_tasks.status, "none" before the row exists
    activeKey,      \* system_tasks.active_key is not NULL (unique index)
    owner,          \* system_tasks.locked_by
    lock,           \* the system_task_locks row: [task, by, left]; task = NoTask: no row
    pass,           \* the runner's pass: pc and its captured locals
    handler         \* the goroutine that runs the claimed task

vars == <<status, activeKey, owner, lock, pass, handler>>

Statuses == {"none", "pending", "running", "succeeded", "failed"}
Terminal == {"succeeded", "failed"}
PassPcs == {"idle", "sweepMark", "sweepDelete", "acquire", "inspect",
            "takeover", "markExpired", "cas", "reread", "dead"}
HandlerPcs == {"none", "run", "cancelled", "release", "done"}

NoLock == [task |-> NoTask, by |-> NoRunner, left |-> 0]
Idle == [pc |-> "idle", task |-> NoTask, other |-> NoTask, by |-> NoRunner, age |-> 0]

\* Values a timestamp can take relative to now.
Floor == -(MaxStall + 1)

TypeOK ==
    /\ status \in [Tasks -> Statuses]
    /\ activeKey \in [Tasks -> BOOLEAN]
    /\ owner \in [Tasks -> Runners \cup {NoRunner}]
    /\ lock \in [task : Tasks \cup {NoTask}, by : Runners \cup {NoRunner}, left : Floor..TTL]
    /\ pass \in [Runners -> [pc : PassPcs, task : Tasks \cup {NoTask},
                             other : Tasks \cup {NoTask},
                             by : Runners \cup {NoRunner}, age : 0..MaxStall]]
    /\ handler \in [Tasks -> HandlerPcs]

Init ==
    /\ status = [t \in Tasks |-> "none"]
    /\ activeKey = [t \in Tasks |-> FALSE]
    /\ owner = [t \in Tasks |-> NoRunner]
    /\ lock = NoLock
    /\ pass = [r \in Runners |-> Idle]
    /\ handler = [t \in Tasks |-> "none"]

-----------------------------------------------------------------------------
(* Statements the operations share. *)

\* WHERE status IN (pending, running): GetActiveSystemTask.
Active(t) == status[t] \in {"pending", "running"}

\* ReleaseSystemTaskLock(taskID, lockedBy).
Release(t, r) ==
    lock' = IF lock.task = t /\ lock.by = r THEN NoLock ELSE lock

\* Mutant: the expired task is failed whatever its status.
MarkAnyStatus(t) ==
    /\ status' = [status EXCEPT ![t] = "failed"]
    /\ activeKey' = [activeKey EXCEPT ![t] = FALSE]

\* Mutant: active_key is not cleared.
MarkKeepsActiveKey(t) ==
    /\ status' = IF status[t] = "running" THEN [status EXCEPT ![t] = "failed"] ELSE status
    /\ UNCHANGED activeKey

\* Mutant: the lock is reclaimed but its task is left running.
MarkNothing(t) == UNCHANGED <<status, activeKey>>

\* MarkSystemTaskLeaseExpired(taskID): only a running row is failed.
MarkLeaseExpired(t) ==
    IF status[t] = "running"
    THEN /\ status' = [status EXCEPT ![t] = "failed"]
         /\ activeKey' = [activeKey EXCEPT ![t] = FALSE]
    ELSE UNCHANGED <<status, activeKey>>

\* Mutant: the lock row's start, not its end, is compared with the clock.
ExpiredTooEarly(age) == lock.task # NoTask /\ lock.left - TTL < -age

\* WHERE locked_until < now, for a clock read age ticks ago.
Expired(age) == lock.task # NoTask /\ lock.left < -age

\* The EXISTS sub-query of UpdateSystemTaskState and FinishSystemTask, and
\* the WHERE of RenewSystemTaskLock: the row names this task and this runner
\* and has not expired.
HoldsLease(t, r) == lock.task = t /\ lock.by = r /\ lock.left >= 0

\* The whole WHERE of UpdateSystemTaskState and FinishSystemTask.
MayWriteTask(t, r) == status[t] = "running" /\ owner[t] = r /\ HoldsLease(t, r)

Goto(r, pc) == pass' = [pass EXCEPT ![r].pc = pc]
EndPass(r) == pass' = [pass EXCEPT ![r] = Idle]

-----------------------------------------------------------------------------
(* Creation: StartLogCleanupTask, EnqueueSystemTask, runSystemTaskScheduler.  *)
(* All three look for an active row first; the unique index on active_key     *)
(* decides, and a refused insert returns the existing task.                   *)

CreateSystemTask(t) ==
    /\ status[t] = "none"
    /\ \A u \in Tasks : ~activeKey[u]
    /\ status' = [status EXCEPT ![t] = "pending"]
    /\ activeKey' = [activeKey EXCEPT ![t] = TRUE]
    /\ UNCHANGED <<owner, lock, pass, handler>>

-----------------------------------------------------------------------------
(* ExpireStaleSystemTaskLocks: read, mark the task, delete the row. *)

SweepRead(r) ==
    /\ pass[r].pc = "idle"
    /\ Expired(0)
    /\ pass' = [pass EXCEPT ![r] = [Idle EXCEPT !.pc = "sweepMark",
                                                !.task = lock.task, !.by = lock.by]]
    /\ UNCHANGED <<status, activeKey, owner, lock, handler>>

SweepMark(r) ==
    /\ pass[r].pc = "sweepMark"
    /\ MarkLeaseExpired(pass[r].task)
    /\ Goto(r, "sweepDelete")
    /\ UNCHANGED <<owner, lock, handler>>

SweepDelete(r) ==
    /\ pass[r].pc = "sweepDelete"
    /\ lock' = IF /\ lock.task = pass[r].task
                  /\ lock.by = pass[r].by
                  /\ Expired(pass[r].age)
               THEN NoLock ELSE lock
    /\ EndPass(r)
    /\ UNCHANGED <<status, activeKey, owner, handler>>

\* Either statement may fail; the sweep is abandoned until the next pass.
SweepError(r) ==
    /\ pass[r].pc \in {"sweepMark", "sweepDelete"}
    /\ EndPass(r)
    /\ UNCHANGED <<status, activeKey, owner, lock, handler>>

-----------------------------------------------------------------------------
(* runSystemTaskClaimPass and ClaimSystemTask. *)

\* The pass found the pending row; lockUntil and now are fixed here and used
\* by every later statement of the claim.
ClaimBegin(r, t) ==
    /\ pass[r].pc = "idle"
    /\ status[t] = "pending"
    /\ pass' = [pass EXCEPT ![r] = [Idle EXCEPT !.pc = "acquire", !.task = t]]
    /\ UNCHANGED <<status, activeKey, owner, lock, handler>>

\* Mutant: the lease is counted from the end of the claim's wait.
ClaimedLockTooLong(r) == [task |-> pass[r].task, by |-> r, left |-> TTL + pass[r].age]

\* The lock row as the claim of r writes it.
ClaimedLock(r) == [task |-> pass[r].task, by |-> r, left |-> TTL - pass[r].age]

\* INSERT of the lock row; the primary key refuses it when a row exists, and
\* any other error is treated the same way.
AcquireInsert(r) ==
    /\ pass[r].pc = "acquire"
    /\ \/ /\ lock.task = NoTask
          /\ lock' = ClaimedLock(r)
          /\ Goto(r, "cas")
       \/ /\ Goto(r, "inspect")
          /\ UNCHANGED lock
    /\ UNCHANGED <<status, activeKey, owner, handler>>

\* SELECT of the existing row: gone or unexpired means not acquired.
AcquireInspect(r) ==
    /\ pass[r].pc = "inspect"
    /\ \/ /\ ~Expired(pass[r].age)
          /\ EndPass(r)
       \/ /\ Expired(pass[r].age)
          /\ pass' = [pass EXCEPT ![r].pc = "takeover", ![r].other = lock.task]
    /\ UNCHANGED <<status, activeKey, owner, lock, handler>>

\* Conditional UPDATE of the expired row.
AcquireTakeover(r) ==
    /\ pass[r].pc = "takeover"
    /\ \/ /\ Expired(pass[r].age)
          /\ lock' = ClaimedLock(r)
          /\ Goto(r, IF pass[r].other # pass[r].task THEN "markExpired" ELSE "cas")
       \/ /\ ~Expired(pass[r].age)
          /\ EndPass(r)
          /\ UNCHANGED lock
    /\ UNCHANGED <<status, activeKey, owner, handler>>

\* The SELECT or the UPDATE fails: nothing was acquired, nothing is released.
AcquireError(r) ==
    /\ pass[r].pc \in {"inspect", "takeover"}
    /\ EndPass(r)
    /\ UNCHANGED <<status, activeKey, owner, lock, handler>>

\* The previous holder's task is failed before the new one starts.
ClaimMarkExpired(r) ==
    /\ pass[r].pc = "markExpired"
    /\ MarkLeaseExpired(pass[r].other)
    /\ Goto(r, "cas")
    /\ UNCHANGED <<owner, lock, handler>>

\* WHERE id = ? AND status = pending.
CasMatches(t) == status[t] = "pending"

\* UPDATE ... SET status = running WHERE status = pending; with no row
\* affected the lock is given back.
ClaimCas(r) ==
    /\ pass[r].pc = "cas"
    /\ LET t == pass[r].task IN
       \/ /\ CasMatches(t)
          /\ status' = [status EXCEPT ![t] = "running"]
          /\ owner' = [owner EXCEPT ![t] = r]
          /\ Goto(r, "reread")
          /\ UNCHANGED lock
       \/ /\ ~CasMatches(t)
          /\ Release(t, r)
          /\ EndPass(r)
          /\ UNCHANGED <<status, owner>>
    /\ UNCHANGED <<activeKey, handler>>

\* A statement of the claim fails after the lock was acquired: the lock is
\* given back (and that delete may fail too; its error is dropped).
ClaimError(r) ==
    /\ pass[r].pc \in {"markExpired", "cas"}
    /\ Release(pass[r].task, r) \/ UNCHANGED lock
    /\ EndPass(r)
    /\ UNCHANGED <<status, activeKey, owner, handler>>

\* The row is read again and handed to its own goroutine.
Dispatch(r) ==
    /\ pass[r].pc = "reread"
    /\ handler' = [handler EXCEPT ![pass[r].task] = "run"]
    /\ EndPass(r)
    /\ UNCHANGED <<status, activeKey, owner, lock>>

\* Mutant: the error path cleans up like the earlier ones and drops the lock.
DispatchErrorReleases(r) ==
    /\ pass[r].pc = "reread"
    /\ Release(pass[r].task, r)
    /\ EndPass(r)
    /\ UNCHANGED <<status, activeKey, owner, handler>>

\* The re-read fails: the task stays running, with its lock and no handler.
DispatchError(r) ==
    /\ pass[r].pc = "reread"
    /\ EndPass(r)
    /\ UNCHANGED <<status, activeKey, owner, lock, handler>>

-----------------------------------------------------------------------------
(* runWithLeaseHeartbeat and the handler it runs. *)

\* RenewSystemTaskLock on the ticker.  A lost lock cancels the context.
Heartbeat(t) ==
    /\ handler[t] = "run"
    /\ \/ /\ HoldsLease(t, owner[t])
          /\ lock' = [lock EXCEPT !.left = TTL]
          /\ UNCHANGED handler
       \/ /\ ~HoldsLease(t, owner[t])
          /\ handler' = [handler EXCEPT ![t] = "cancelled"]
          /\ UNCHANGED lock
    /\ UNCHANGED <<status, activeKey, owner, pass>>

\* The renewal statement itself fails: the context is cancelled as well.
HeartbeatError(t) ==
    /\ handler[t] = "run"
    /\ handler' = [handler EXCEPT ![t] = "cancelled"]
    /\ UNCHANGED <<status, activeKey, owner, lock, pass>>

\* FinishSystemTask(task, runner, s): a conditional UPDATE, then the release.
Finish(t, s) ==
    /\ handler[t] \in {"run", "cancelled"}
    /\ MayWriteTask(t, owner[t])
    /\ status' = [status EXCEPT ![t] = s]
    /\ activeKey' = [activeKey EXCEPT ![t] = FALSE]
    /\ handler' = [handler EXCEPT ![t] = "release"]
    /\ UNCHANGED <<owner, lock, pass>>

FinishRelease(t) ==
    /\ handler[t] = "release"
    /\ Release(t, owner[t])
    /\ handler' = [handler EXCEPT ![t] = "done"]
    /\ UNCHANGED <<status, activeKey, owner, pass>>

\* UpdateSystemTaskState or FinishSystemTask affected no row (lock lost), or
\* failed: the handler logs it and returns, the row is left as it is.
HandlerAbort(t) ==
    /\ handler[t] \in {"run", "cancelled", "release"}
    /\ handler' = [handler EXCEPT ![t] = "done"]
    /\ UNCHANGED <<status, activeKey, owner, lock, pass>>

-----------------------------------------------------------------------------
(* Process crashes and time. *)

\* A process dies with its pass and its handlers; a restart is a new runner id.
Crash(r) ==
    /\ pass[r].pc # "dead"
    /\ \E q \in Runners \ {r} : pass[q].pc # "dead"
    /\ pass' = [pass EXCEPT ![r] = [Idle EXCEPT !.pc = "dead"]]
    /\ handler' = [t \in Tasks |->
                    IF owner[t] = r /\ handler[t] # "none" THEN "done" ELSE handler[t]]
    /\ UNCHANGED <<status, activeKey, owner, lock>>

InFlight(r) == pass[r].pc \notin {"idle", "dead"}

Tick ==
    /\ \A r \in Runners : InFlight(r) => pass[r].age < MaxStall
    /\ Timely => \A t \in Tasks :
                    handler[t] = "run" /\ HoldsLease(t, owner[t]) => lock.left > 0
    /\ lock' = IF lock.task = NoTask \/ lock.left = Floor THEN lock
               ELSE [lock EXCEPT !.left = @ - 1]
    /\ pass' = [r \in Runners |->
                  IF InFlight(r) THEN [pass[r] EXCEPT !.age = @ + 1] ELSE pass[r]]
    /\ UNCHANGED <<status, activeKey, owner, handler>>

-----------------------------------------------------------------------------
PassStep(r) ==
    \/ SweepRead(r) \/ SweepMark(r) \/ SweepDelete(r) \/ SweepError(r)
    \/ \E t \in Tasks : ClaimBegin(r, t)
    \/ AcquireInsert(r) \/ AcquireInspect(r) \/ AcquireTakeover(r) \/ AcquireError(r)
    \/ ClaimMarkExpired(r) \/ ClaimCas(r) \/ ClaimError(r)
    \/ Dispatch(r) \/ DispatchError(r)

HandlerStep(t) ==
    \/ Heartbeat(t) \/ HeartbeatError(t)
    \/ \E s \in Terminal : Finish(t, s)
    \/ FinishRelease(t) \/ HandlerAbort(t)

Next ==
    \/ \E t \in Tasks : CreateSystemTask(t) \/ HandlerStep(t)
    \/ \E r \in Runners : PassStep(r) \/ Crash(r)
    \/ Tick

Spec == Init /\ [][Next]_vars

\* The runner loop wakes on its ticker for ever and a pass runs to its end, the
\* statement that fails an expired task does not itself fail for ever, and time
\* passes.  Nothing is assumed of handlers: they may run, or hang, for ever.
Fairness ==
    /\ WF_vars(Tick)
    /\ \A r \in Runners : WF_vars(PassStep(r)) /\ SF_vars(SweepMark(r))

FairSpec == Spec /\ Fairness

-----------------------------------------------------------------------------
(* Properties. *)

\* active_key marks exactly the pending and running rows, and the unique index
\* leaves at most one of them: no two rows of the type are ever active, however
\* creation, claim, expiry and finish interleave.
OneActiveTask ==
    /\ \A t \in Tasks : activeKey[t] <=> Active(t)
    /\ \A t, u \in Tasks : activeKey[t] /\ activeKey[u] => t = u

\* Executing(r, t): r won the pending -> running update of t.
Executing(r, t) == pass[r].pc = "reread" /\ pass[r].task = t

\* runSystemTaskScheduler: "the per-type lock guarantees only one runner
\* executes the task".  With stalled claims two runners may both believe they
\* hold the lock; the status update alone still lets one of them through, and
\* the row names that one.
SingleExecution ==
    \A t \in Tasks :
        /\ \A r \in Runners : Executing(r, t) => handler[t] = "none" /\ owner[t] = r
        /\ owner[t] = NoRunner => status[t] \in {"none", "pending"} /\ handler[t] = "none"

\* A finished row is never reopened or given another outcome: a handler whose
\* lease expired cannot overwrite the failure recorded for it.
TerminalStable ==
    [][\A t \in Tasks : status[t] \in Terminal => status'[t] = status[t]]_vars

\* A running row always has the lock row by which a crash would be noticed, as
\* long as claims complete within the lease (MaxStall < TTL).
RunningHasLock ==
    \A t \in Tasks : status[t] = "running" => lock.task = t /\ lock.by = owner[t]

\* With timely heartbeats the lease is never lost under a live handler, so two
\* handlers of one type are never live at the same time.
OneLiveHandler ==
    \A t, u \in Tasks : handler[t] = "run" /\ handler[u] = "run" => t = u

\* The lease is a crash-detection window: a running task whose handler is gone
\* is eventually recorded as failed, so the type can be scheduled again.
Abandoned(t) ==
    status[t] = "running" /\ handler[t] \in {"none", "done"}
       /\ \A r \in Runners : ~Executing(r, t)
AbandonedTaskFails ==
    \A t \in Tasks : Abandoned(t) ~> status[t] = "failed"
=============================================================================
