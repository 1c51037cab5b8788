----------------------------- MODULE TaskPolling -----------------------------
(***************************************************************************)
(* The life of ONE asynchronous task (Suno, video): submitted and charged  *)
(* by a request, polled, timed out, settled or refunded by the polling     *)
(* passes of any number of nodes, and moved on by the user's own status    *)
(* query when the channel is Gemini or Vertex.  controller/relay.go        *)
(* (RelayTask), service/task_polling.go, service/task_billing.go,          *)
(* model/task.go, relay/relay_task.go (tryRealtimeFetch).                  *)
(*                                                                         *)
(* Tasks share no state but the balances they are paid from, so one task   *)
(* is enough; what the balances lost to it is `paid`.  Passes overlap when *)
(* a lease is lost or nodes poll independently.  The upstream reports      *)
(* where its work stands, or an error body, which counts as a failed task  *)
(* although the work goes on.  Of the statuses of an unfinished task two   *)
(* are kept, the initial one and IN_PROGRESS: the code treats the others   *)
(* like these.                                                             *)
(*                                                                         *)
(* The progress column is not kept: every writer sets it to 100% together  *)
(* with SUCCESS or FAILURE and never with another status.                  *)
(***************************************************************************)
EXTENDS Integers, FiniteSets

CONSTANTS
    Pollers,        \* goroutines running RunTaskPollingOnce, pass after pass
    Fetchers,       \* users' status queries of a Gemini or Vertex task
    Platforms,      \* subset of {"video", "suno"}
    Quotas,         \* what a submission may cost
    Actuals,        \* what a finished task may turn out to cost; 0: no new price
    Legacy,         \* subset of {"no", "yes"}: submitted before the refund cutoff
    Faults,         \* failures that may happen
    MaxFaults,      \* how many of them
    MaxOverwrites   \* bound on the status queries that write over the finished task

AllFaults == {"settle", "insert", "channel", "cas", "fund", "token", "quota", "crash"}

ASSUME TaskConstants ==
    /\ Pollers \cap Fetchers = {}
    /\ Platforms \subseteq {"video", "suno"}
    /\ Quotas \subseteq Nat
    /\ Actuals \subseteq Nat
    /\ Legacy \subseteq {"no", "yes"}
    /\ Faults \subseteq AllFaults
    /\ MaxFaults \in Nat
    /\ MaxOverwrites \in Nat

Actors == Pollers \cup Fetchers

VARIABLES
    remote,             \* external: where the upstream's work stands
    platform, legacy,   \* of this task, fixed at the start
    row,                \* the tasks row: [status, quota]
    aged,               \* "yes" once submit_time is before the timeout cutoff
    clock,              \* whose submit_time the row holds, "ours" or "theirs"
    paid,               \* taken for this task: [fund, token, used]
    job,                \* the actors: [pc, phase, from, to, quota, amount]
    budget,             \* faults still to come
    torn,               \* ghost: "yes" once a failure left row and charge apart
    overwritten         \* ghost: how often a status query wrote over the finished row

vars == <<remote, platform, legacy, row, aged, clock, paid, job, budget, torn, overwritten>>

Active == {"NOT_START", "IN_PROGRESS"}
Final == {"SUCCESS", "FAILURE"}
Statuses == Active \cup Final

Pcs == {"start", "poll", "ask", "cas", "settle", "fund", "token", "used", "save"}
Billing == {"settle", "fund", "token", "used", "save"}

\* Row, charge and tokens are well formed; a cost is never negative.
TypeOK ==
    /\ remote \in Statuses \ {"NOT_START"}
    /\ platform \in {"video", "suno"}
    /\ legacy \in {"no", "yes"}
    /\ row \in [status : Statuses \cup {"ABSENT", "LOST"}, quota : Nat]
    /\ aged \in {"no", "yes"}
    /\ clock \in {"ours", "theirs"}
    /\ paid \in [fund : Int, token : Int, used : Int]
    /\ job \in [Actors -> [pc : Pcs, phase : {"sweep", "poll", "fetch"},
                           from : Statuses, to : Statuses, quota : Nat, amount : Nat]]
    /\ budget \in Nat
    /\ torn \in {"no", "yes"}
    /\ overwritten \in Nat

Idle == [pc |-> "start", phase |-> "sweep", from |-> "NOT_START",
         to |-> "NOT_START", quota |-> 0, amount |-> 0]

Init ==
    /\ remote = "IN_PROGRESS"
    /\ platform \in Platforms
    /\ legacy \in Legacy
    /\ row = [status |-> "ABSENT", quota |-> 0]
    /\ aged = "no" /\ clock = "ours"
    /\ paid = [fund |-> 0, token |-> 0, used |-> 0]
    /\ job = [a \in Actors |-> Idle]
    /\ budget = MaxFaults
    /\ torn = "no" /\ overwritten = 0

-----------------------------------------------------------------------------
(* Building blocks. *)

Fault(f) ==
    /\ f \in Faults
    /\ budget > 0
    /\ budget' = budget - 1

Goto(a, pc) == job' = [job EXCEPT ![a].pc = pc]

\* Where the goroutine goes when it is through with the task: the sweep is
\* followed by the poll of the same pass, the poll by the next pass.
Leave(a) ==
    job' = [job EXCEPT ![a] = [Idle EXCEPT
               !.pc = IF job[a].phase = "sweep" THEN "poll" ELSE "start"]]

\* Mutant: the query forgets the finished statuses.
UnfinishedOrNot == row.status \in Statuses

\* GetAllUnFinishSyncTasks.
Unfinished == row.status \in Active

\* Mutant: only tasks the upstream never reported on time out.
TimedOutNotStarted == aged = "yes" /\ row.status = "NOT_START"

\* GetTimedOutUnfinishedTasks.
TimedOut == aged = "yes" /\ row.status \in Active

\* Mutant: Save() instead of the guarded update.
MatchesAlways(a) == row.status \in Statuses

\* UpdateWithStatus(fromStatus): the WHERE clause of the update.
Matches(a) == row.status = job[a].from

-----------------------------------------------------------------------------
(* Submission: RelayTask after the upstream accepted the task. *)

\* What SettleBilling leaves charged when pre was pre-consumed and the
\* submission costs q: q, or pre when the settlement fails.
Charges(pre, q) == IF "settle" \in Faults /\ budget > 0 THEN {pre, q} ELSE {q}

\* LogTaskConsumption counts q and the row is inserted with q whatever became
\* of the settlement, whose error is only logged.
Submit(c, q) ==
    /\ row.status = "ABSENT"
    /\ row' = [status |-> "NOT_START", quota |-> q]
    /\ paid' = [fund |-> c, token |-> c, used |-> q]
    /\ budget' = IF c = q THEN budget ELSE budget - 1
    /\ torn' = IF c = q THEN "no" ELSE "yes"
    /\ UNCHANGED <<remote, platform, legacy, aged, clock, job, overwritten>>

\* The insert fails and is only logged: the charge stays without a task.
SubmitLost(q) ==
    /\ row.status = "ABSENT"
    /\ Fault("insert")
    /\ row' = [row EXCEPT !.status = "LOST"]
    /\ paid' = [fund |-> q, token |-> q, used |-> q]
    /\ torn' = "yes"
    /\ UNCHANGED <<remote, platform, legacy, aged, clock, job, overwritten>>

\* External: time passes until submit_time is before the cutoff.
Age ==
    /\ Unfinished /\ aged = "no"
    /\ aged' = "yes"
    /\ UNCHANGED <<remote, platform, legacy, row, clock, paid, job, budget, torn, overwritten>>

\* External: the upstream finishes its work.
Work(s) ==
    /\ remote = "IN_PROGRESS"
    /\ remote' = s
    /\ UNCHANGED <<platform, legacy, row, aged, clock, paid, job, budget, torn, overwritten>>

-----------------------------------------------------------------------------
(* A polling pass: the sweep, then the poll. *)

\* sweepTimedOutTasks found the task; a legacy task loses its quota instead
\* of being refunded.
SweepRead(a) ==
    /\ job[a].pc = "start" /\ TimedOut
    /\ job' = [job EXCEPT ![a] =
                 [pc |-> "cas", phase |-> "sweep", from |-> row.status, to |-> "FAILURE",
                  quota |-> IF legacy = "yes" THEN 0 ELSE row.quota, amount |-> 0]]
    /\ UNCHANGED <<remote, platform, legacy, row, aged, clock, paid, budget, torn, overwritten>>

SweepNone(a) ==
    /\ job[a].pc = "start" /\ ~TimedOut
    /\ Goto(a, "poll")
    /\ UNCHANGED <<remote, platform, legacy, row, aged, clock, paid, budget, torn, overwritten>>

\* RunTaskPollingOnce loads the unfinished tasks once and works on the copies.
PollRead(a) ==
    /\ job[a].pc = "poll" /\ Unfinished
    /\ job' = [job EXCEPT ![a] =
                 [pc |-> "ask", phase |-> "poll", from |-> row.status, to |-> row.status,
                  quota |-> row.quota, amount |-> 0]]
    /\ UNCHANGED <<remote, platform, legacy, row, aged, clock, paid, budget, torn, overwritten>>

PollNone(a) ==
    /\ job[a].pc = "poll" /\ ~Unfinished
    /\ Goto(a, "start")
    /\ UNCHANGED <<remote, platform, legacy, row, aged, clock, paid, budget, torn, overwritten>>

\* The channel is gone: the whole batch is failed by primary key, without the
\* guard and without a refund.
BulkFail(a) ==
    /\ job[a].pc = "ask" /\ job[a].phase = "poll"
    /\ Fault("channel")
    /\ row' = [row EXCEPT !.status = "FAILURE"]
    /\ Leave(a)
    /\ UNCHANGED <<remote, platform, legacy, aged, clock, paid, torn, overwritten>>

\* The upstream answers with its status or with an error.
Answer(a, s) ==
    /\ job[a].pc = "ask"
    /\ job' = [job EXCEPT ![a].pc = "cas", ![a].to = s]
    /\ UNCHANGED <<remote, platform, legacy, row, aged, clock, paid, budget, torn, overwritten>>

\* No answer, an unknown status, a 429, an answer that changes nothing, or the
\* context was cancelled because the lease is lost.
NoAnswer(a) ==
    /\ job[a].pc = "ask"
    /\ Leave(a)
    /\ UNCHANGED <<remote, platform, legacy, row, aged, clock, paid, budget, torn, overwritten>>

\* tryRealtimeFetch reads the row of the user's query, finished or not.
FetchRead(a) ==
    /\ job[a].pc = "start" /\ platform = "video"
    /\ row.status \in Statuses
    /\ row.status \in Final => overwritten < MaxOverwrites
    /\ job' = [job EXCEPT ![a] =
                 [pc |-> "ask", phase |-> "fetch", from |-> row.status, to |-> row.status,
                  quota |-> row.quota, amount |-> 0]]
    /\ UNCHANGED <<remote, platform, legacy, row, aged, clock, paid, budget, torn, overwritten>>

-----------------------------------------------------------------------------
(* UpdateWithStatus writes every column of the copy. *)

\* What the winner has to do: a failed task with a quota is refunded, a video
\* that succeeded is settled; a status query does neither.
AfterWin(a) ==
    LET refund == job[a].phase # "fetch" /\ job[a].to = "FAILURE" /\ job[a].quota # 0
        settle == job[a].phase = "poll" /\ job[a].to = "SUCCESS" /\ platform = "video"
    IN  \/ refund /\ Goto(a, "fund")
        \/ settle /\ Goto(a, "settle")
        \/ ~refund /\ ~settle /\ Leave(a)

\* A Suno answer may bring the submit_time of the upstream, which the row then
\* holds in place of ours: earlier or later, but always the same.
SubmitTime(a) ==
    \/ UNCHANGED <<aged, clock>>
    \/ /\ platform = "suno" /\ job[a].phase = "poll" /\ clock = "ours"
       /\ clock' = "theirs"
       /\ aged' \in {"no", "yes"}

UpdateWins(a) ==
    /\ job[a].pc = "cas" /\ Matches(a)
    /\ row' = [status |-> job[a].to, quota |-> job[a].quota]
    /\ AfterWin(a)
    /\ SubmitTime(a)
    /\ overwritten' =
           IF job[a].phase = "fetch" /\ row.status \in Final THEN overwritten + 1 ELSE overwritten
    /\ UNCHANGED <<remote, platform, legacy, paid, budget, torn>>

\* Mutant: whoever saw the task fail refunds it.
UpdateLosesBills(a) ==
    /\ job[a].pc = "cas" /\ ~Matches(a)
    /\ AfterWin(a)
    /\ UNCHANGED <<remote, platform, legacy, row, aged, clock, paid, budget, torn, overwritten>>

\* Another actor moved the task on: skip billing.
UpdateLoses(a) ==
    /\ job[a].pc = "cas" /\ ~Matches(a)
    /\ Leave(a)
    /\ UNCHANGED <<remote, platform, legacy, row, aged, clock, paid, budget, torn, overwritten>>

UpdateError(a) ==
    /\ job[a].pc = "cas" /\ Fault("cas")
    /\ Leave(a)
    /\ UNCHANGED <<remote, platform, legacy, row, aged, clock, paid, torn, overwritten>>

-----------------------------------------------------------------------------
(* settleTaskBillingOnComplete, RecalculateTaskQuota, RefundTaskQuota. *)

\* The adaptor or the token count gives the price n; 0 (also per-call billing)
\* and an unchanged price end the settlement.
Settle(a, n) ==
    /\ job[a].pc = "settle"
    /\ IF n = 0 \/ n = job[a].quota THEN Leave(a)
       ELSE job' = [job EXCEPT ![a].pc = "fund", ![a].amount = n]
    /\ UNCHANGED <<remote, platform, legacy, row, aged, clock, paid, budget, torn, overwritten>>

\* A refund moves the charge to 0, a settlement to the actual price.
Delta(a) == job[a].amount - job[a].quota

\* taskAdjustFunding: wallet or subscription.
Fund(a) ==
    /\ job[a].pc = "fund"
    /\ paid' = [paid EXCEPT !.fund = @ + Delta(a)]
    /\ Goto(a, "token")
    /\ UNCHANGED <<remote, platform, legacy, row, aged, clock, budget, torn, overwritten>>

\* Mutant: the refund goes on although the funding source refused.
FundErrorIgnored(a) ==
    /\ job[a].pc = "fund" /\ Fault("fund")
    /\ Goto(a, "token")
    /\ UNCHANGED <<remote, platform, legacy, row, aged, clock, paid, torn, overwritten>>

\* The funding source refuses: the quota is kept for reconciliation.
FundError(a) ==
    /\ job[a].pc = "fund" /\ Fault("fund")
    /\ Leave(a)
    /\ UNCHANGED <<remote, platform, legacy, row, aged, clock, paid, torn, overwritten>>

\* A refund counts the usage back and then clears the quota; a settlement
\* stores the quota first.
AfterToken(a) == IF job[a].to = "FAILURE" THEN "used" ELSE "save"
AfterUsed(a) == IF job[a].to = "FAILURE" THEN Goto(a, "save") ELSE Leave(a)
AfterSave(a) == IF job[a].to = "FAILURE" THEN Leave(a) ELSE Goto(a, "used")

\* taskAdjustTokenQuota: a failure, or a deleted token, is only logged.
Token(a) ==
    /\ job[a].pc = "token"
    /\ \/ /\ paid' = [paid EXCEPT !.token = @ + Delta(a)]
          /\ UNCHANGED budget
       \/ Fault("token") /\ UNCHANGED paid
    /\ Goto(a, AfterToken(a))
    /\ UNCHANGED <<remote, platform, legacy, row, aged, clock, torn, overwritten>>

\* UpdateUserUsedQuota, UpdateChannelUsedQuota.
Used(a) ==
    /\ job[a].pc = "used"
    /\ paid' = [paid EXCEPT !.used = @ + Delta(a)]
    /\ AfterUsed(a)
    /\ UNCHANGED <<remote, platform, legacy, row, aged, clock, budget, torn, overwritten>>

\* Mutant: the difference is stored in place of the price.
SaveDelta(a) ==
    /\ job[a].pc = "save"
    /\ row' = [row EXCEPT !.quota = Delta(a)]
    /\ AfterSave(a)
    /\ UNCHANGED <<remote, platform, legacy, aged, clock, paid, budget, torn, overwritten>>

\* Task.UpdateQuota.
Save(a) ==
    /\ job[a].pc = "save"
    /\ row' = [row EXCEPT !.quota = job[a].amount]
    /\ AfterSave(a)
    /\ UNCHANGED <<remote, platform, legacy, aged, clock, paid, budget, torn, overwritten>>

SaveError(a) ==
    /\ job[a].pc = "save" /\ Fault("quota")
    /\ AfterSave(a)
    /\ torn' = "yes"
    /\ UNCHANGED <<remote, platform, legacy, row, aged, clock, paid, overwritten>>

\* External: the node dies; another pass starts with nothing in memory.  No
\* pass looks at a finished task again, so an open bill stays as it is.
Crash(a) ==
    /\ job[a].pc # "start" /\ Fault("crash")
    /\ job' = [job EXCEPT ![a] = Idle]
    /\ torn' = IF job[a].pc \in {"token", "used", "save"} THEN "yes" ELSE torn
    /\ UNCHANGED <<remote, platform, legacy, row, aged, clock, paid, overwritten>>

-----------------------------------------------------------------------------
Update(a) == UpdateWins(a) \/ UpdateLoses(a) \/ UpdateError(a)

Bill(a) ==
    \/ \E n \in Actuals : Settle(a, n)
    \/ Fund(a) \/ FundError(a) \/ Token(a) \/ Used(a) \/ Save(a) \/ SaveError(a)

PollStep(a) ==
    \/ SweepRead(a) \/ SweepNone(a) \/ PollRead(a) \/ PollNone(a) \/ BulkFail(a)
    \/ (\E s \in {remote, "FAILURE"} : Answer(a, s)) \/ NoAnswer(a) \/ Update(a) \/ Bill(a)

FetchStep(a) ==
    FetchRead(a) \/ (\E s \in {remote, "FAILURE"} : Answer(a, s)) \/ NoAnswer(a) \/ Update(a)

Next ==
    \/ \E pre, q \in Quotas : \E c \in Charges(pre, q) : Submit(c, q)
    \/ \E q \in Quotas : SubmitLost(q)
    \/ Age
    \/ \E s \in Final : Work(s)
    \/ \E a \in Pollers : PollStep(a) \/ Crash(a)
    \/ \E a \in Fetchers : FetchStep(a)

Spec == Init /\ [][Next]_vars

\* Passes are started again and again by the system task scheduler as long as a
\* task is unfinished, HTTP timeouts bound the wait for the upstream, and time
\* passes.  Nothing forces a user to query, a request to submit, or a failure.
FairSpec == Spec /\ WF_vars(Age) /\ \A a \in Pollers : WF_vars(PollStep(a))

-----------------------------------------------------------------------------
(* Properties. *)

\* Only the actor whose guarded update moved the task to its final status
\* settles or refunds it: no two passes are ever billing at once, as long as no
\* status query wrote its copy over the finished task.
OneBiller ==
    overwritten = 0 =>
        \A a, b \in Actors : job[a].pc \in Billing /\ job[b].pc \in Billing => a = b

\* However passes, sweeps and status queries of the unfinished task overlap, no
\* more is paid back than was taken, from wallet or subscription, token and
\* usage statistics alike.  A status query that writes over the finished task
\* ends the guarantee: what it brings back may be refunded again.
NeverPaidOut ==
    overwritten = 0 => paid.fund >= 0 /\ paid.token >= 0 /\ paid.used >= 0

\* RefundTaskQuota and RecalculateTaskQuota: outside the steps between the
\* funding change and UpdateQuota the quota of the row is what the user is out
\* of pocket, also after a refused refund, so that a manual reconciliation can
\* rely on it; only a logged failure, a crash inside those steps or a status
\* query that wrote over the finished task breaks it.
RowTellsCharge ==
    legacy = "no" /\ row.quota # paid.fund =>
        \/ torn = "yes" \/ overwritten > 0
        \/ \E a \in Actors : job[a].pc \in {"token", "used", "save"}

\* UpdateWithStatus: once a task is finished, no write of a pass or of the
\* sweep and no bill changes its status, however old the copy it holds and even
\* after a task was brought back.  Two writers are left: the status query, which
\* looks at no status, and the bulk failure of a lost channel, which has no
\* guard and turns even a success into a failure.
PassesKeepFinal ==
    [][row.status \in Final /\ row'.status # row.status =>
          \E a \in Actors : /\ job'[a] # job[a]
                            /\ \/ job[a].phase = "fetch"
                               \/ job[a].pc = "ask" /\ row'.status = "FAILURE"]_vars

\* What the comment on UpdateWithStatus's callers says (task_polling.go:300):
\* the guarded update keeps a final status from being overwritten.
FinalStays == [][row.status \in Final => row'.status \in Final]_vars

\* An unfinished task is finished in the end, by the upstream or by the timeout,
\* whatever the upstream answers, although nodes die and also after a status
\* query brought it back.
EventuallyFinal == row.status \in Active ~> row.status \in Final
-----------------------------------------------------------------------------
(* Inductive invariants: WinInv gives OneBiller and PassesKeepFinal;       *)
(* PollInv, when submissions settle too, gives NeverPaidOut and            *)
(* RowTellsCharge.  All but the first two conjuncts of WinInv speak of a   *)
(* task no status query has written over since it was finished.            *)

\* Passes and sweeps copy unfinished rows only.
PassesSound ==
    \A a \in Actors : job[a].pc \in {"ask", "cas"} =>
        /\ row.status \in Statuses
        /\ job[a].phase # "fetch" => job[a].from \in Active

\* The guard of a copy fails once the row is final, or the copy is a status
\* query's, and as long as the row is not final the copy has its quota.
CopiesSound ==
    \A a \in Actors : job[a].pc \in {"ask", "cas"} =>
        /\ job[a].from \in Final => row.status \in Final
        /\ row.status \in Active /\ job[a].phase # "sweep" => job[a].quota = row.quota
        /\ row.status \in Active /\ job[a].phase = "sweep" =>
               job[a].quota = row.quota \/ (legacy = "yes" /\ job[a].quota = 0)
        /\ job[a].phase = "sweep" => job[a].to = "FAILURE"
        /\ job[a].amount = 0

BillsFinal ==
    \A a \in Actors : job[a].pc \in Billing =>
        row.status \in Final /\ job[a].to \in Final

\* How far the biller has carried the charge from its quota to its amount.
BillsSound ==
    \A a \in Actors :
        /\ job[a].pc \in {"settle", "fund"} =>
               /\ row.quota = job[a].quota
               /\ paid = [fund |-> job[a].quota, token |-> job[a].quota, used |-> job[a].quota]
        /\ job[a].pc \in {"token", "used", "save"} => paid.fund = job[a].amount
        /\ job[a].pc = "token" => paid.token = job[a].quota
        /\ job[a].pc \in {"token", "used"} => paid.used = job[a].quota
        /\ job[a].pc = "save" /\ job[a].to = "SUCCESS" => paid.used = job[a].quota
        /\ job[a].pc = "used" /\ job[a].to = "SUCCESS" /\ torn = "no" =>
               row.quota = job[a].amount

\* Nothing is billed before the row is final, and at rest the row is right.
RestSound ==
    /\ row.status \in Active =>
           paid = [fund |-> row.quota, token |-> row.quota, used |-> row.quota]
    /\ row.status = "ABSENT" => paid = [fund |-> 0, token |-> 0, used |-> 0] /\ row.quota = 0
    /\ legacy = "no" /\ torn = "no" /\ (\A a \in Actors : job[a].pc \notin Billing) =>
           row.quota = paid.fund

WinInv ==
    /\ TypeOK
    /\ PassesSound
    /\ overwritten = 0 => CopiesSound /\ BillsFinal
    /\ OneBiller

PollInv ==
    /\ WinInv
    /\ overwritten = 0 => BillsSound /\ RestSound
    /\ NeverPaidOut
=============================================================================
