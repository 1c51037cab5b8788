---------------------------- MODULE BillingSession ----------------------------
(***************************************************************************)
(* The billing life of relay requests of one user with one token:          *)
(* NewBillingSession chooses a funding source (wallet or subscription),    *)
(* the token and the source are charged an estimate, the estimate may grow *)
(* before the upstream call, and the request ends with Settle (the actual  *)
(* cost) or Refund (an asynchronous job), plus a violation fee on some     *)
(* errors.  service/billing_session.go, funding_source.go, billing.go,     *)
(* quota.go, violation_fee.go, tiered_settle.go, controller/relay.go and   *)
(* the subscription rows of model/subscription.go.                         *)
(*                                                                         *)
(* Every change of a balance is a step of its own and may fail (Faults).   *)
(* A balance is one number here; how it is split over Redis, the batch     *)
(* store and the row is QuotaCache's subject.                              *)
(***************************************************************************)
EXTENDS Integers, Sequences, FiniteSets, Functions

CONSTANTS
    Requests,
    Prefs,              \* billing preferences a request may have
    Flags,              \* request flags: [force, playground, realtime], see Flag
    Estimates, Actuals, \* quota estimates and actual costs
    Turns,              \* how many turns of a realtime session are charged
    InitWallet, InitToken,
    HasSub, SubTotal, AllowOverflow,
    TrustQuota,         \* common.GetTrustQuota()
    Fee,                \* violation fee, 0: disabled
    Faults              \* database failures that may happen

AllPrefs == {"subscription_only", "wallet_only", "wallet_first", "subscription_first"}
AllFaults == {"reserve", "rollback", "undo", "settle", "adjust", "refund", "extra",
              "give", "turn", "record"}

\* force: ForcePreConsume (asynchronous tasks); playground: no token is charged.
Flag == [force : BOOLEAN, playground : BOOLEAN, realtime : BOOLEAN]

ASSUME BillingConstants ==
    /\ IsFiniteSet(Requests)
    /\ Prefs \subseteq AllPrefs
    /\ Flags \subseteq Flag
    /\ Estimates \subseteq Nat
    /\ Actuals \subseteq Nat
    /\ Turns \in Nat
    /\ InitWallet \in Nat /\ InitToken \in Nat
    /\ HasSub \in BOOLEAN /\ AllowOverflow \in BOOLEAN
    /\ SubTotal \in Nat \ {0}
    /\ TrustQuota \in Nat
    /\ Fee \in Nat
    /\ Faults \subseteq AllFaults

MaxAttempts == 3        \* refundWithRetry

VARIABLES
    wallet,     \* users.quota
    token,      \* tokens.remain_quota
    subUsed,    \* user_subscriptions.amount_used
    rec,        \* subscription_pre_consume_records.status of each request
    req,        \* the request: where it is and what the caller knows
    ses,        \* its BillingSession
    job         \* the goroutine Refund started

vars == <<wallet, token, subUsed, rec, req, ses, job>>

Sources == {"wallet", "sub"}
ReqPcs == {"new", "try", "token", "fund", "rollback", "open",
           "rsvFund", "rsvToken", "rsvUndo", "turnLast", "turnFund", "turnToken",
           "settle", "settleToken", "failing", "fee", "feeToken", "rejected", "ended"}
JobPcs == {"none", "fund", "record", "extra", "token", "done"}

NoFlag == [force |-> FALSE, playground |-> FALSE, realtime |-> FALSE]
NewRequest == [pc |-> "new", flag |-> NoFlag, plan |-> << >>, est |-> 0, seen |-> 0,
               delta |-> 0, actual |-> 0, turns |-> 0, fee |-> 0, ok |-> FALSE]
\* consumed: WalletFunding.consumed or SubscriptionFunding.preConsumed.
NoSession == [src |-> "wallet", want |-> 0, pre |-> 0, tokenConsumed |-> 0, consumed |-> 0,
              extra |-> 0, trusted |-> FALSE, fundingSettled |-> FALSE,
              settled |-> FALSE, refunded |-> FALSE]
NoJob == [pc |-> "none", tries |-> 0]

RequestType == [pc : ReqPcs, flag : Flag, plan : Seq(Sources), est : Nat, seen : Int,
                delta : Int, actual : Nat, turns : Nat, fee : Nat, ok : BOOLEAN]
SessionType == [src : Sources, want : Nat, pre : Nat, tokenConsumed : Nat, consumed : Nat,
                extra : Nat, trusted : BOOLEAN, fundingSettled : BOOLEAN,
                settled : BOOLEAN, refunded : BOOLEAN]
JobType == [pc : JobPcs, tries : 0..MaxAttempts]

TypeOK ==
    /\ wallet \in Int /\ token \in Int /\ subUsed \in Nat
    /\ rec \in [Requests -> {"none", "consumed", "refunded"}]
    /\ req \in [Requests -> RequestType]
    /\ ses \in [Requests -> SessionType]
    /\ job \in [Requests -> JobType]

Init ==
    /\ wallet = InitWallet /\ token = InitToken /\ subUsed = 0
    /\ rec = [r \in Requests |-> "none"]
    /\ req = [r \in Requests |-> NewRequest]
    /\ ses = [r \in Requests |-> NoSession]
    /\ job = [r \in Requests |-> NoJob]

-----------------------------------------------------------------------------
(* Balances. *)

\* PostConsumeUserSubscriptionDelta: clamped at zero, refused above the total.
SubAfter(d) == IF subUsed + d < 0 THEN 0 ELSE subUsed + d
SubAccepts(d) == SubAfter(d) <= SubTotal

\* A change of a funding source that the source accepts (positive d: consume).
Accepts(src, d) == src = "sub" => SubAccepts(d)
Consume(src, d) ==
    IF src = "wallet" THEN wallet' = wallet - d /\ UNCHANGED subUsed
                      ELSE subUsed' = SubAfter(d) /\ UNCHANGED wallet

\* DecreaseTokenQuota, IncreaseTokenQuota; a playground request has no token.
UseToken(r, d) == token' = IF req[r].flag.playground THEN token ELSE token - d

Goto(r, pc) == req' = [req EXCEPT ![r].pc = pc]

-----------------------------------------------------------------------------
(* NewBillingSession. *)

\* The sources a preference tries, in order.
Plan(pref) ==
    CASE pref = "subscription_only" -> <<"sub">>
      [] pref = "wallet_only" -> <<"wallet">>
      [] pref = "wallet_first" -> <<"wallet", "sub">>
      [] pref = "subscription_first" ->
            IF ~HasSub THEN <<"wallet">>
            ELSE IF AllowOverflow THEN <<"sub", "wallet">> ELSE <<"sub">>

\* The token's balance was put into the context when the request authenticated.
Begin(r, pref, flag, est) ==
    /\ req[r].pc = "new"
    /\ req' = [req EXCEPT ![r] = [NewRequest EXCEPT !.pc = "try", !.flag = flag, !.seen = token,
                                                    !.plan = Plan(pref), !.est = est]]
    /\ UNCHANGED <<wallet, token, subUsed, rec, ses, job>>

\* An insufficient source: the next one, or the request is refused.
TryNext(r) ==
    req' = [req EXCEPT ![r].pc = IF Len(req[r].plan) > 1 THEN "try" ELSE "rejected",
                       ![r].plan = Tail(@)]

\* shouldTrust for the wallet.
Trusts(r, userQuota) ==
    /\ ~req[r].flag.force
    /\ TrustQuota > 0
    /\ req[r].seen > TrustQuota
    /\ userQuota > TrustQuota

TryWallet(r) ==
    /\ req[r].pc = "try"
    /\ Head(req[r].plan) = "wallet"
    /\ IF wallet <= 0 \/ wallet < req[r].est
       THEN TryNext(r) /\ UNCHANGED ses
       ELSE /\ ses' = [ses EXCEPT ![r] =
                        [NoSession EXCEPT !.trusted = Trusts(r, wallet),
                                          !.want = IF Trusts(r, wallet) THEN 0 ELSE req[r].est]]
            /\ Goto(r, IF ses'[r].want > 0 THEN "token" ELSE "fund")
    /\ UNCHANGED <<wallet, token, subUsed, rec, job>>

\* A subscription is always charged something, so that a record exists.
SubAmount(est) == IF est <= 0 THEN 1 ELSE est

\* Mutant: the estimate itself, which may be 0, is passed to preConsume.
SubQuotaUnadjusted(est) == est

\* The quota preConsume is told: the amount the subscription will be charged.
SubQuota(est) == SubAmount(est)

TrySubscription(r) ==
    /\ req[r].pc = "try"
    /\ Head(req[r].plan) = "sub"
    /\ ses' = [ses EXCEPT ![r] = [NoSession EXCEPT !.src = "sub", !.want = SubQuota(req[r].est)]]
    /\ Goto(r, IF ses'[r].want > 0 THEN "token" ELSE "fund")
    /\ UNCHANGED <<wallet, token, subUsed, rec, job>>

-----------------------------------------------------------------------------
(* preConsume: token first, then the source; a failure gives the token back. *)

PreConsumeToken(r) ==
    /\ req[r].pc = "token"
    /\ IF req[r].flag.playground \/ token >= ses[r].want
       THEN /\ UseToken(r, ses[r].want)
            /\ ses' = [ses EXCEPT ![r].tokenConsumed = ses[r].want]
            /\ Goto(r, "fund")
       ELSE /\ Goto(r, "rejected")
            /\ UNCHANGED <<token, ses>>
    /\ UNCHANGED <<wallet, subUsed, rec, job>>

PreConsumeTokenError(r) ==
    /\ "reserve" \in Faults
    /\ req[r].pc = "token" /\ ~req[r].flag.playground
    /\ Goto(r, "rejected")
    /\ UNCHANGED <<wallet, token, subUsed, rec, ses, job>>

\* TryReserveUserQuota, PreConsumeUserSubscription (with its record).
CanFund(r) ==
    IF ses[r].src = "wallet" THEN ses[r].want = 0 \/ wallet >= ses[r].want
    ELSE HasSub /\ SubTotal - subUsed >= SubAmount(req[r].est)

PreConsumeFund(r) ==
    LET amount == IF ses[r].src = "sub" THEN SubAmount(req[r].est) ELSE ses[r].want IN
    /\ req[r].pc = "fund"
    /\ CanFund(r)
    /\ Consume(ses[r].src, amount)
    /\ rec' = IF ses[r].src = "sub" THEN [rec EXCEPT ![r] = "consumed"] ELSE rec
    /\ ses' = [ses EXCEPT ![r].pre = ses[r].want, ![r].consumed = amount]
    /\ Goto(r, "open")
    /\ UNCHANGED <<token, job>>

\* Mutant: the token is not given back when the source is insufficient.
FundShortKeepsToken(r) ==
    /\ req[r].pc = "fund"
    /\ ~CanFund(r)
    /\ TryNext(r)
    /\ UNCHANGED <<wallet, token, subUsed, rec, ses, job>>

PreConsumeFundShort(r) ==
    /\ req[r].pc = "fund"
    /\ ~CanFund(r)
    /\ IF ses[r].tokenConsumed > 0 /\ ~req[r].flag.playground THEN Goto(r, "rollback") ELSE TryNext(r)
    /\ UNCHANGED <<wallet, token, subUsed, rec, ses, job>>

\* Any other error ends the request: no fallback to the next source.
PreConsumeFundError(r) ==
    /\ "reserve" \in Faults
    /\ req[r].pc = "fund" /\ ses[r].want > 0
    /\ req' = [req EXCEPT ![r].plan = <<ses[r].src>>,
                          ![r].pc = IF ses[r].tokenConsumed > 0 /\ ~req[r].flag.playground
                                    THEN "rollback" ELSE "rejected"]
    /\ UNCHANGED <<wallet, token, subUsed, rec, ses, job>>

Rollback(r) ==
    /\ req[r].pc = "rollback"
    /\ \/ UseToken(r, -ses[r].tokenConsumed)
       \/ "rollback" \in Faults /\ UNCHANGED token       \* only logged
    /\ ses' = [ses EXCEPT ![r].tokenConsumed = 0]
    /\ TryNext(r)
    /\ UNCHANGED <<wallet, subUsed, rec, job>>

-----------------------------------------------------------------------------
(* Reserve: PrepareTieredBillingForSelectedGroup raises the estimate before  *)
(* an attempt.  The wallet may go below zero here, the token may not.        *)

\* A realtime connection that is up neither retries nor fails any more.
Unsent(r) == req[r].flag.realtime => req[r].turns = 0

Reserve(r, target) ==
    /\ req[r].pc = "open" /\ Unsent(r)
    /\ ~ses[r].trusted
    /\ target > ses[r].pre
    /\ req' = [req EXCEPT ![r].pc = "rsvFund", ![r].delta = target - ses[r].pre]
    /\ UNCHANGED <<wallet, token, subUsed, rec, ses, job>>

\* reserveFunding; only the wallet remembers the amount in its funding source.
ReserveFunding(r) ==
    /\ req[r].pc = "rsvFund"
    /\ \/ /\ Accepts(ses[r].src, req[r].delta)
          /\ Consume(ses[r].src, req[r].delta)
          /\ ses' = IF ses[r].src = "wallet"
                    THEN [ses EXCEPT ![r].consumed = @ + req[r].delta] ELSE ses
          /\ Goto(r, "rsvToken")
       \/ /\ "reserve" \in Faults \/ ~Accepts(ses[r].src, req[r].delta)
          /\ Goto(r, "failing")
          /\ UNCHANGED <<wallet, subUsed, ses>>
    /\ UNCHANGED <<token, rec, job>>

ReserveToken(r) ==
    /\ req[r].pc = "rsvToken"
    /\ \/ /\ req[r].flag.playground \/ token >= req[r].delta
          /\ UseToken(r, req[r].delta)
          /\ ses' = [ses EXCEPT ![r].pre = @ + req[r].delta,
                                ![r].tokenConsumed = @ + req[r].delta,
                                ![r].extra = @ + req[r].delta]
          /\ Goto(r, "open")
       \/ /\ ~req[r].flag.playground
          /\ "reserve" \in Faults \/ token < req[r].delta
          /\ Goto(r, "rsvUndo")
          /\ UNCHANGED <<token, ses>>
    /\ UNCHANGED <<wallet, subUsed, rec, job>>

\* Mutant: the undo forgets WalletFunding.consumed, which Refund pays back.
UndoKeepsConsumed(r) ==
    /\ req[r].pc = "rsvUndo"
    /\ Consume(ses[r].src, -req[r].delta)
    /\ Goto(r, "failing")
    /\ UNCHANGED <<token, rec, ses, job>>

\* rollbackFundingReserve.
RollbackFundingReserve(r) ==
    /\ req[r].pc = "rsvUndo"
    /\ \/ /\ Consume(ses[r].src, -req[r].delta)
          /\ ses' = IF ses[r].src = "wallet"
                    THEN [ses EXCEPT ![r].consumed = @ - req[r].delta] ELSE ses
       \/ "undo" \in Faults /\ UNCHANGED <<wallet, subUsed, ses>>   \* only logged
    /\ Goto(r, "failing")
    /\ UNCHANGED <<token, rec, job>>

-----------------------------------------------------------------------------
(* Realtime sessions: each turn is checked and charged by PreWssConsumeQuota, *)
(* and added to the usage the session is settled with at its end.  (Its early *)
(* return for relayInfo.UsePrice is never taken: nothing sets that field, the *)
(* price settings are in relayInfo.PriceData.)                                *)

\* The balances PreWssConsumeQuota reads (the wallet's even for a subscription).
Affords(r, a) == wallet >= a /\ (req[r].flag.playground \/ token >= a)

Turn(r, a) ==
    /\ req[r].pc = "open" /\ req[r].flag.realtime
    /\ req[r].turns < Turns
    /\ req' = [req EXCEPT ![r].turns = @ + 1, ![r].actual = @ + a, ![r].delta = a,
                          ![r].pc = IF Affords(r, a) THEN "turnFund" ELSE "turnLast",
                          ![r].ok = ~Affords(r, a)]
    /\ UNCHANGED <<wallet, token, subUsed, rec, ses, job>>

\* A turn that was refused ends the session, whose epilogue counts and tries the
\* uncleared usage once more.
TurnLast(r) ==
    /\ req[r].pc = "turnLast"
    /\ req' = [req EXCEPT ![r].actual = @ + req[r].delta,
                          ![r].pc = IF Affords(r, req[r].delta) THEN "turnFund" ELSE "settle"]
    /\ UNCHANGED <<wallet, token, subUsed, rec, ses, job>>

\* PreWssConsumeQuota returned an error: the turn ends the session, and the error
\* of the epilogue's own attempt is ignored.
TurnFails(r) ==
    req' = [req EXCEPT ![r].pc = IF req[r].ok THEN "settle" ELSE "turnLast", ![r].ok = TRUE]

\* PostConsumeQuota: the source, then the token.  A balance that could not be read
\* ends the turn like a source that could not be charged.
TurnFund(r) ==
    /\ req[r].pc = "turnFund"
    /\ \/ /\ Accepts(ses[r].src, req[r].delta)
          /\ Consume(ses[r].src, req[r].delta)
          /\ Goto(r, "turnToken")
       \/ /\ "turn" \in Faults \/ ~Accepts(ses[r].src, req[r].delta)
          /\ TurnFails(r)
          /\ UNCHANGED <<wallet, subUsed>>
    /\ UNCHANGED <<token, rec, ses, job>>

\* A token that cannot be charged leaves the source charged.
TurnToken(r) ==
    /\ req[r].pc = "turnToken"
    /\ \/ /\ UseToken(r, req[r].delta)
          /\ Goto(r, IF req[r].ok THEN "settle" ELSE "open")
       \/ /\ "turn" \in Faults /\ ~req[r].flag.playground
          /\ TurnFails(r)
          /\ UNCHANGED token
    /\ UNCHANGED <<wallet, subUsed, rec, ses, job>>

-----------------------------------------------------------------------------
(* The upstream answers. *)

Succeed(r, actual) ==
    /\ req[r].pc = "open"
    /\ req' = [req EXCEPT ![r].pc = "settle", ![r].ok = TRUE,
                          ![r].actual = IF req[r].flag.realtime THEN @ ELSE actual]
    /\ UNCHANGED <<wallet, token, subUsed, rec, ses, job>>

Fail(r) ==
    /\ req[r].pc = "open" /\ Unsent(r)
    /\ Goto(r, "failing")
    /\ UNCHANGED <<wallet, token, subUsed, rec, ses, job>>

-----------------------------------------------------------------------------
(* Settle. *)

\* Mutant: the extra reservation is not counted as already charged.
SettleDeltaWithoutExtra(r) == req[r].actual - (ses[r].pre - ses[r].extra)

\* What is still to be charged (or given back).
SettleDelta(r) == req[r].actual - ses[r].pre

SettleEqual(r) ==
    /\ req[r].pc = "settle"
    /\ SettleDelta(r) = 0
    /\ ses' = [ses EXCEPT ![r].settled = TRUE]
    /\ Goto(r, "ended")
    /\ UNCHANGED <<wallet, token, subUsed, rec, job>>

SettleFund(r) ==
    /\ req[r].pc = "settle"
    /\ SettleDelta(r) # 0
    /\ Accepts(ses[r].src, SettleDelta(r))
    /\ Consume(ses[r].src, SettleDelta(r))
    /\ ses' = [ses EXCEPT ![r].fundingSettled = TRUE]
    /\ Goto(r, "settleToken")
    /\ UNCHANGED <<token, rec, job>>

\* Mutant: the settlement is tried again until the source accepts it.
SettleErrorRetries(r) ==
    /\ req[r].pc = "settle"
    /\ SettleDelta(r) # 0
    /\ "settle" \in Faults \/ ~Accepts(ses[r].src, SettleDelta(r))
    /\ Goto(r, "settle")
    /\ UNCHANGED <<wallet, token, subUsed, rec, ses, job>>

\* The source refuses: the caller only logs it and the estimate stays charged.
SettleError(r) ==
    /\ req[r].pc = "settle"
    /\ SettleDelta(r) # 0
    /\ "settle" \in Faults \/ ~Accepts(ses[r].src, SettleDelta(r))
    /\ Goto(r, "ended")
    /\ UNCHANGED <<wallet, token, subUsed, rec, ses, job>>

\* A token error is logged and the session counts as settled.
SettleToken(r) ==
    /\ req[r].pc = "settleToken"
    /\ \/ UseToken(r, SettleDelta(r))
       \/ "adjust" \in Faults /\ UNCHANGED token
    /\ ses' = [ses EXCEPT ![r].settled = TRUE]
    /\ Goto(r, "ended")
    /\ UNCHANGED <<wallet, subUsed, rec, job>>

-----------------------------------------------------------------------------
(* Refund, then the violation fee; the refund itself runs in a goroutine. *)

NeedsRefund(s) ==
    /\ ~s.settled /\ ~s.refunded /\ ~s.fundingSettled
    /\ s.tokenConsumed > 0 \/ (s.src = "sub" /\ s.consumed > 0)

Refund(r) ==
    /\ req[r].pc = "failing"
    /\ IF NeedsRefund(ses[r])
       THEN /\ ses' = [ses EXCEPT ![r].refunded = TRUE]
            /\ job' = [job EXCEPT ![r].pc = "fund"]
       ELSE UNCHANGED <<ses, job>>
    /\ Goto(r, "fee")
    /\ UNCHANGED <<wallet, token, subUsed, rec>>

\* ChargeViolationFeeIfNeeded: the error may or may not be a violation, and a
\* subscription may refuse the fee.
ViolationFee(r) ==
    /\ req[r].pc = "fee"
    /\ \/ /\ Goto(r, "ended")
          /\ UNCHANGED <<wallet, subUsed>>
       \/ /\ Fee > 0 /\ Accepts(ses[r].src, Fee)
          /\ Consume(ses[r].src, Fee)
          /\ req' = [req EXCEPT ![r].pc = "feeToken", ![r].fee = Fee]
    /\ UNCHANGED <<token, rec, ses, job>>

ViolationFeeToken(r) ==
    /\ req[r].pc = "feeToken"
    /\ UseToken(r, Fee)
    /\ Goto(r, "ended")
    /\ UNCHANGED <<wallet, subUsed, rec, ses, job>>

-----------------------------------------------------------------------------
(* The refund job. *)

JobGoto(r, pc) == job' = [job EXCEPT ![r].pc = pc]

\* refundWalletQuota(consumed): tried once, because it is not idempotent.
RefundWallet(r) ==
    /\ job[r].pc = "fund" /\ ses[r].src = "wallet"
    /\ \/ Consume("wallet", -ses[r].consumed)
       \/ "refund" \in Faults /\ UNCHANGED <<wallet, subUsed>>      \* only logged
    /\ JobGoto(r, "extra")
    /\ UNCHANGED <<token, rec, req, ses>>

\* RefundSubscriptionPreConsume: a record that is already refunded is left alone;
\* the usage is lowered by a transaction of its own ...
RefundSubUsage(r) ==
    /\ job[r].pc = "fund" /\ ses[r].src = "sub"
    /\ IF rec[r] = "refunded"
       THEN JobGoto(r, "extra") /\ UNCHANGED <<wallet, subUsed>>
       ELSE Consume("sub", -ses[r].consumed) /\ JobGoto(r, "record")
    /\ UNCHANGED <<token, rec, req, ses>>

\* ... and then the record is marked by the outer one.
RefundSubRecord(r) ==
    /\ job[r].pc = "record"
    /\ rec' = [rec EXCEPT ![r] = "refunded"]
    /\ JobGoto(r, "extra")
    /\ UNCHANGED <<wallet, token, subUsed, req, ses>>

\* Mutant: the attempts are not counted against the limit.
RetryForever(n) == TRUE

\* refundWithRetry goes round again.
RetryAgain(n) == n < MaxAttempts

\* An attempt fails, before its inner transaction or in the outer one after it.
RefundSubError(r) ==
    /\ ses[r].src = "sub"
    /\ \/ "refund" \in Faults /\ job[r].pc = "fund"
       \/ "record" \in Faults /\ job[r].pc = "record"
    /\ job' = [job EXCEPT ![r].tries = @ + 1,
                          ![r].pc = IF RetryAgain(job[r].tries + 1) THEN "fund" ELSE "extra"]
    /\ UNCHANGED <<wallet, token, subUsed, rec, req, ses>>

RefundExtra(r) ==
    /\ job[r].pc = "extra"
    /\ \/ /\ IF ses[r].src = "sub" THEN Consume("sub", -ses[r].extra)
                                   ELSE UNCHANGED <<wallet, subUsed>>
       \/ "extra" \in Faults /\ UNCHANGED <<wallet, subUsed>>
    /\ JobGoto(r, "token")
    /\ UNCHANGED <<token, rec, req, ses>>

RefundToken(r) ==
    /\ job[r].pc = "token"
    /\ \/ UseToken(r, -ses[r].tokenConsumed)
       \/ "give" \in Faults /\ UNCHANGED token
    /\ JobGoto(r, "done")
    /\ UNCHANGED <<wallet, subUsed, rec, req, ses>>

-----------------------------------------------------------------------------
RequestStep(r) ==
    \/ TryWallet(r) \/ TrySubscription(r)
    \/ PreConsumeToken(r) \/ PreConsumeTokenError(r)
    \/ PreConsumeFund(r) \/ PreConsumeFundShort(r) \/ PreConsumeFundError(r) \/ Rollback(r)
    \/ ReserveFunding(r) \/ ReserveToken(r) \/ RollbackFundingReserve(r)
    \/ TurnLast(r) \/ TurnFund(r) \/ TurnToken(r)
    \/ SettleEqual(r) \/ SettleFund(r) \/ SettleError(r) \/ SettleToken(r)
    \/ Refund(r) \/ ViolationFee(r) \/ ViolationFeeToken(r)

Upstream(r) ==
    \/ \E a \in Actuals : Succeed(r, a)
    \/ Fail(r)

JobStep(r) ==
    \/ RefundWallet(r) \/ RefundSubUsage(r) \/ RefundSubRecord(r) \/ RefundSubError(r)
    \/ RefundExtra(r) \/ RefundToken(r)

Next ==
    \E r \in Requests :
        \/ \E p \in Prefs, f \in Flags, e \in Estimates : Begin(r, p, f, e)
        \/ \E t \in Estimates : Reserve(r, t)
        \/ \E a \in Actuals \ {0} : Turn(r, a)
        \/ RequestStep(r) \/ Upstream(r) \/ JobStep(r)

Spec == Init /\ [][Next]_vars

\* A request's handler and a started goroutine keep running, and the upstream
\* call is bounded by the relay timeout.
FairSpec ==
    /\ Spec
    /\ \A r \in Requests : WF_vars(RequestStep(r)) /\ WF_vars(Upstream(r)) /\ WF_vars(JobStep(r))

-----------------------------------------------------------------------------
(* Properties. *)

\* The request and its refund job are over.
Over(r) == req[r].pc \in {"new", "rejected", "ended"} /\ job[r].pc \in {"none", "done"}

\* What a request has to pay: the actual cost once settled, the estimate when a
\* full subscription refused the settlement, nothing when it failed.
Charge(r) == (IF ses[r].settled THEN req[r].actual ELSE IF req[r].ok THEN ses[r].pre ELSE 0)
             + req[r].fee

Paid(S) == SumFunctionOnSet([r \in Requests |-> Charge(r)], S)
PaysBy(src) == {r \in Requests : req[r].pc = "ended" /\ ses[r].src = src}

\* Without database errors, when the requests are over every balance has fallen
\* by exactly what they had to pay, whatever source was tried, fallen back from,
\* topped up or refunded on the way and however their steps interleaved.
BooksBalance ==
    (\A r \in Requests : Over(r)) =>
        /\ wallet = InitWallet - Paid(PaysBy("wallet"))
        /\ subUsed = Paid(PaysBy("sub"))
        /\ token = InitToken - Paid({r \in Requests : req[r].pc = "ended" /\ ~req[r].flag.playground})

\* What a running request still has in a balance that nobody may give away: the
\* hold of a session that is neither settled nor being refunded.
Held(r) ==
    IF req[r].pc \in {"open", "rsvFund", "rsvToken", "rsvUndo", "turnLast", "turnFund", "turnToken",
                     "settle", "failing"}
    THEN ses[r].consumed + (IF ses[r].src = "sub" THEN ses[r].extra ELSE 0) ELSE 0
HeldBy(src) == SumFunctionOnSet([r \in Requests |-> Held(r)], {r \in Requests : ses[r].src = src})

\* Whatever fails and is retried or only logged, no refund, rollback or undo pays
\* out more than was taken: the balances never hold money that a running request
\* has paid in or that never existed.
NoOverRefund ==
    /\ wallet + HeldBy("wallet") <= InitWallet
    /\ subUsed >= HeldBy("sub")
    /\ token <= InitToken

\* Every request that began is finally over, its refund job included.
AllFinish == \A r \in Requests : req[r].pc # "new" ~> Over(r)
=============================================================================
