---------------------------- MODULE BillingProofs ----------------------------
(***************************************************************************)
(* Proofs about BillingSession and BillingEscrow.                          *)
(*                                                                         *)
(* Books relates what one request's handler, session and refund job know;  *)
(* FromWallet, FromSub and FromToken are what the request has taken from   *)
(* each balance according to them.  The balances and the sums of these     *)
(* amounts over all requests stay within what there was (NoOverRefund),    *)
(* and add up to it exactly when nothing fails (BooksBalance).             *)
(***************************************************************************)
EXTENDS BillingEscrow, SetSums, SequenceTheorems, TLAPS

Early == {"new", "try", "token", "fund", "rollback", "rejected"}

\* No session, or one that has not charged its source yet.
EarlyBooks(q, s, j) ==
    q.pc \in Early =>
        /\ s.consumed = 0 /\ s.extra = 0 /\ s.pre = 0
        /\ ~s.settled /\ ~s.fundingSettled /\ ~s.refunded /\ j.pc = "none"
        /\ q.fee = 0 /\ q.actual = 0 /\ ~q.ok /\ q.turns = 0
        /\ q.pc \in {"new", "token"} => s.tokenConsumed = 0
        /\ q.pc \in {"try", "rejected"} => s.tokenConsumed = 0 \/ q.flag.playground
        /\ q.pc \in {"fund", "rollback"} => s.tokenConsumed = s.want

\* A source is still to be tried, and a subscription's charge is what it will be.
PlanBooks(q, s) ==
    /\ q.pc \in {"try", "token", "fund", "rollback"} => q.plan # << >>
    /\ q.pc \in {"token", "fund", "rollback"} /\ s.src = "sub" => s.want = SubAmount(q.est)

\* The amount of a reservation between its funding and its token step.
Making(q) == IF q.pc \in {"rsvToken", "rsvUndo"} THEN q.delta ELSE 0

\* A session that has charged its source.
LateBooks(q, s) ==
    q.pc \notin Early =>
        /\ s.pre = s.want + s.extra
        /\ s.tokenConsumed = s.pre
        /\ s.src = "sub" => s.consumed = s.want /\ s.want > 0
        /\ s.src = "wallet" => s.consumed >= s.pre + Making(q)
        /\ q.pc \in {"rsvFund", "rsvToken", "rsvUndo"} => q.delta > 0
        /\ q.pc \in {"turnLast", "turnFund", "turnToken"} => q.delta >= 0

\* Which of the ends of a session has been reached.
EndBooks(q, s, j) ==
    /\ s.settled => q.pc = "ended"
    /\ s.fundingSettled => q.pc = "settleToken" \/ (q.pc = "ended" /\ s.settled)
    /\ q.pc = "settleToken" => s.fundingSettled
    /\ s.settled \/ s.fundingSettled => q.ok
    /\ q.pc \in {"settle", "settleToken", "turnLast"} => q.ok
    /\ q.pc \in {"open", "rsvFund", "rsvToken", "rsvUndo", "failing", "fee", "feeToken"} => ~q.ok
    /\ s.refunded <=> j.pc # "none"
    /\ s.refunded => q.pc \in {"fee", "feeToken", "ended"} /\ ~q.ok
    /\ q.pc \in {"fee", "feeToken", "ended"} /\ ~q.ok /\ ~s.refunded =>
           s.src = "wallet" /\ s.tokenConsumed = 0
    /\ q.fee > 0 => q.pc \in {"feeToken", "ended"} /\ ~q.ok
    /\ q.pc = "feeToken" => q.fee = Fee

JobBooks(s, j, c) ==
    /\ j.pc \in {"none", "fund", "record"} => j.tries < MaxAttempts /\ c # "refunded"
    /\ j.pc = "record" => s.src = "sub"

\* The books of a request: its handler q, session s, refund job j and record c.
BooksOf(q, s, j, c) ==
    /\ EarlyBooks(q, s, j) /\ PlanBooks(q, s) /\ LateBooks(q, s)
    /\ EndBooks(q, s, j) /\ JobBooks(s, j, c)

Books(r) == BooksOf(req[r], ses[r], job[r], rec[r])

\* Without database errors and realtime turns the books are exact.
Exact == Faults = {} /\ Turns = 0

ExactOf(q, s) ==
    /\ s.src = "wallet" /\ q.pc \notin Early => s.consumed = s.pre + Making(q)
    /\ q.pc \notin {"turnLast", "turnFund", "turnToken"}

-----------------------------------------------------------------------------
(* What a request has taken, by its own books. *)

Settled(s) == s.settled \/ s.fundingSettled

WalletPart(q, s, j) ==
    IF s.src # "wallet" THEN 0
    ELSE q.fee + (IF Settled(s) THEN q.actual
                  ELSE IF j.pc \in {"extra", "token", "done"} THEN 0 ELSE s.consumed)

SubPart(q, s, j) ==
    IF s.src # "sub" THEN 0
    ELSE q.fee + (IF Settled(s) THEN q.actual
                  ELSE IF j.pc \in {"token", "done"} THEN 0
                  ELSE IF j.pc \in {"record", "extra"} THEN s.extra
                  ELSE s.consumed + s.extra + Making(q))

\* A token whose settlement failed has not been charged for it.
TokenPart(q, s, j) ==
    IF q.flag.playground THEN 0
    ELSE (IF q.pc = "ended" THEN q.fee ELSE 0)
         + (IF s.settled THEN IF "adjust" \in Faults THEN 0 ELSE q.actual
            ELSE IF j.pc = "done" THEN 0 ELSE s.tokenConsumed)

FromWallet == [r \in Requests |-> WalletPart(req[r], ses[r], job[r])]
FromSub == [r \in Requests |-> SubPart(req[r], ses[r], job[r])]
FromToken == [r \in Requests |-> TokenPart(req[r], ses[r], job[r])]

\* No balance holds more than it should ...
Within ==
    /\ wallet + SumFunctionOnSet(FromWallet, Requests) <= InitWallet
    /\ subUsed >= SumFunctionOnSet(FromSub, Requests)
    /\ token + SumFunctionOnSet(FromToken, Requests) <= InitToken

\* ... or, when nothing fails, less.
Balanced ==
    /\ wallet + SumFunctionOnSet(FromWallet, Requests) = InitWallet
    /\ subUsed = SumFunctionOnSet(FromSub, Requests)
    /\ token + SumFunctionOnSet(FromToken, Requests) = InitToken

AllBooks == \A r \in Requests : Books(r)
AllExact == Exact => Balanced /\ \A r \in Requests : ExactOf(req[r], ses[r])
-----------------------------------------------------------------------------
(* Records, field by field. *)

RecType == {"none", "consumed", "refunded"}

QFields == {"pc", "flag", "plan", "est", "seen", "delta", "actual", "turns", "fee", "ok"}
SFields == {"src", "want", "pre", "tokenConsumed", "consumed", "extra", "trusted",
            "fundingSettled", "settled", "refunded"}
JFields == {"pc", "tries"}
Same(a, b, F) == \A f \in F : a[f] = b[f]

FieldTypes(q, s, j) ==
    /\ q.pc \in ReqPcs /\ q.flag \in Flag /\ q.est \in Nat /\ q.seen \in Int /\ q.delta \in Int
    /\ q.actual \in Nat /\ q.turns \in Nat /\ q.fee \in Nat
    /\ q.ok \in BOOLEAN
    /\ s.src \in Sources /\ s.want \in Nat /\ s.pre \in Nat /\ s.tokenConsumed \in Nat
    /\ s.consumed \in Nat /\ s.extra \in Nat /\ s.trusted \in BOOLEAN
    /\ s.fundingSettled \in BOOLEAN /\ s.settled \in BOOLEAN /\ s.refunded \in BOOLEAN
    /\ j.pc \in JobPcs /\ j.tries \in 0..MaxAttempts

\* The fields of typed records have their types.
LEMMA FieldsTyped ==
  ASSUME NEW q \in RequestType, NEW s \in SessionType, NEW j \in JobType
  PROVE  FieldTypes(q, s, j)
BY DEF FieldTypes, RequestType, SessionType, JobType

\* What is left of a plan after its first source.
LEMMA PlanTail ==
  ASSUME NEW p \in Seq(Sources), p # << >>
  PROVE  Tail(p) \in Seq(Sources) /\ (Len(p) > 1 => Tail(p) # << >>)
<1>1. Tail(p) \in Seq(Sources) /\ Len(Tail(p)) = Len(p) - 1 /\ Len(p) \in Nat
  OBVIOUS
<1>2. Tail(p) = << >> <=> Len(Tail(p)) = 0
  BY <1>1, EmptySeq
<1> QED BY <1>1, <1>2

\* Every preference names at least one source.
LEMMA PlanSources ==
  ASSUME NEW pref \in Prefs
  PROVE  Plan(pref) \in Seq(Sources) /\ Plan(pref) # << >>
<1>1. CASE pref = "subscription_only"
  BY <1>1 DEF Plan, Sources
<1>2. CASE pref = "wallet_only"
  BY <1>2 DEF Plan, Sources
<1>3. CASE pref = "wallet_first"
  BY <1>3 DEF Plan, Sources
<1>4. CASE pref = "subscription_first"
  <2>1. CASE ~HasSub
    BY <1>4, <2>1 DEF Plan, Sources
  <2>2. CASE HasSub /\ AllowOverflow
    BY <1>4, <2>2 DEF Plan, Sources
  <2>3. CASE HasSub /\ ~AllowOverflow
    BY <1>4, <2>3 DEF Plan, Sources
  <2> QED BY <2>1, <2>2, <2>3
<1> QED BY <1>1, <1>2, <1>3, <1>4, BillingConstants DEF AllPrefs

\* The records every request starts with have their types.
LEMMA EmptyRecords ==
  NewRequest \in RequestType /\ NoSession \in SessionType /\ NoJob \in JobType
BY DEF NewRequest, NoSession, NoJob, RequestType, SessionType, JobType, NoFlag, Flag, ReqPcs, JobPcs, Sources, MaxAttempts

LEMMA FeeNat == Fee \in Nat
BY BillingConstants

-----------------------------------------------------------------------------
(* One step of one request. *)

Typed(r) ==
    /\ req[r] \in RequestType /\ ses[r] \in SessionType
    /\ job[r] \in JobType /\ rec[r] \in RecType

\* Only the books of request r change.
Only(r) ==
    /\ req' = [req EXCEPT ![r] = req'[r]] /\ ses' = [ses EXCEPT ![r] = ses'[r]]
    /\ job' = [job EXCEPT ![r] = job'[r]] /\ rec' = [rec EXCEPT ![r] = rec'[r]]

\* No balance gains more than the request's books lose ...
Fairly(q, s, j, q2, s2, j2) ==
    /\ wallet' \in Int /\ token' \in Int /\ subUsed' \in Nat
    /\ wallet' + WalletPart(q2, s2, j2) <= wallet + WalletPart(q, s, j)
    /\ token' + TokenPart(q2, s2, j2) <= token + TokenPart(q, s, j)
    /\ "record" \notin Faults /\ SubPart(q, s, j) <= subUsed =>
           subUsed' - SubPart(q2, s2, j2) >= subUsed - SubPart(q, s, j)

\* ... and less only when something failed.
Exactly(q, s, j, q2, s2, j2) ==
    Exact /\ ExactOf(q, s) =>
        /\ ExactOf(q2, s2)
        /\ wallet' + WalletPart(q2, s2, j2) = wallet + WalletPart(q, s, j)
        /\ token' + TokenPart(q2, s2, j2) = token + TokenPart(q, s, j)
        /\ SubPart(q, s, j) <= subUsed =>
               subUsed' - SubPart(q2, s2, j2) = subUsed - SubPart(q, s, j)

\* Its phase moves as the abstract specification allows.
Phased(q, s, j, q2, s2, j2) ==
    Exact /\ ExactOf(q, s) =>
        \/ /\ PhaseOf(q2, s2, j2) = PhaseOf(q, s, j)
           /\ PhaseOf(q, s, j) = "held" \/ ChargeOf(q2, s2, j2) = ChargeOf(q, s, j)
        \/ PhaseOf(q, s, j) \in {"idle", "held"} /\ PhaseOf(q2, s2, j2) \in {"held", "released"}
        \/ PhaseOf(q, s, j) = "held" /\ PhaseOf(q2, s2, j2) = "committed"

\* Everything a step of request r keeps.  The lemmas below show it action by
\* action, all in the same way: what the action does to the records (<1>2), which
\* of their fields change in each of its cases, and from these field facts the
\* books, the balances and the abstract phase.
Step(r) ==
    /\ Only(r) /\ Typed(r)' /\ Books(r)'
    /\ Fairly(req[r], ses[r], job[r], req'[r], ses'[r], job'[r])
    /\ Exactly(req[r], ses[r], job[r], req'[r], ses'[r], job'[r])
    /\ Phased(req[r], ses[r], job[r], req'[r], ses'[r], job'[r])

-----------------------------------------------------------------------------
(* NewBillingSession: sources in order. *)

LEMMA BeginStep ==
  ASSUME TypeOK, NEW r \in Requests, Books(r), NEW pref \in Prefs, NEW flag \in Flags, NEW est \in Estimates,
         Begin(r, pref, flag, est)
  PROVE  Step(r)
<1> DEFINE q == req[r]  s == ses[r]  j == job[r]  c == rec[r]
           q2 == req'[r]  s2 == ses'[r]  j2 == job'[r]  c2 == rec'[r]
<1>1. q.pc = "new"
  BY DEF Begin
<1>2. /\ q2 = [NewRequest EXCEPT !.pc = "try", !.flag = flag, !.seen = token, !.plan = Plan(pref), !.est = est]
      /\ s2 = s /\ j2 = j /\ c2 = c /\ wallet' = wallet /\ subUsed' = subUsed /\ token' = token
  BY DEF TypeOK, Begin
<1>3. Only(r)
  BY Zenon DEF Only, TypeOK, Begin
<1>4. /\ q \in RequestType /\ s \in SessionType /\ j \in JobType /\ c \in RecType
      /\ BooksOf(q, s, j, c) /\ wallet \in Int /\ token \in Int /\ subUsed \in Nat
  BY DEF TypeOK, Books, RecType
<1>5. FieldTypes(q, s, j)
  BY <1>4, FieldsTyped
<1> HIDE DEF q, s, j, c, q2, s2, j2, c2
<1> USE DEF Same, QFields, SFields, JFields, FieldTypes, Early, Making
<1> QED
  <2>1. /\ s2 = s /\ j2 = j /\ c2 = c /\ wallet' = wallet /\ subUsed' = subUsed /\ token' = token
    BY <1>2
  <2>2. /\ "try" \in ReqPcs /\ flag \in Flag /\ token \in Int /\ Plan(pref) \in Seq(Sources)
        /\ est \in Nat
    BY <1>1, <1>4, <1>5, <2>1, BillingConstants, PlanSources DEF ReqPcs, JobPcs, RecType, Sources
  <2>3. /\ s.consumed = 0 /\ s.extra = 0 /\ s.pre = 0 /\ q.fee = 0 /\ q.actual = 0 /\ q.turns = 0
        /\ ~s.settled /\ ~s.fundingSettled /\ ~s.refunded /\ ~q.ok /\ j.pc = "none"
        /\ s.tokenConsumed = 0 /\ Plan(pref) # << >>
    BY <1>1, <1>4, <1>5, <2>1, <2>2, BillingConstants, PlanSources
       DEF BooksOf, EarlyBooks, LateBooks, EndBooks, JobBooks, PlanBooks
  <2>4. q2 \in RequestType
    BY <1>2, <2>2, EmptyRecords, Zenon DEF RequestType
  <2>5. /\ q2.pc = "try" /\ q2.flag = flag /\ q2.plan = Plan(pref) /\ q2.est = est
        /\ q2.seen = token /\ q2.delta = 0 /\ q2.actual = 0 /\ q2.turns = 0 /\ q2.fee = 0
        /\ q2.ok = FALSE
    BY <1>2 DEF NewRequest
  <2>6. BooksOf(q2, s2, j2, c2)
    BY <1>1, <1>4, <1>5, <2>1, <2>2, <2>3, <2>5
       DEF BooksOf, EarlyBooks, LateBooks, EndBooks, JobBooks, PlanBooks
  <2>7. Fairly(q, s, j, q2, s2, j2)
    BY <1>1, <1>4, <1>5, <2>1, <2>2, <2>3, <2>5 DEF Fairly, WalletPart, SubPart, TokenPart, Settled
  <2>8. Exactly(q, s, j, q2, s2, j2)
    BY <1>1, <1>4, <1>5, <2>1, <2>2, <2>3, <2>5
       DEF Exactly, Exact, ExactOf, WalletPart, SubPart, TokenPart, Settled
  <2>9. Phased(q, s, j, q2, s2, j2)
    BY <1>1, <1>4, <1>5, <2>1, <2>2, <2>3, <2>5
       DEF Phased, Exact, ExactOf, BooksOf, EarlyBooks, LateBooks, EndBooks, JobBooks, PhaseOf,
           ChargeOf, Taken, Returned
  <2> QED
    BY <1>3, <1>4, <2>1, <2>2, <2>4, <2>5, <2>6, <2>7, <2>8, <2>9
       DEF Step, q, s, j, c, q2, s2, j2, c2, Typed, Books

LEMMA TryWalletStep ==
  ASSUME TypeOK, NEW r \in Requests, Books(r), TryWallet(r)
  PROVE  Step(r)
<1> DEFINE q == req[r]  s == ses[r]  j == job[r]  c == rec[r]
           q2 == req'[r]  s2 == ses'[r]  j2 == job'[r]  c2 == rec'[r]
<1>1. q.pc = "try"
  BY DEF TryWallet, TryNext, Goto
<1>2. \/ /\ q2 = [q EXCEPT !.pc = (IF Len(q.plan) > 1 THEN "try" ELSE "rejected"), !.plan = Tail(@)]
         /\ s2 = s /\ j2 = j /\ c2 = c /\ wallet' = wallet /\ subUsed' = subUsed /\ token' = token
      \/ /\ q2 = [q EXCEPT !.pc = "token"]
         /\ s2 = [NoSession EXCEPT !.trusted = Trusts(r, wallet), !.want = q.est]
         /\ j2 = j /\ c2 = c /\ wallet' = wallet /\ subUsed' = subUsed /\ token' = token
      \/ /\ q2 = [q EXCEPT !.pc = "fund"]
         /\ s2 = [NoSession EXCEPT !.trusted = Trusts(r, wallet), !.want = 0]
         /\ j2 = j /\ c2 = c /\ wallet' = wallet /\ subUsed' = subUsed /\ token' = token
  <2>1. CASE wallet <= 0 \/ wallet < req[r].est
    BY <2>1 DEF TypeOK, TryWallet, TryNext
  <2>2. CASE ~(wallet <= 0 \/ wallet < req[r].est)
    <3> DEFINE w == IF Trusts(r, wallet) THEN 0 ELSE q.est
    <3>1. /\ s2 = [NoSession EXCEPT !.trusted = Trusts(r, wallet), !.want = w]
          /\ q2 = [q EXCEPT !.pc = IF s2.want > 0 THEN "token" ELSE "fund"]
          /\ j2 = j /\ c2 = c /\ wallet' = wallet /\ subUsed' = subUsed /\ token' = token
      BY <2>2 DEF TypeOK, TryWallet, Goto
    <3>2. s2.want = w
      BY <3>1 DEF NoSession
    <3>3. q.est \in Nat
      BY DEF TypeOK, RequestType
    <3>4. w = 0 \/ (w = q.est /\ q.est > 0)
      BY <3>3
    <3> HIDE DEF w
    <3>5. CASE w = 0
      BY <3>1, <3>2, <3>5
    <3>6. CASE w = q.est /\ q.est > 0
      BY <3>1, <3>2, <3>6
    <3> QED BY <3>4, <3>5, <3>6
  <2> QED BY <2>1, <2>2
<1>3. Only(r)
  BY Zenon DEF Only, TypeOK, TryWallet, TryNext, Goto
<1>4. /\ q \in RequestType /\ s \in SessionType /\ j \in JobType /\ c \in RecType
      /\ BooksOf(q, s, j, c) /\ wallet \in Int /\ token \in Int /\ subUsed \in Nat
  BY DEF TypeOK, Books, RecType
<1>5. FieldTypes(q, s, j)
  BY <1>4, FieldsTyped
<1> HIDE DEF q, s, j, c, q2, s2, j2, c2
<1> USE DEF Same, QFields, SFields, JFields, FieldTypes, Early, Making
<1>6. CASE /\ q2 = [q EXCEPT !.pc = (IF Len(q.plan) > 1 THEN "try" ELSE "rejected"), !.plan = Tail(@)]
           /\ s2 = s /\ j2 = j /\ c2 = c /\ wallet' = wallet /\ subUsed' = subUsed /\ token' = token
  <2>1. /\ s2 = s /\ j2 = j /\ c2 = c /\ wallet' = wallet /\ subUsed' = subUsed /\ token' = token
    BY <1>6
  <2>2. /\ (IF Len(q.plan) > 1 THEN "try" ELSE "rejected") \in ReqPcs /\ Tail(q.plan) \in Seq(Sources)
    BY <1>1, <1>4, <1>5, <2>1, PlanTail
       DEF ReqPcs, JobPcs, RecType, Sources, RequestType, BooksOf, PlanBooks
  <2>3. /\ s.consumed = 0 /\ s.extra = 0 /\ s.pre = 0 /\ q.fee = 0 /\ q.actual = 0 /\ q.turns = 0
        /\ ~s.settled /\ ~s.fundingSettled /\ ~s.refunded /\ ~q.ok /\ j.pc = "none"
        /\ s.tokenConsumed = 0 \/ q.flag.playground
    BY <1>1, <1>4, <1>5, <2>1, <2>2
       DEF BooksOf, EarlyBooks, LateBooks, EndBooks, JobBooks, PlanBooks
  <2>4. q2 \in RequestType
    BY <1>4, <1>6, <2>2, Zenon DEF RequestType
  <2>5. /\ q2.pc = (IF Len(q.plan) > 1 THEN "try" ELSE "rejected")
        /\ q2.plan = Tail(q.plan)
        /\ Same(q2, q, QFields \ {"pc", "plan"})
    BY <1>4, <1>6, <2>2 DEF RequestType
  <2>6. q2.pc \in {"try", "rejected"} /\ Same(q2, q, QFields \ {"pc", "plan"})
    BY <2>5 
  <2>7. q2.pc = "try" => q2.plan # << >>
    BY <1>1, <1>4, <2>5, PlanTail DEF RequestType, BooksOf, PlanBooks
  <2>8. BooksOf(q2, s2, j2, c2)
    BY <1>1, <1>4, <1>5, <2>1, <2>3, <2>6, <2>7
       DEF BooksOf, EarlyBooks, LateBooks, EndBooks, JobBooks, PlanBooks
  <2>9. Fairly(q, s, j, q2, s2, j2)
    BY <1>1, <1>4, <1>5, <2>1, <2>3, <2>6 DEF Fairly, WalletPart, SubPart, TokenPart, Settled
  <2>10. Exactly(q, s, j, q2, s2, j2)
    BY <1>1, <1>4, <1>5, <2>1, <2>3, <2>6
       DEF Exactly, Exact, ExactOf, WalletPart, SubPart, TokenPart, Settled
  <2>11. Phased(q, s, j, q2, s2, j2)
    BY <1>1, <1>4, <1>5, <2>1, <2>3, <2>6
       DEF Phased, Exact, ExactOf, BooksOf, EarlyBooks, LateBooks, EndBooks, JobBooks, PhaseOf,
           ChargeOf, Taken, Returned
  <2> QED
    BY <1>3, <1>4, <2>1, <2>2, <2>4, <2>5, <2>6, <2>7, <2>8, <2>9, <2>10, <2>11
       DEF Step, q, s, j, c, q2, s2, j2, c2, Typed, Books
<1>7. CASE /\ q2 = [q EXCEPT !.pc = "token"]
           /\ s2 = [NoSession EXCEPT !.trusted = Trusts(r, wallet), !.want = q.est]
           /\ j2 = j /\ c2 = c /\ wallet' = wallet /\ subUsed' = subUsed /\ token' = token
  <2>1. /\ j2 = j /\ c2 = c /\ wallet' = wallet /\ subUsed' = subUsed /\ token' = token
    BY <1>7
  <2>2. "token" \in ReqPcs /\ Trusts(r, wallet) \in BOOLEAN /\ q.est \in Nat
    BY <1>1, <1>4, <1>5, <2>1 DEF ReqPcs, JobPcs, RecType, Sources, Trusts
  <2>3. /\ s.consumed = 0 /\ s.extra = 0 /\ s.pre = 0 /\ q.fee = 0 /\ q.actual = 0 /\ q.turns = 0
        /\ ~s.settled /\ ~s.fundingSettled /\ ~s.refunded /\ ~q.ok /\ j.pc = "none"
        /\ s.tokenConsumed = 0 \/ q.flag.playground
    BY <1>1, <1>4, <1>5, <2>1, <2>2
       DEF BooksOf, EarlyBooks, LateBooks, EndBooks, JobBooks, PlanBooks
  <2>4. q2 \in RequestType
    BY <1>4, <1>7, <2>2, Zenon DEF RequestType
  <2>5. /\ q2.pc = "token"
        /\ Same(q2, q, QFields \ {"pc"})
    BY <1>4, <1>7, <2>2 DEF RequestType
  <2>6. s2 \in SessionType
    BY <1>7, <2>2, EmptyRecords, Zenon DEF SessionType
  <2>7. /\ s2.src = "wallet" /\ s2.want = q.est /\ s2.pre = 0 /\ s2.tokenConsumed = 0
        /\ s2.consumed = 0 /\ s2.extra = 0 /\ s2.trusted = Trusts(r, wallet)
        /\ s2.fundingSettled = FALSE /\ s2.settled = FALSE /\ s2.refunded = FALSE
    BY <1>7 DEF NoSession
  <2>8. BooksOf(q2, s2, j2, c2)
    BY <1>1, <1>4, <1>5, <2>1, <2>2, <2>3, <2>5, <2>7
       DEF BooksOf, EarlyBooks, LateBooks, EndBooks, JobBooks, PlanBooks
  <2>9. Fairly(q, s, j, q2, s2, j2)
    BY <1>1, <1>4, <1>5, <2>1, <2>2, <2>3, <2>5, <2>7
       DEF Fairly, WalletPart, SubPart, TokenPart, Settled
  <2>10. Exactly(q, s, j, q2, s2, j2)
    BY <1>1, <1>4, <1>5, <2>1, <2>2, <2>3, <2>5, <2>7
       DEF Exactly, Exact, ExactOf, WalletPart, SubPart, TokenPart, Settled
  <2>11. Phased(q, s, j, q2, s2, j2)
    BY <1>1, <1>4, <1>5, <2>1, <2>2, <2>3, <2>5, <2>7
       DEF Phased, Exact, ExactOf, BooksOf, EarlyBooks, LateBooks, EndBooks, JobBooks, PhaseOf,
           ChargeOf, Taken, Returned
  <2> QED
    BY <1>3, <1>4, <2>1, <2>2, <2>4, <2>5, <2>6, <2>7, <2>8, <2>9, <2>10, <2>11
       DEF Step, q, s, j, c, q2, s2, j2, c2, Typed, Books
<1>8. CASE /\ q2 = [q EXCEPT !.pc = "fund"]
           /\ s2 = [NoSession EXCEPT !.trusted = Trusts(r, wallet), !.want = 0]
           /\ j2 = j /\ c2 = c /\ wallet' = wallet /\ subUsed' = subUsed /\ token' = token
  <2>1. /\ j2 = j /\ c2 = c /\ wallet' = wallet /\ subUsed' = subUsed /\ token' = token
    BY <1>8
  <2>2. "fund" \in ReqPcs /\ Trusts(r, wallet) \in BOOLEAN /\ 0 \in Nat
    BY <1>1, <1>4, <1>5, <2>1 DEF ReqPcs, JobPcs, RecType, Sources, Trusts
  <2>3. /\ s.consumed = 0 /\ s.extra = 0 /\ s.pre = 0 /\ q.fee = 0 /\ q.actual = 0 /\ q.turns = 0
        /\ ~s.settled /\ ~s.fundingSettled /\ ~s.refunded /\ ~q.ok /\ j.pc = "none"
        /\ s.tokenConsumed = 0 \/ q.flag.playground
    BY <1>1, <1>4, <1>5, <2>1, <2>2
       DEF BooksOf, EarlyBooks, LateBooks, EndBooks, JobBooks, PlanBooks
  <2>4. q2 \in RequestType
    BY <1>4, <1>8, <2>2, Zenon DEF RequestType
  <2>5. /\ q2.pc = "fund"
        /\ Same(q2, q, QFields \ {"pc"})
    BY <1>4, <1>8, <2>2 DEF RequestType
  <2>6. s2 \in SessionType
    BY <1>8, <2>2, EmptyRecords, Zenon DEF SessionType
  <2>7. /\ s2.src = "wallet" /\ s2.want = 0 /\ s2.pre = 0 /\ s2.tokenConsumed = 0 /\ s2.consumed = 0
        /\ s2.extra = 0 /\ s2.trusted = Trusts(r, wallet) /\ s2.fundingSettled = FALSE
        /\ s2.settled = FALSE /\ s2.refunded = FALSE
    BY <1>8 DEF NoSession
  <2>8. BooksOf(q2, s2, j2, c2)
    BY <1>1, <1>4, <1>5, <2>1, <2>2, <2>3, <2>5, <2>7
       DEF BooksOf, EarlyBooks, LateBooks, EndBooks, JobBooks, PlanBooks
  <2>9. Fairly(q, s, j, q2, s2, j2)
    BY <1>1, <1>4, <1>5, <2>1, <2>2, <2>3, <2>5, <2>7
       DEF Fairly, WalletPart, SubPart, TokenPart, Settled
  <2>10. Exactly(q, s, j, q2, s2, j2)
    BY <1>1, <1>4, <1>5, <2>1, <2>2, <2>3, <2>5, <2>7
       DEF Exactly, Exact, ExactOf, WalletPart, SubPart, TokenPart, Settled
  <2>11. Phased(q, s, j, q2, s2, j2)
    BY <1>1, <1>4, <1>5, <2>1, <2>2, <2>3, <2>5, <2>7
       DEF Phased, Exact, ExactOf, BooksOf, EarlyBooks, LateBooks, EndBooks, JobBooks, PhaseOf,
           ChargeOf, Taken, Returned
  <2> QED
    BY <1>3, <1>4, <2>1, <2>2, <2>4, <2>5, <2>6, <2>7, <2>8, <2>9, <2>10, <2>11
       DEF Step, q, s, j, c, q2, s2, j2, c2, Typed, Books
<1> QED BY <1>2, <1>6, <1>7, <1>8 DEF q, s, j, c, q2, s2, j2, c2

LEMMA TrySubscriptionStep ==
  ASSUME TypeOK, NEW r \in Requests, Books(r), TrySubscription(r)
  PROVE  Step(r)
<1> DEFINE q == req[r]  s == ses[r]  j == job[r]  c == rec[r]
           q2 == req'[r]  s2 == ses'[r]  j2 == job'[r]  c2 == rec'[r]
<1>1. q.pc = "try"
  BY DEF TrySubscription, Goto
<1>2. /\ q2 = [q EXCEPT !.pc = "token"]
      /\ s2 = [NoSession EXCEPT !.src = "sub", !.want = SubAmount(q.est)]
      /\ j2 = j /\ c2 = c /\ wallet' = wallet /\ subUsed' = subUsed /\ token' = token
  <2>1. /\ s2 = [NoSession EXCEPT !.src = "sub", !.want = SubAmount(q.est)]
        /\ q2 = [q EXCEPT !.pc = IF s2.want > 0 THEN "token" ELSE "fund"]
        /\ j2 = j /\ c2 = c /\ wallet' = wallet /\ subUsed' = subUsed /\ token' = token
    BY DEF TypeOK, TrySubscription, Goto, SubQuota
  <2>2. s2.want = SubAmount(q.est)
    BY <2>1 DEF NoSession
  <2>3. SubAmount(q.est) > 0
    BY DEF TypeOK, RequestType, SubAmount
  <2> QED BY <2>1, <2>2, <2>3
<1>3. Only(r)
  BY Zenon DEF Only, TypeOK, TrySubscription, Goto
<1>4. /\ q \in RequestType /\ s \in SessionType /\ j \in JobType /\ c \in RecType
      /\ BooksOf(q, s, j, c) /\ wallet \in Int /\ token \in Int /\ subUsed \in Nat
  BY DEF TypeOK, Books, RecType
<1>5. FieldTypes(q, s, j)
  BY <1>4, FieldsTyped
<1> HIDE DEF q, s, j, c, q2, s2, j2, c2
<1> USE DEF Same, QFields, SFields, JFields, FieldTypes, Early, Making
<1> QED
  <2>1. /\ j2 = j /\ c2 = c /\ wallet' = wallet /\ subUsed' = subUsed /\ token' = token
    BY <1>2
  <2>2. "token" \in ReqPcs /\ "sub" \in Sources /\ SubAmount(q.est) \in Nat
    BY <1>1, <1>4, <1>5, <2>1 DEF ReqPcs, JobPcs, RecType, Sources, SubAmount
  <2>3. /\ s.consumed = 0 /\ s.extra = 0 /\ s.pre = 0 /\ q.fee = 0 /\ q.actual = 0 /\ q.turns = 0
        /\ ~s.settled /\ ~s.fundingSettled /\ ~s.refunded /\ ~q.ok /\ j.pc = "none"
        /\ s.tokenConsumed = 0 \/ q.flag.playground
    BY <1>1, <1>4, <1>5, <2>1, <2>2
       DEF BooksOf, EarlyBooks, LateBooks, EndBooks, JobBooks, PlanBooks
  <2>4. q2 \in RequestType
    BY <1>2, <1>4, <2>2, Zenon DEF RequestType
  <2>5. /\ q2.pc = "token"
        /\ Same(q2, q, QFields \ {"pc"})
    BY <1>2, <1>4, <2>2 DEF RequestType
  <2>6. s2 \in SessionType
    BY <1>2, <2>2, EmptyRecords, Zenon DEF SessionType
  <2>7. /\ s2.src = "sub" /\ s2.want = SubAmount(q.est) /\ s2.pre = 0 /\ s2.tokenConsumed = 0
        /\ s2.consumed = 0 /\ s2.extra = 0 /\ s2.trusted = FALSE /\ s2.fundingSettled = FALSE
        /\ s2.settled = FALSE /\ s2.refunded = FALSE
    BY <1>2 DEF NoSession
  <2>8. BooksOf(q2, s2, j2, c2)
    BY <1>1, <1>4, <1>5, <2>1, <2>2, <2>3, <2>5, <2>7
       DEF BooksOf, EarlyBooks, LateBooks, EndBooks, JobBooks, PlanBooks
  <2>9. Fairly(q, s, j, q2, s2, j2)
    BY <1>1, <1>4, <1>5, <2>1, <2>2, <2>3, <2>5, <2>7
       DEF Fairly, WalletPart, SubPart, TokenPart, Settled
  <2>10. Exactly(q, s, j, q2, s2, j2)
    BY <1>1, <1>4, <1>5, <2>1, <2>2, <2>3, <2>5, <2>7
       DEF Exactly, Exact, ExactOf, WalletPart, SubPart, TokenPart, Settled
  <2>11. Phased(q, s, j, q2, s2, j2)
    BY <1>1, <1>4, <1>5, <2>1, <2>2, <2>3, <2>5, <2>7
       DEF Phased, Exact, ExactOf, BooksOf, EarlyBooks, LateBooks, EndBooks, JobBooks, PhaseOf,
           ChargeOf, Taken, Returned
  <2> QED
    BY <1>3, <1>4, <2>1, <2>2, <2>4, <2>5, <2>6, <2>7, <2>8, <2>9, <2>10, <2>11
       DEF Step, q, s, j, c, q2, s2, j2, c2, Typed, Books

-----------------------------------------------------------------------------
(* preConsume: the token, then the source; a failure gives the token back. *)

LEMMA PreConsumeTokenStep ==
  ASSUME TypeOK, NEW r \in Requests, Books(r), PreConsumeToken(r)
  PROVE  Step(r)
<1> DEFINE q == req[r]  s == ses[r]  j == job[r]  c == rec[r]
           q2 == req'[r]  s2 == ses'[r]  j2 == job'[r]  c2 == rec'[r]
<1>1. q.pc = "token"
  BY DEF PreConsumeToken, Goto, UseToken
<1>2. \/ /\ q2 = [q EXCEPT !.pc = "fund"]
         /\ s2 = [s EXCEPT !.tokenConsumed = s.want]
         /\ j2 = j /\ c2 = c /\ wallet' = wallet /\ subUsed' = subUsed
         /\ token' = IF q.flag.playground THEN token ELSE token - s.want
      \/ /\ q2 = [q EXCEPT !.pc = "rejected"]
         /\ s2 = s /\ j2 = j /\ c2 = c /\ wallet' = wallet /\ subUsed' = subUsed /\ token' = token
  BY DEF TypeOK, PreConsumeToken, Goto, UseToken
<1>3. Only(r)
  BY Zenon DEF Only, TypeOK, PreConsumeToken, Goto, UseToken
<1>4. /\ q \in RequestType /\ s \in SessionType /\ j \in JobType /\ c \in RecType
      /\ BooksOf(q, s, j, c) /\ wallet \in Int /\ token \in Int /\ subUsed \in Nat
  BY DEF TypeOK, Books, RecType
<1>5. FieldTypes(q, s, j)
  BY <1>4, FieldsTyped
<1> HIDE DEF q, s, j, c, q2, s2, j2, c2
<1> USE DEF Same, QFields, SFields, JFields, FieldTypes, Early, Making
<1>6. CASE /\ q2 = [q EXCEPT !.pc = "fund"]
           /\ s2 = [s EXCEPT !.tokenConsumed = s.want]
           /\ j2 = j /\ c2 = c /\ wallet' = wallet /\ subUsed' = subUsed
           /\ token' = IF q.flag.playground THEN token ELSE token - s.want
  <2>1. /\ j2 = j /\ c2 = c /\ wallet' = wallet /\ subUsed' = subUsed
        /\ token' = IF q.flag.playground THEN token ELSE token - s.want
    BY <1>6
  <2>2. "fund" \in ReqPcs /\ s.want \in Nat
    BY <1>1, <1>4, <1>5, <2>1 DEF ReqPcs, JobPcs, RecType, Sources
  <2>3. /\ s.consumed = 0 /\ s.extra = 0 /\ s.pre = 0 /\ q.fee = 0 /\ q.actual = 0 /\ q.turns = 0
        /\ ~s.settled /\ ~s.fundingSettled /\ ~s.refunded /\ ~q.ok /\ j.pc = "none"
        /\ s.tokenConsumed = 0
    BY <1>1, <1>4, <1>5, <2>1, <2>2
       DEF BooksOf, EarlyBooks, LateBooks, EndBooks, JobBooks, PlanBooks
  <2>4. q2 \in RequestType
    BY <1>4, <1>6, <2>2, Zenon DEF RequestType
  <2>5. /\ q2.pc = "fund"
        /\ Same(q2, q, QFields \ {"pc"})
    BY <1>4, <1>6, <2>2 DEF RequestType
  <2>6. s2 \in SessionType
    BY <1>4, <1>6, <2>2, Zenon DEF SessionType
  <2>7. /\ s2.tokenConsumed = s.want
        /\ Same(s2, s, SFields \ {"tokenConsumed"})
    BY <1>4, <1>6, <2>2 DEF SessionType
  <2>8. BooksOf(q2, s2, j2, c2)
    BY <1>1, <1>4, <1>5, <2>1, <2>2, <2>3, <2>5, <2>7
       DEF BooksOf, EarlyBooks, LateBooks, EndBooks, JobBooks, PlanBooks
  <2>9. Fairly(q, s, j, q2, s2, j2)
    BY <1>1, <1>4, <1>5, <2>1, <2>2, <2>3, <2>5, <2>7
       DEF Fairly, WalletPart, SubPart, TokenPart, Settled
  <2>10. Exactly(q, s, j, q2, s2, j2)
    BY <1>1, <1>4, <1>5, <2>1, <2>2, <2>3, <2>5, <2>7
       DEF Exactly, Exact, ExactOf, WalletPart, SubPart, TokenPart, Settled
  <2>11. Phased(q, s, j, q2, s2, j2)
    BY <1>1, <1>4, <1>5, <2>1, <2>2, <2>3, <2>5, <2>7
       DEF Phased, Exact, ExactOf, BooksOf, EarlyBooks, LateBooks, EndBooks, JobBooks, PhaseOf,
           ChargeOf, Taken, Returned
  <2> QED
    BY <1>3, <1>4, <2>1, <2>2, <2>4, <2>5, <2>6, <2>7, <2>8, <2>9, <2>10, <2>11
       DEF Step, q, s, j, c, q2, s2, j2, c2, Typed, Books
<1>7. CASE /\ q2 = [q EXCEPT !.pc = "rejected"]
           /\ s2 = s /\ j2 = j /\ c2 = c /\ wallet' = wallet /\ subUsed' = subUsed /\ token' = token
  <2>1. /\ s2 = s /\ j2 = j /\ c2 = c /\ wallet' = wallet /\ subUsed' = subUsed /\ token' = token
    BY <1>7
  <2>2. "rejected" \in ReqPcs
    BY <1>1, <1>4, <1>5, <2>1 DEF ReqPcs, JobPcs, RecType, Sources
  <2>3. /\ s.consumed = 0 /\ s.extra = 0 /\ s.pre = 0 /\ q.fee = 0 /\ q.actual = 0 /\ q.turns = 0
        /\ ~s.settled /\ ~s.fundingSettled /\ ~s.refunded /\ ~q.ok /\ j.pc = "none"
        /\ s.tokenConsumed = 0
    BY <1>1, <1>4, <1>5, <2>1, <2>2
       DEF BooksOf, EarlyBooks, LateBooks, EndBooks, JobBooks, PlanBooks
  <2>4. q2 \in RequestType
    BY <1>4, <1>7, <2>2, Zenon DEF RequestType
  <2>5. /\ q2.pc = "rejected"
        /\ Same(q2, q, QFields \ {"pc"})
    BY <1>4, <1>7, <2>2 DEF RequestType
  <2>6. BooksOf(q2, s2, j2, c2)
    BY <1>1, <1>4, <1>5, <2>1, <2>2, <2>3, <2>5
       DEF BooksOf, EarlyBooks, LateBooks, EndBooks, JobBooks, PlanBooks
  <2>7. Fairly(q, s, j, q2, s2, j2)
    BY <1>1, <1>4, <1>5, <2>1, <2>2, <2>3, <2>5 DEF Fairly, WalletPart, SubPart, TokenPart, Settled
  <2>8. Exactly(q, s, j, q2, s2, j2)
    BY <1>1, <1>4, <1>5, <2>1, <2>2, <2>3, <2>5
       DEF Exactly, Exact, ExactOf, WalletPart, SubPart, TokenPart, Settled
  <2>9. Phased(q, s, j, q2, s2, j2)
    BY <1>1, <1>4, <1>5, <2>1, <2>2, <2>3, <2>5
       DEF Phased, Exact, ExactOf, BooksOf, EarlyBooks, LateBooks, EndBooks, JobBooks, PhaseOf,
           ChargeOf, Taken, Returned
  <2> QED
    BY <1>3, <1>4, <2>1, <2>2, <2>4, <2>5, <2>6, <2>7, <2>8, <2>9
       DEF Step, q, s, j, c, q2, s2, j2, c2, Typed, Books
<1> QED BY <1>2, <1>6, <1>7 DEF q, s, j, c, q2, s2, j2, c2

LEMMA PreConsumeTokenErrorStep ==
  ASSUME TypeOK, NEW r \in Requests, Books(r), PreConsumeTokenError(r)
  PROVE  Step(r)
<1> DEFINE q == req[r]  s == ses[r]  j == job[r]  c == rec[r]
           q2 == req'[r]  s2 == ses'[r]  j2 == job'[r]  c2 == rec'[r]
<1>1. q.pc = "token"
  BY DEF PreConsumeTokenError, Goto
<1>2. /\ q2 = [q EXCEPT !.pc = "rejected"]
      /\ s2 = s /\ j2 = j /\ c2 = c /\ wallet' = wallet /\ subUsed' = subUsed /\ token' = token
  BY DEF TypeOK, PreConsumeTokenError, Goto
<1>3. Only(r)
  BY Zenon DEF Only, TypeOK, PreConsumeTokenError, Goto
<1>4. /\ q \in RequestType /\ s \in SessionType /\ j \in JobType /\ c \in RecType
      /\ BooksOf(q, s, j, c) /\ wallet \in Int /\ token \in Int /\ subUsed \in Nat
  BY DEF TypeOK, Books, RecType
<1>5. FieldTypes(q, s, j)
  BY <1>4, FieldsTyped
<1> HIDE DEF q, s, j, c, q2, s2, j2, c2
<1> USE DEF Same, QFields, SFields, JFields, FieldTypes, Early, Making
<1> QED
  <2>1. /\ s2 = s /\ j2 = j /\ c2 = c /\ wallet' = wallet /\ subUsed' = subUsed /\ token' = token
    BY <1>2
  <2>2. "rejected" \in ReqPcs
    BY <1>1, <1>4, <1>5, <2>1 DEF ReqPcs, JobPcs, RecType, Sources
  <2>3. /\ s.consumed = 0 /\ s.extra = 0 /\ s.pre = 0 /\ q.fee = 0 /\ q.actual = 0 /\ q.turns = 0
        /\ ~s.settled /\ ~s.fundingSettled /\ ~s.refunded /\ ~q.ok /\ j.pc = "none"
        /\ s.tokenConsumed = 0
    BY <1>1, <1>4, <1>5, <2>1, <2>2
       DEF BooksOf, EarlyBooks, LateBooks, EndBooks, JobBooks, PlanBooks
  <2>4. q2 \in RequestType
    BY <1>2, <1>4, <2>2, Zenon DEF RequestType
  <2>5. /\ q2.pc = "rejected"
        /\ Same(q2, q, QFields \ {"pc"})
    BY <1>2, <1>4, <2>2 DEF RequestType
  <2>6. BooksOf(q2, s2, j2, c2)
    BY <1>1, <1>4, <1>5, <2>1, <2>2, <2>3, <2>5
       DEF BooksOf, EarlyBooks, LateBooks, EndBooks, JobBooks, PlanBooks
  <2>7. Fairly(q, s, j, q2, s2, j2)
    BY <1>1, <1>4, <1>5, <2>1, <2>2, <2>3, <2>5 DEF Fairly, WalletPart, SubPart, TokenPart, Settled
  <2>8. Exactly(q, s, j, q2, s2, j2)
    BY <1>1, <1>4, <1>5, <2>1, <2>2, <2>3, <2>5
       DEF Exactly, Exact, ExactOf, WalletPart, SubPart, TokenPart, Settled
  <2>9. Phased(q, s, j, q2, s2, j2)
    BY <1>1, <1>4, <1>5, <2>1, <2>2, <2>3, <2>5
       DEF Phased, Exact, ExactOf, BooksOf, EarlyBooks, LateBooks, EndBooks, JobBooks, PhaseOf,
           ChargeOf, Taken, Returned
  <2> QED
    BY <1>3, <1>4, <2>1, <2>2, <2>4, <2>5, <2>6, <2>7, <2>8, <2>9
       DEF Step, q, s, j, c, q2, s2, j2, c2, Typed, Books

LEMMA PreConsumeFundStep ==
  ASSUME TypeOK, NEW r \in Requests, Books(r), PreConsumeFund(r)
  PROVE  Step(r)
<1> DEFINE q == req[r]  s == ses[r]  j == job[r]  c == rec[r]
           q2 == req'[r]  s2 == ses'[r]  j2 == job'[r]  c2 == rec'[r]
<1>1. q.pc = "fund"
  BY DEF PreConsumeFund, Goto, Consume, SessionType, Sources
<1>2. \/ /\ q2 = [q EXCEPT !.pc = "open"]
         /\ s2 = [s EXCEPT !.pre = s.want, !.consumed = s.want]
         /\ j2 = j /\ c2 = c /\ subUsed' = subUsed /\ token' = token
         /\ wallet' = wallet - s.want
         /\ s.src = "wallet"
      \/ /\ q2 = [q EXCEPT !.pc = "open"]
         /\ s2 = [s EXCEPT !.pre = s.want, !.consumed = SubAmount(q.est)]
         /\ j2 = j /\ c2 = "consumed" /\ wallet' = wallet /\ token' = token
         /\ subUsed' = SubAfter(SubAmount(q.est))
         /\ s.src = "sub"
  BY DEF TypeOK, PreConsumeFund, Goto, Consume, SessionType, Sources
<1>3. Only(r)
  BY Zenon DEF Only, TypeOK, PreConsumeFund, Goto, Consume, SessionType, Sources
<1>4. /\ q \in RequestType /\ s \in SessionType /\ j \in JobType /\ c \in RecType
      /\ BooksOf(q, s, j, c) /\ wallet \in Int /\ token \in Int /\ subUsed \in Nat
  BY DEF TypeOK, Books, RecType
<1>5. FieldTypes(q, s, j)
  BY <1>4, FieldsTyped
<1> HIDE DEF q, s, j, c, q2, s2, j2, c2
<1> USE DEF Same, QFields, SFields, JFields, FieldTypes, Early, Making
<1>6. CASE /\ q2 = [q EXCEPT !.pc = "open"]
           /\ s2 = [s EXCEPT !.pre = s.want, !.consumed = s.want]
           /\ j2 = j /\ c2 = c /\ subUsed' = subUsed /\ token' = token
           /\ wallet' = wallet - s.want
           /\ s.src = "wallet"
  <2>1. /\ j2 = j /\ c2 = c /\ subUsed' = subUsed /\ token' = token
        /\ wallet' = wallet - s.want
        /\ s.src = "wallet"
    BY <1>6
  <2>2. "open" \in ReqPcs /\ s.want \in Nat
    BY <1>1, <1>4, <1>5, <2>1 DEF ReqPcs, JobPcs, RecType, Sources
  <2>3. /\ s.consumed = 0 /\ s.extra = 0 /\ s.pre = 0 /\ q.fee = 0 /\ q.actual = 0 /\ q.turns = 0
        /\ ~s.settled /\ ~s.fundingSettled /\ ~s.refunded /\ ~q.ok /\ j.pc = "none"
        /\ s.tokenConsumed = s.want
    BY <1>1, <1>4, <1>5, <2>1, <2>2
       DEF BooksOf, EarlyBooks, LateBooks, EndBooks, JobBooks, PlanBooks
  <2>4. q2 \in RequestType
    BY <1>4, <1>6, <2>2, Zenon DEF RequestType
  <2>5. /\ q2.pc = "open"
        /\ Same(q2, q, QFields \ {"pc"})
    BY <1>4, <1>6, <2>2 DEF RequestType
  <2>6. s2 \in SessionType
    BY <1>4, <1>6, <2>2, Zenon DEF SessionType
  <2>7. /\ s2.pre = s.want
        /\ s2.consumed = s.want
        /\ Same(s2, s, SFields \ {"pre", "consumed"})
    BY <1>4, <1>6, <2>2 DEF SessionType
  <2>8. BooksOf(q2, s2, j2, c2)
    BY <1>1, <1>4, <1>5, <2>1, <2>2, <2>3, <2>5, <2>7
       DEF BooksOf, EarlyBooks, LateBooks, EndBooks, JobBooks, PlanBooks
  <2>9. Fairly(q, s, j, q2, s2, j2)
    BY <1>1, <1>4, <1>5, <2>1, <2>2, <2>3, <2>5, <2>7
       DEF Fairly, WalletPart, SubPart, TokenPart, Settled
  <2>10. Exactly(q, s, j, q2, s2, j2)
    BY <1>1, <1>4, <1>5, <2>1, <2>2, <2>3, <2>5, <2>7
       DEF Exactly, Exact, ExactOf, WalletPart, SubPart, TokenPart, Settled
  <2>11. Phased(q, s, j, q2, s2, j2)
    BY <1>1, <1>4, <1>5, <2>1, <2>2, <2>3, <2>5, <2>7
       DEF Phased, Exact, ExactOf, BooksOf, EarlyBooks, LateBooks, EndBooks, JobBooks, PhaseOf,
           ChargeOf, Taken, Returned
  <2> QED
    BY <1>3, <1>4, <2>1, <2>2, <2>4, <2>5, <2>6, <2>7, <2>8, <2>9, <2>10, <2>11
       DEF Step, q, s, j, c, q2, s2, j2, c2, Typed, Books
<1>7. CASE /\ q2 = [q EXCEPT !.pc = "open"]
           /\ s2 = [s EXCEPT !.pre = s.want, !.consumed = SubAmount(q.est)]
           /\ j2 = j /\ c2 = "consumed" /\ wallet' = wallet /\ token' = token
           /\ subUsed' = SubAfter(SubAmount(q.est))
           /\ s.src = "sub"
  <2>1. /\ j2 = j /\ c2 = "consumed" /\ wallet' = wallet /\ token' = token
        /\ subUsed' = SubAfter(SubAmount(q.est))
        /\ s.src = "sub"
    BY <1>7
  <2>2. /\ "open" \in ReqPcs /\ s.want \in Nat /\ SubAmount(q.est) \in Nat /\ c2 \in RecType
    BY <1>1, <1>4, <1>5, <2>1
       DEF ReqPcs, JobPcs, RecType, Sources, BooksOf, EarlyBooks, LateBooks, EndBooks, JobBooks,
           SubAmount
  <2>3. /\ s.consumed = 0 /\ s.extra = 0 /\ s.pre = 0 /\ q.fee = 0 /\ q.actual = 0 /\ q.turns = 0
        /\ ~s.settled /\ ~s.fundingSettled /\ ~s.refunded /\ ~q.ok /\ j.pc = "none"
        /\ s.tokenConsumed = s.want /\ SubAmount(q.est) = s.want /\ s.want > 0
    BY <1>1, <1>4, <1>5, <2>1, <2>2
       DEF BooksOf, EarlyBooks, LateBooks, EndBooks, JobBooks, PlanBooks, SubAmount
  <2>4. q2 \in RequestType
    BY <1>4, <1>7, <2>2, Zenon DEF RequestType
  <2>5. /\ q2.pc = "open"
        /\ Same(q2, q, QFields \ {"pc"})
    BY <1>4, <1>7, <2>2 DEF RequestType
  <2>6. s2 \in SessionType
    BY <1>4, <1>7, <2>2, Zenon DEF SessionType
  <2>7. /\ s2.pre = s.want
        /\ s2.consumed = SubAmount(q.est)
        /\ Same(s2, s, SFields \ {"pre", "consumed"})
    BY <1>4, <1>7, <2>2 DEF SessionType
  <2>8. BooksOf(q2, s2, j2, c2)
    BY <1>1, <1>4, <1>5, <2>1, <2>2, <2>3, <2>5, <2>7
       DEF BooksOf, EarlyBooks, LateBooks, EndBooks, JobBooks, PlanBooks, SubAfter
  <2>9. Fairly(q, s, j, q2, s2, j2)
    BY <1>1, <1>4, <1>5, <2>1, <2>2, <2>3, <2>5, <2>7
       DEF Fairly, WalletPart, SubPart, TokenPart, Settled, SubAfter
  <2>10. Exactly(q, s, j, q2, s2, j2)
    BY <1>1, <1>4, <1>5, <2>1, <2>2, <2>3, <2>5, <2>7
       DEF Exactly, Exact, ExactOf, WalletPart, SubPart, TokenPart, Settled, SubAfter
  <2>11. Phased(q, s, j, q2, s2, j2)
    BY <1>1, <1>4, <1>5, <2>1, <2>2, <2>3, <2>5, <2>7
       DEF Phased, Exact, ExactOf, BooksOf, EarlyBooks, LateBooks, EndBooks, JobBooks, PhaseOf,
           ChargeOf, Taken, Returned, SubAfter
  <2> QED
    BY <1>3, <1>4, <2>1, <2>2, <2>4, <2>5, <2>6, <2>7, <2>8, <2>9, <2>10, <2>11
       DEF Step, q, s, j, c, q2, s2, j2, c2, Typed, Books
<1> QED BY <1>2, <1>6, <1>7 DEF q, s, j, c, q2, s2, j2, c2

LEMMA PreConsumeFundShortStep ==
  ASSUME TypeOK, NEW r \in Requests, Books(r), PreConsumeFundShort(r)
  PROVE  Step(r)
<1> DEFINE q == req[r]  s == ses[r]  j == job[r]  c == rec[r]
           q2 == req'[r]  s2 == ses'[r]  j2 == job'[r]  c2 == rec'[r]
<1>1. q.pc = "fund"
  BY DEF PreConsumeFundShort, TryNext, Goto
<1>2. \/ /\ q2 = [q EXCEPT !.pc = "rollback"]
         /\ s2 = s /\ j2 = j /\ c2 = c /\ wallet' = wallet /\ subUsed' = subUsed /\ token' = token
      \/ /\ q2 = [q EXCEPT !.pc = (IF Len(q.plan) > 1 THEN "try" ELSE "rejected"), !.plan = Tail(@)]
         /\ s2 = s /\ j2 = j /\ c2 = c /\ wallet' = wallet /\ subUsed' = subUsed /\ token' = token
         /\ s.tokenConsumed = 0 \/ q.flag.playground
  <2>1. s.tokenConsumed \in Nat
    BY DEF TypeOK, SessionType
  <2>2. CASE s.tokenConsumed > 0 /\ ~q.flag.playground
    BY <2>2 DEF TypeOK, PreConsumeFundShort, TryNext, Goto
  <2>3. CASE ~(s.tokenConsumed > 0 /\ ~q.flag.playground)
    <3>1. s.tokenConsumed = 0 \/ q.flag.playground
      BY <2>1, <2>3
    <3> QED BY <2>3, <3>1 DEF TypeOK, PreConsumeFundShort, TryNext, Goto
  <2> QED BY <2>2, <2>3
<1>3. Only(r)
  BY Zenon DEF Only, TypeOK, PreConsumeFundShort, TryNext, Goto
<1>4. /\ q \in RequestType /\ s \in SessionType /\ j \in JobType /\ c \in RecType
      /\ BooksOf(q, s, j, c) /\ wallet \in Int /\ token \in Int /\ subUsed \in Nat
  BY DEF TypeOK, Books, RecType
<1>5. FieldTypes(q, s, j)
  BY <1>4, FieldsTyped
<1> HIDE DEF q, s, j, c, q2, s2, j2, c2
<1> USE DEF Same, QFields, SFields, JFields, FieldTypes, Early, Making
<1>6. CASE /\ q2 = [q EXCEPT !.pc = "rollback"]
           /\ s2 = s /\ j2 = j /\ c2 = c /\ wallet' = wallet /\ subUsed' = subUsed /\ token' = token
  <2>1. /\ s2 = s /\ j2 = j /\ c2 = c /\ wallet' = wallet /\ subUsed' = subUsed /\ token' = token
    BY <1>6
  <2>2. "rollback" \in ReqPcs
    BY <1>1, <1>4, <1>5, <2>1 DEF ReqPcs, JobPcs, RecType, Sources
  <2>3. /\ s.consumed = 0 /\ s.extra = 0 /\ s.pre = 0 /\ q.fee = 0 /\ q.actual = 0 /\ q.turns = 0
        /\ ~s.settled /\ ~s.fundingSettled /\ ~s.refunded /\ ~q.ok /\ j.pc = "none"
        /\ s.tokenConsumed = s.want
    BY <1>1, <1>4, <1>5, <2>1, <2>2
       DEF BooksOf, EarlyBooks, LateBooks, EndBooks, JobBooks, PlanBooks
  <2>4. q2 \in RequestType
    BY <1>4, <1>6, <2>2, Zenon DEF RequestType
  <2>5. /\ q2.pc = "rollback"
        /\ Same(q2, q, QFields \ {"pc"})
    BY <1>4, <1>6, <2>2 DEF RequestType
  <2>6. BooksOf(q2, s2, j2, c2)
    BY <1>1, <1>4, <1>5, <2>1, <2>2, <2>3, <2>5
       DEF BooksOf, EarlyBooks, LateBooks, EndBooks, JobBooks, PlanBooks
  <2>7. Fairly(q, s, j, q2, s2, j2)
    BY <1>1, <1>4, <1>5, <2>1, <2>2, <2>3, <2>5 DEF Fairly, WalletPart, SubPart, TokenPart, Settled
  <2>8. Exactly(q, s, j, q2, s2, j2)
    BY <1>1, <1>4, <1>5, <2>1, <2>2, <2>3, <2>5
       DEF Exactly, Exact, ExactOf, WalletPart, SubPart, TokenPart, Settled
  <2>9. Phased(q, s, j, q2, s2, j2)
    BY <1>1, <1>4, <1>5, <2>1, <2>2, <2>3, <2>5
       DEF Phased, Exact, ExactOf, BooksOf, EarlyBooks, LateBooks, EndBooks, JobBooks, PhaseOf,
           ChargeOf, Taken, Returned
  <2> QED
    BY <1>3, <1>4, <2>1, <2>2, <2>4, <2>5, <2>6, <2>7, <2>8, <2>9
       DEF Step, q, s, j, c, q2, s2, j2, c2, Typed, Books
<1>7. CASE /\ q2 = [q EXCEPT !.pc = (IF Len(q.plan) > 1 THEN "try" ELSE "rejected"), !.plan = Tail(@)]
           /\ s2 = s /\ j2 = j /\ c2 = c /\ wallet' = wallet /\ subUsed' = subUsed /\ token' = token
           /\ s.tokenConsumed = 0 \/ q.flag.playground
  <2>1. /\ s2 = s /\ j2 = j /\ c2 = c /\ wallet' = wallet /\ subUsed' = subUsed /\ token' = token
        /\ s.tokenConsumed = 0 \/ q.flag.playground
    BY <1>7
  <2>2. /\ (IF Len(q.plan) > 1 THEN "try" ELSE "rejected") \in ReqPcs /\ Tail(q.plan) \in Seq(Sources)
    BY <1>1, <1>4, <1>5, <2>1, PlanTail
       DEF ReqPcs, JobPcs, RecType, Sources, RequestType, BooksOf, PlanBooks
  <2>3. /\ s.consumed = 0 /\ s.extra = 0 /\ s.pre = 0 /\ q.fee = 0 /\ q.actual = 0 /\ q.turns = 0
        /\ ~s.settled /\ ~s.fundingSettled /\ ~s.refunded /\ ~q.ok /\ j.pc = "none"
        /\ s.tokenConsumed = s.want
    BY <1>1, <1>4, <1>5, <2>1, <2>2
       DEF BooksOf, EarlyBooks, LateBooks, EndBooks, JobBooks, PlanBooks
  <2>4. q2 \in RequestType
    BY <1>4, <1>7, <2>2, Zenon DEF RequestType
  <2>5. /\ q2.pc = (IF Len(q.plan) > 1 THEN "try" ELSE "rejected")
        /\ q2.plan = Tail(q.plan)
        /\ Same(q2, q, QFields \ {"pc", "plan"})
    BY <1>4, <1>7, <2>2 DEF RequestType
  <2>6. q2.pc \in {"try", "rejected"} /\ Same(q2, q, QFields \ {"pc", "plan"})
    BY <2>5 
  <2>7. q2.pc = "try" => q2.plan # << >>
    BY <1>1, <1>4, <2>5, PlanTail DEF RequestType, BooksOf, PlanBooks
  <2>8. BooksOf(q2, s2, j2, c2)
    BY <1>1, <1>4, <1>5, <2>1, <2>3, <2>6, <2>7, SMTT(30)
       DEF BooksOf, EarlyBooks, LateBooks, EndBooks, JobBooks, PlanBooks
  <2>9. Fairly(q, s, j, q2, s2, j2)
    BY <1>1, <1>4, <1>5, <2>1, <2>3, <2>6 DEF Fairly, WalletPart, SubPart, TokenPart, Settled
  <2>10. Exactly(q, s, j, q2, s2, j2)
    BY <1>1, <1>4, <1>5, <2>1, <2>3, <2>6
       DEF Exactly, Exact, ExactOf, WalletPart, SubPart, TokenPart, Settled
  <2>11. Phased(q, s, j, q2, s2, j2)
    BY <1>1, <1>4, <1>5, <2>1, <2>3, <2>6
       DEF Phased, Exact, ExactOf, BooksOf, EarlyBooks, LateBooks, EndBooks, JobBooks, PhaseOf,
           ChargeOf, Taken, Returned
  <2> QED
    BY <1>3, <1>4, <2>1, <2>2, <2>4, <2>5, <2>6, <2>7, <2>8, <2>9, <2>10, <2>11
       DEF Step, q, s, j, c, q2, s2, j2, c2, Typed, Books
<1> QED BY <1>2, <1>6, <1>7 DEF q, s, j, c, q2, s2, j2, c2

LEMMA PreConsumeFundErrorStep ==
  ASSUME TypeOK, NEW r \in Requests, Books(r), PreConsumeFundError(r)
  PROVE  Step(r)
<1> DEFINE q == req[r]  s == ses[r]  j == job[r]  c == rec[r]
           q2 == req'[r]  s2 == ses'[r]  j2 == job'[r]  c2 == rec'[r]
<1>1. q.pc = "fund"
  BY DEF PreConsumeFundError
<1>2. \/ /\ q2 = [q EXCEPT !.plan = <<s.src>>, !.pc = "rollback"]
         /\ s2 = s /\ j2 = j /\ c2 = c /\ wallet' = wallet /\ subUsed' = subUsed /\ token' = token
      \/ /\ q2 = [q EXCEPT !.plan = <<s.src>>, !.pc = "rejected"]
         /\ s2 = s /\ j2 = j /\ c2 = c /\ wallet' = wallet /\ subUsed' = subUsed /\ token' = token
         /\ s.tokenConsumed = 0 \/ q.flag.playground
  <2>1. s.tokenConsumed \in Nat
    BY DEF TypeOK, SessionType
  <2>2. CASE s.tokenConsumed > 0 /\ ~q.flag.playground
    BY <2>2 DEF TypeOK, PreConsumeFundError
  <2>3. CASE ~(s.tokenConsumed > 0 /\ ~q.flag.playground)
    <3>1. s.tokenConsumed = 0 \/ q.flag.playground
      BY <2>1, <2>3
    <3> QED BY <2>3, <3>1 DEF TypeOK, PreConsumeFundError
  <2> QED BY <2>2, <2>3
<1>3. Only(r)
  BY Zenon DEF Only, TypeOK, PreConsumeFundError
<1>4. /\ q \in RequestType /\ s \in SessionType /\ j \in JobType /\ c \in RecType
      /\ BooksOf(q, s, j, c) /\ wallet \in Int /\ token \in Int /\ subUsed \in Nat
  BY DEF TypeOK, Books, RecType
<1>5. FieldTypes(q, s, j)
  BY <1>4, FieldsTyped
<1> HIDE DEF q, s, j, c, q2, s2, j2, c2
<1> USE DEF Same, QFields, SFields, JFields, FieldTypes, Early, Making
<1>6. CASE /\ q2 = [q EXCEPT !.plan = <<s.src>>, !.pc = "rollback"]
           /\ s2 = s /\ j2 = j /\ c2 = c /\ wallet' = wallet /\ subUsed' = subUsed /\ token' = token
  <2>1. /\ s2 = s /\ j2 = j /\ c2 = c /\ wallet' = wallet /\ subUsed' = subUsed /\ token' = token
    BY <1>6
  <2>2. <<s.src>> \in Seq(Sources) /\ "rollback" \in ReqPcs
    BY <1>1, <1>4, <1>5, <2>1 DEF ReqPcs, JobPcs, RecType, Sources
  <2>3. /\ s.consumed = 0 /\ s.extra = 0 /\ s.pre = 0 /\ q.fee = 0 /\ q.actual = 0 /\ q.turns = 0
        /\ ~s.settled /\ ~s.fundingSettled /\ ~s.refunded /\ ~q.ok /\ j.pc = "none"
        /\ s.tokenConsumed = s.want
        /\ <<s.src>> # << >>
    BY <1>1, <1>4, <1>5, <2>1, <2>2
       DEF BooksOf, EarlyBooks, LateBooks, EndBooks, JobBooks, PlanBooks
  <2>4. q2 \in RequestType
    BY <1>4, <1>6, <2>2, Zenon DEF RequestType
  <2>5. /\ q2.plan = <<s.src>>
        /\ q2.pc = "rollback"
        /\ Same(q2, q, QFields \ {"plan", "pc"})
    BY <1>4, <1>6, <2>2 DEF RequestType
  <2>6. BooksOf(q2, s2, j2, c2)
    BY <1>1, <1>4, <1>5, <2>1, <2>2, <2>3, <2>5
       DEF BooksOf, EarlyBooks, LateBooks, EndBooks, JobBooks, PlanBooks
  <2>7. Fairly(q, s, j, q2, s2, j2)
    BY <1>1, <1>4, <1>5, <2>1, <2>2, <2>3, <2>5 DEF Fairly, WalletPart, SubPart, TokenPart, Settled
  <2>8. Exactly(q, s, j, q2, s2, j2)
    BY <1>1, <1>4, <1>5, <2>1, <2>2, <2>3, <2>5
       DEF Exactly, Exact, ExactOf, WalletPart, SubPart, TokenPart, Settled
  <2>9. Phased(q, s, j, q2, s2, j2)
    BY <1>1, <1>4, <1>5, <2>1, <2>2, <2>3, <2>5
       DEF Phased, Exact, ExactOf, BooksOf, EarlyBooks, LateBooks, EndBooks, JobBooks, PhaseOf,
           ChargeOf, Taken, Returned
  <2> QED
    BY <1>3, <1>4, <2>1, <2>2, <2>4, <2>5, <2>6, <2>7, <2>8, <2>9
       DEF Step, q, s, j, c, q2, s2, j2, c2, Typed, Books
<1>7. CASE /\ q2 = [q EXCEPT !.plan = <<s.src>>, !.pc = "rejected"]
           /\ s2 = s /\ j2 = j /\ c2 = c /\ wallet' = wallet /\ subUsed' = subUsed /\ token' = token
           /\ s.tokenConsumed = 0 \/ q.flag.playground
  <2>1. /\ s2 = s /\ j2 = j /\ c2 = c /\ wallet' = wallet /\ subUsed' = subUsed /\ token' = token
        /\ s.tokenConsumed = 0 \/ q.flag.playground
    BY <1>7
  <2>2. <<s.src>> \in Seq(Sources) /\ "rejected" \in ReqPcs
    BY <1>1, <1>4, <1>5, <2>1 DEF ReqPcs, JobPcs, RecType, Sources
  <2>3. /\ s.consumed = 0 /\ s.extra = 0 /\ s.pre = 0 /\ q.fee = 0 /\ q.actual = 0 /\ q.turns = 0
        /\ ~s.settled /\ ~s.fundingSettled /\ ~s.refunded /\ ~q.ok /\ j.pc = "none"
        /\ s.tokenConsumed = s.want
        /\ <<s.src>> # << >>
    BY <1>1, <1>4, <1>5, <2>1, <2>2
       DEF BooksOf, EarlyBooks, LateBooks, EndBooks, JobBooks, PlanBooks
  <2>4. q2 \in RequestType
    BY <1>4, <1>7, <2>2, Zenon DEF RequestType
  <2>5. /\ q2.plan = <<s.src>>
        /\ q2.pc = "rejected"
        /\ Same(q2, q, QFields \ {"plan", "pc"})
    BY <1>4, <1>7, <2>2 DEF RequestType
  <2>6. BooksOf(q2, s2, j2, c2)
    BY <1>1, <1>4, <1>5, <2>1, <2>2, <2>3, <2>5
       DEF BooksOf, EarlyBooks, LateBooks, EndBooks, JobBooks, PlanBooks
  <2>7. Fairly(q, s, j, q2, s2, j2)
    BY <1>1, <1>4, <1>5, <2>1, <2>2, <2>3, <2>5 DEF Fairly, WalletPart, SubPart, TokenPart, Settled
  <2>8. Exactly(q, s, j, q2, s2, j2)
    BY <1>1, <1>4, <1>5, <2>1, <2>2, <2>3, <2>5
       DEF Exactly, Exact, ExactOf, WalletPart, SubPart, TokenPart, Settled
  <2>9. Phased(q, s, j, q2, s2, j2)
    BY <1>1, <1>4, <1>5, <2>1, <2>2, <2>3, <2>5
       DEF Phased, Exact, ExactOf, BooksOf, EarlyBooks, LateBooks, EndBooks, JobBooks, PhaseOf,
           ChargeOf, Taken, Returned
  <2> QED
    BY <1>3, <1>4, <2>1, <2>2, <2>4, <2>5, <2>6, <2>7, <2>8, <2>9
       DEF Step, q, s, j, c, q2, s2, j2, c2, Typed, Books
<1> QED BY <1>2, <1>6, <1>7 DEF q, s, j, c, q2, s2, j2, c2

LEMMA RollbackStep ==
  ASSUME TypeOK, NEW r \in Requests, Books(r), Rollback(r)
  PROVE  Step(r)
<1> DEFINE q == req[r]  s == ses[r]  j == job[r]  c == rec[r]
           q2 == req'[r]  s2 == ses'[r]  j2 == job'[r]  c2 == rec'[r]
<1>1. q.pc = "rollback"
  BY DEF Rollback, TryNext, UseToken
<1>2. \/ /\ q2 = [q EXCEPT !.pc = (IF Len(q.plan) > 1 THEN "try" ELSE "rejected"), !.plan = Tail(@)]
         /\ s2 = [s EXCEPT !.tokenConsumed = 0]
         /\ j2 = j /\ c2 = c /\ wallet' = wallet /\ subUsed' = subUsed
         /\ token' = IF q.flag.playground THEN token ELSE token - (-s.tokenConsumed)
      \/ /\ q2 = [q EXCEPT !.pc = (IF Len(q.plan) > 1 THEN "try" ELSE "rejected"), !.plan = Tail(@)]
         /\ s2 = [s EXCEPT !.tokenConsumed = 0]
         /\ j2 = j /\ c2 = c /\ wallet' = wallet /\ subUsed' = subUsed /\ token' = token
         /\ Faults # {}
  BY DEF TypeOK, Rollback, TryNext, UseToken
<1>3. Only(r)
  BY Zenon DEF Only, TypeOK, Rollback, TryNext, UseToken
<1>4. /\ q \in RequestType /\ s \in SessionType /\ j \in JobType /\ c \in RecType
      /\ BooksOf(q, s, j, c) /\ wallet \in Int /\ token \in Int /\ subUsed \in Nat
  BY DEF TypeOK, Books, RecType
<1>5. FieldTypes(q, s, j)
  BY <1>4, FieldsTyped
<1> HIDE DEF q, s, j, c, q2, s2, j2, c2
<1> USE DEF Same, QFields, SFields, JFields, FieldTypes, Early, Making
<1>6. CASE /\ q2 = [q EXCEPT !.pc = (IF Len(q.plan) > 1 THEN "try" ELSE "rejected"), !.plan = Tail(@)]
           /\ s2 = [s EXCEPT !.tokenConsumed = 0]
           /\ j2 = j /\ c2 = c /\ wallet' = wallet /\ subUsed' = subUsed
           /\ token' = IF q.flag.playground THEN token ELSE token - (-s.tokenConsumed)
  <2>1. /\ j2 = j /\ c2 = c /\ wallet' = wallet /\ subUsed' = subUsed
        /\ token' = IF q.flag.playground THEN token ELSE token - (-s.tokenConsumed)
    BY <1>6
  <2>2. /\ (IF Len(q.plan) > 1 THEN "try" ELSE "rejected") \in ReqPcs
        /\ Tail(q.plan) \in Seq(Sources) /\ 0 \in Nat
    BY <1>1, <1>4, <1>5, <2>1, PlanTail
       DEF ReqPcs, JobPcs, RecType, Sources, RequestType, BooksOf, PlanBooks
  <2>3. /\ s.consumed = 0 /\ s.extra = 0 /\ s.pre = 0 /\ q.fee = 0 /\ q.actual = 0 /\ q.turns = 0
        /\ ~s.settled /\ ~s.fundingSettled /\ ~s.refunded /\ ~q.ok /\ j.pc = "none"
        /\ s.tokenConsumed = s.want
    BY <1>1, <1>4, <1>5, <2>1, <2>2
       DEF BooksOf, EarlyBooks, LateBooks, EndBooks, JobBooks, PlanBooks
  <2>4. q2 \in RequestType
    BY <1>4, <1>6, <2>2, Zenon DEF RequestType
  <2>5. /\ q2.pc = (IF Len(q.plan) > 1 THEN "try" ELSE "rejected")
        /\ q2.plan = Tail(q.plan)
        /\ Same(q2, q, QFields \ {"pc", "plan"})
    BY <1>4, <1>6, <2>2 DEF RequestType
  <2>6. s2 \in SessionType
    BY <1>4, <1>6, <2>2, Zenon DEF SessionType
  <2>7. /\ s2.tokenConsumed = 0
        /\ Same(s2, s, SFields \ {"tokenConsumed"})
    BY <1>4, <1>6, <2>2 DEF SessionType
  <2>8. q2.pc \in {"try", "rejected"} /\ Same(q2, q, QFields \ {"pc", "plan"})
    BY <2>5 
  <2>9. q2.pc = "try" => q2.plan # << >>
    BY <1>1, <1>4, <2>5, PlanTail DEF RequestType, BooksOf, PlanBooks
  <2>10. BooksOf(q2, s2, j2, c2)
    BY <1>1, <1>4, <1>5, <2>1, <2>3, <2>7, <2>8, <2>9
       DEF BooksOf, EarlyBooks, LateBooks, EndBooks, JobBooks, PlanBooks
  <2>11. Fairly(q, s, j, q2, s2, j2)
    BY <1>1, <1>4, <1>5, <2>1, <2>3, <2>7, <2>8 DEF Fairly, WalletPart, SubPart, TokenPart, Settled
  <2>12. Exactly(q, s, j, q2, s2, j2)
    BY <1>1, <1>4, <1>5, <2>1, <2>3, <2>7, <2>8
       DEF Exactly, Exact, ExactOf, WalletPart, SubPart, TokenPart, Settled
  <2>13. Phased(q, s, j, q2, s2, j2)
    BY <1>1, <1>4, <1>5, <2>1, <2>3, <2>7, <2>8
       DEF Phased, Exact, ExactOf, BooksOf, EarlyBooks, LateBooks, EndBooks, JobBooks, PhaseOf,
           ChargeOf, Taken, Returned
  <2> QED
    BY <1>3, <1>4, <2>1, <2>2, <2>4, <2>5, <2>6, <2>7, <2>8, <2>9, <2>10, <2>11, <2>12, <2>13
       DEF Step, q, s, j, c, q2, s2, j2, c2, Typed, Books
<1>7. CASE /\ q2 = [q EXCEPT !.pc = (IF Len(q.plan) > 1 THEN "try" ELSE "rejected"), !.plan = Tail(@)]
           /\ s2 = [s EXCEPT !.tokenConsumed = 0]
           /\ j2 = j /\ c2 = c /\ wallet' = wallet /\ subUsed' = subUsed /\ token' = token
           /\ Faults # {}
  <2>1. /\ j2 = j /\ c2 = c /\ wallet' = wallet /\ subUsed' = subUsed /\ token' = token
        /\ Faults # {}
    BY <1>7
  <2>2. /\ (IF Len(q.plan) > 1 THEN "try" ELSE "rejected") \in ReqPcs
        /\ Tail(q.plan) \in Seq(Sources) /\ 0 \in Nat
    BY <1>1, <1>4, <1>5, <2>1, PlanTail
       DEF ReqPcs, JobPcs, RecType, Sources, RequestType, BooksOf, PlanBooks
  <2>3. /\ s.consumed = 0 /\ s.extra = 0 /\ s.pre = 0 /\ q.fee = 0 /\ q.actual = 0 /\ q.turns = 0
        /\ ~s.settled /\ ~s.fundingSettled /\ ~s.refunded /\ ~q.ok /\ j.pc = "none"
        /\ s.tokenConsumed = s.want
    BY <1>1, <1>4, <1>5, <2>1, <2>2
       DEF BooksOf, EarlyBooks, LateBooks, EndBooks, JobBooks, PlanBooks
  <2>4. q2 \in RequestType
    BY <1>4, <1>7, <2>2, Zenon DEF RequestType
  <2>5. /\ q2.pc = (IF Len(q.plan) > 1 THEN "try" ELSE "rejected")
        /\ q2.plan = Tail(q.plan)
        /\ Same(q2, q, QFields \ {"pc", "plan"})
    BY <1>4, <1>7, <2>2 DEF RequestType
  <2>6. s2 \in SessionType
    BY <1>4, <1>7, <2>2, Zenon DEF SessionType
  <2>7. /\ s2.tokenConsumed = 0
        /\ Same(s2, s, SFields \ {"tokenConsumed"})
    BY <1>4, <1>7, <2>2 DEF SessionType
  <2>8. q2.pc \in {"try", "rejected"} /\ Same(q2, q, QFields \ {"pc", "plan"})
    BY <2>5 
  <2>9. q2.pc = "try" => q2.plan # << >>
    BY <1>1, <1>4, <2>5, PlanTail DEF RequestType, BooksOf, PlanBooks
  <2>10. BooksOf(q2, s2, j2, c2)
    BY <1>1, <1>4, <1>5, <2>1, <2>3, <2>7, <2>8, <2>9
       DEF BooksOf, EarlyBooks, LateBooks, EndBooks, JobBooks, PlanBooks
  <2>11. Fairly(q, s, j, q2, s2, j2)
    BY <1>1, <1>4, <1>5, <2>1, <2>3, <2>7, <2>8 DEF Fairly, WalletPart, SubPart, TokenPart, Settled
  <2>12. Exactly(q, s, j, q2, s2, j2)
    BY <1>1, <1>4, <1>5, <2>1, <2>3, <2>7, <2>8
       DEF Exactly, Exact, ExactOf, WalletPart, SubPart, TokenPart, Settled
  <2>13. Phased(q, s, j, q2, s2, j2)
    BY <1>1, <1>4, <1>5, <2>1, <2>3, <2>7, <2>8
       DEF Phased, Exact, ExactOf, BooksOf, EarlyBooks, LateBooks, EndBooks, JobBooks, PhaseOf,
           ChargeOf, Taken, Returned
  <2> QED
    BY <1>3, <1>4, <2>1, <2>2, <2>4, <2>5, <2>6, <2>7, <2>8, <2>9, <2>10, <2>11, <2>12, <2>13
       DEF Step, q, s, j, c, q2, s2, j2, c2, Typed, Books
<1> QED BY <1>2, <1>6, <1>7 DEF q, s, j, c, q2, s2, j2, c2

-----------------------------------------------------------------------------
(* Reserve: a larger estimate before an attempt. *)

LEMMA ReserveStep ==
  ASSUME TypeOK, NEW r \in Requests, Books(r), NEW target \in Nat, Reserve(r, target)
  PROVE  Step(r)
<1> DEFINE q == req[r]  s == ses[r]  j == job[r]  c == rec[r]
           q2 == req'[r]  s2 == ses'[r]  j2 == job'[r]  c2 == rec'[r]
<1>1. q.pc = "open" /\ target > s.pre
  BY DEF Reserve
<1>2. /\ q2 = [q EXCEPT !.pc = "rsvFund", !.delta = target - s.pre]
      /\ s2 = s /\ j2 = j /\ c2 = c /\ wallet' = wallet /\ subUsed' = subUsed /\ token' = token
  BY DEF TypeOK, Reserve
<1>3. Only(r)
  BY Zenon DEF Only, TypeOK, Reserve
<1>4. /\ q \in RequestType /\ s \in SessionType /\ j \in JobType /\ c \in RecType
      /\ BooksOf(q, s, j, c) /\ wallet \in Int /\ token \in Int /\ subUsed \in Nat
  BY DEF TypeOK, Books, RecType
<1>5. FieldTypes(q, s, j)
  BY <1>4, FieldsTyped
<1> HIDE DEF q, s, j, c, q2, s2, j2, c2
<1> USE DEF Same, QFields, SFields, JFields, FieldTypes, Early, Making
<1> QED
  <2>1. /\ s2 = s /\ j2 = j /\ c2 = c /\ wallet' = wallet /\ subUsed' = subUsed /\ token' = token
    BY <1>2
  <2>2. "rsvFund" \in ReqPcs /\ target - s.pre \in Int
    BY <1>1, <1>4, <1>5, <2>1
       DEF ReqPcs, JobPcs, RecType, Sources, BooksOf, EarlyBooks, LateBooks, EndBooks, JobBooks
  <2>3. q2 \in RequestType
    BY <1>2, <1>4, <2>2, Zenon DEF RequestType
  <2>4. /\ q2.pc = "rsvFund"
        /\ q2.delta = target - s.pre
        /\ Same(q2, q, QFields \ {"pc", "delta"})
    BY <1>2, <1>4, <2>2 DEF RequestType
  <2>5. BooksOf(q2, s2, j2, c2)
    BY <1>1, <1>4, <1>5, <2>1, <2>2, <2>4
       DEF BooksOf, EarlyBooks, LateBooks, EndBooks, JobBooks, PlanBooks
  <2>6. Fairly(q, s, j, q2, s2, j2)
    BY <1>1, <1>4, <1>5, <2>1, <2>2, <2>4
       DEF Fairly, BooksOf, EarlyBooks, LateBooks, EndBooks, JobBooks, WalletPart, SubPart,
           TokenPart, Settled
  <2>7. Exactly(q, s, j, q2, s2, j2)
    BY <1>1, <1>4, <1>5, <2>1, <2>2, <2>4
       DEF Exactly, Exact, ExactOf, BooksOf, EarlyBooks, LateBooks, EndBooks, JobBooks,
           WalletPart, SubPart, TokenPart, Settled
  <2>8. Phased(q, s, j, q2, s2, j2)
    BY <1>1, <1>4, <1>5, <2>1, <2>2, <2>4
       DEF Phased, Exact, ExactOf, BooksOf, EarlyBooks, LateBooks, EndBooks, JobBooks, PhaseOf,
           ChargeOf, Taken, Returned
  <2> QED
    BY <1>3, <1>4, <2>1, <2>2, <2>3, <2>4, <2>5, <2>6, <2>7, <2>8
       DEF Step, q, s, j, c, q2, s2, j2, c2, Typed, Books

LEMMA ReserveFundingStep ==
  ASSUME TypeOK, NEW r \in Requests, Books(r), ReserveFunding(r)
  PROVE  Step(r)
<1> DEFINE q == req[r]  s == ses[r]  j == job[r]  c == rec[r]
           q2 == req'[r]  s2 == ses'[r]  j2 == job'[r]  c2 == rec'[r]
<1>1. q.pc = "rsvFund"
  BY DEF ReserveFunding, Goto, Consume, SessionType, Sources
<1>2. \/ /\ q2 = [q EXCEPT !.pc = "rsvToken"]
         /\ s2 = [s EXCEPT !.consumed = @ + q.delta]
         /\ j2 = j /\ c2 = c /\ subUsed' = subUsed /\ token' = token
         /\ wallet' = wallet - q.delta
         /\ s.src = "wallet"
      \/ /\ q2 = [q EXCEPT !.pc = "rsvToken"]
         /\ s2 = s /\ j2 = j /\ c2 = c /\ wallet' = wallet /\ token' = token
         /\ subUsed' = SubAfter(q.delta)
         /\ s.src = "sub"
      \/ /\ q2 = [q EXCEPT !.pc = "failing"]
         /\ s2 = s /\ j2 = j /\ c2 = c /\ wallet' = wallet /\ subUsed' = subUsed /\ token' = token
  BY DEF TypeOK, ReserveFunding, Goto, Consume, SessionType, Sources
<1>3. Only(r)
  BY Zenon DEF Only, TypeOK, ReserveFunding, Goto, Consume, SessionType, Sources
<1>4. /\ q \in RequestType /\ s \in SessionType /\ j \in JobType /\ c \in RecType
      /\ BooksOf(q, s, j, c) /\ wallet \in Int /\ token \in Int /\ subUsed \in Nat
  BY DEF TypeOK, Books, RecType
<1>5. FieldTypes(q, s, j)
  BY <1>4, FieldsTyped
<1> HIDE DEF q, s, j, c, q2, s2, j2, c2
<1> USE DEF Same, QFields, SFields, JFields, FieldTypes, Early, Making
<1>6. CASE /\ q2 = [q EXCEPT !.pc = "rsvToken"]
           /\ s2 = [s EXCEPT !.consumed = @ + q.delta]
           /\ j2 = j /\ c2 = c /\ subUsed' = subUsed /\ token' = token
           /\ wallet' = wallet - q.delta
           /\ s.src = "wallet"
  <2>1. /\ j2 = j /\ c2 = c /\ subUsed' = subUsed /\ token' = token
        /\ wallet' = wallet - q.delta
        /\ s.src = "wallet"
    BY <1>6
  <2>2. "rsvToken" \in ReqPcs /\ s.consumed + q.delta \in Nat
    BY <1>1, <1>4, <1>5, <2>1
       DEF ReqPcs, JobPcs, RecType, Sources, BooksOf, EarlyBooks, LateBooks, EndBooks, JobBooks,
           SubAfter
  <2>3. q2 \in RequestType
    BY <1>4, <1>6, <2>2, Zenon DEF RequestType
  <2>4. /\ q2.pc = "rsvToken"
        /\ Same(q2, q, QFields \ {"pc"})
    BY <1>4, <1>6, <2>2 DEF RequestType
  <2>5. s2 \in SessionType
    BY <1>4, <1>6, <2>2, Zenon DEF SessionType
  <2>6. /\ s2.consumed = s.consumed + q.delta
        /\ Same(s2, s, SFields \ {"consumed"})
    BY <1>4, <1>6, <2>2 DEF SessionType
  <2>7. BooksOf(q2, s2, j2, c2)
    BY <1>1, <1>4, <1>5, <2>1, <2>2, <2>4, <2>6
       DEF BooksOf, EarlyBooks, LateBooks, EndBooks, JobBooks, PlanBooks, SubAfter
  <2>8. Fairly(q, s, j, q2, s2, j2)
    BY <1>1, <1>4, <1>5, <2>1, <2>2, <2>4, <2>6
       DEF Fairly, BooksOf, EarlyBooks, LateBooks, EndBooks, JobBooks, WalletPart, SubPart,
           TokenPart, Settled, SubAfter
  <2>9. Exactly(q, s, j, q2, s2, j2)
    BY <1>1, <1>4, <1>5, <2>1, <2>2, <2>4, <2>6
       DEF Exactly, Exact, ExactOf, BooksOf, EarlyBooks, LateBooks, EndBooks, JobBooks,
           WalletPart, SubPart, TokenPart, Settled, SubAfter
  <2>10. Phased(q, s, j, q2, s2, j2)
    BY <1>1, <1>4, <1>5, <2>1, <2>2, <2>4, <2>6
       DEF Phased, Exact, ExactOf, BooksOf, EarlyBooks, LateBooks, EndBooks, JobBooks, PhaseOf,
           ChargeOf, Taken, Returned, SubAfter
  <2> QED
    BY <1>3, <1>4, <2>1, <2>2, <2>3, <2>4, <2>5, <2>6, <2>7, <2>8, <2>9, <2>10
       DEF Step, q, s, j, c, q2, s2, j2, c2, Typed, Books
<1>7. CASE /\ q2 = [q EXCEPT !.pc = "rsvToken"]
           /\ s2 = s /\ j2 = j /\ c2 = c /\ wallet' = wallet /\ token' = token
           /\ subUsed' = SubAfter(q.delta)
           /\ s.src = "sub"
  <2>1. /\ s2 = s /\ j2 = j /\ c2 = c /\ wallet' = wallet /\ token' = token
        /\ subUsed' = SubAfter(q.delta)
        /\ s.src = "sub"
    BY <1>7
  <2>2. "rsvToken" \in ReqPcs
    BY <1>1, <1>4, <1>5, <2>1 DEF ReqPcs, JobPcs, RecType, Sources, SubAfter
  <2>3. q2 \in RequestType
    BY <1>4, <1>7, <2>2, Zenon DEF RequestType
  <2>4. /\ q2.pc = "rsvToken"
        /\ Same(q2, q, QFields \ {"pc"})
    BY <1>4, <1>7, <2>2 DEF RequestType
  <2>5. BooksOf(q2, s2, j2, c2)
    BY <1>1, <1>4, <1>5, <2>1, <2>2, <2>4
       DEF BooksOf, EarlyBooks, LateBooks, EndBooks, JobBooks, PlanBooks, SubAfter
  <2>6. Fairly(q, s, j, q2, s2, j2)
    BY <1>1, <1>4, <1>5, <2>1, <2>2, <2>4
       DEF Fairly, BooksOf, EarlyBooks, LateBooks, EndBooks, JobBooks, WalletPart, SubPart,
           TokenPart, Settled, SubAfter
  <2>7. Exactly(q, s, j, q2, s2, j2)
    BY <1>1, <1>4, <1>5, <2>1, <2>2, <2>4
       DEF Exactly, Exact, ExactOf, BooksOf, EarlyBooks, LateBooks, EndBooks, JobBooks,
           WalletPart, SubPart, TokenPart, Settled, SubAfter
  <2>8. Phased(q, s, j, q2, s2, j2)
    BY <1>1, <1>4, <1>5, <2>1, <2>2, <2>4
       DEF Phased, Exact, ExactOf, BooksOf, EarlyBooks, LateBooks, EndBooks, JobBooks, PhaseOf,
           ChargeOf, Taken, Returned, SubAfter
  <2> QED
    BY <1>3, <1>4, <2>1, <2>2, <2>3, <2>4, <2>5, <2>6, <2>7, <2>8
       DEF Step, q, s, j, c, q2, s2, j2, c2, Typed, Books
<1>8. CASE /\ q2 = [q EXCEPT !.pc = "failing"]
           /\ s2 = s /\ j2 = j /\ c2 = c /\ wallet' = wallet /\ subUsed' = subUsed /\ token' = token
  <2>1. /\ s2 = s /\ j2 = j /\ c2 = c /\ wallet' = wallet /\ subUsed' = subUsed /\ token' = token
    BY <1>8
  <2>2. "failing" \in ReqPcs
    BY <1>1, <1>4, <1>5, <2>1 DEF ReqPcs, JobPcs, RecType, Sources, SubAfter
  <2>3. q2 \in RequestType
    BY <1>4, <1>8, <2>2, Zenon DEF RequestType
  <2>4. /\ q2.pc = "failing"
        /\ Same(q2, q, QFields \ {"pc"})
    BY <1>4, <1>8, <2>2 DEF RequestType
  <2>5. BooksOf(q2, s2, j2, c2)
    BY <1>1, <1>4, <1>5, <2>1, <2>2, <2>4
       DEF BooksOf, EarlyBooks, LateBooks, EndBooks, JobBooks, PlanBooks, SubAfter
  <2>6. Fairly(q, s, j, q2, s2, j2)
    BY <1>1, <1>4, <1>5, <2>1, <2>2, <2>4
       DEF Fairly, BooksOf, EarlyBooks, LateBooks, EndBooks, JobBooks, WalletPart, SubPart,
           TokenPart, Settled, SubAfter
  <2>7. Exactly(q, s, j, q2, s2, j2)
    BY <1>1, <1>4, <1>5, <2>1, <2>2, <2>4
       DEF Exactly, Exact, ExactOf, BooksOf, EarlyBooks, LateBooks, EndBooks, JobBooks,
           WalletPart, SubPart, TokenPart, Settled, SubAfter
  <2>8. Phased(q, s, j, q2, s2, j2)
    BY <1>1, <1>4, <1>5, <2>1, <2>2, <2>4
       DEF Phased, Exact, ExactOf, BooksOf, EarlyBooks, LateBooks, EndBooks, JobBooks, PhaseOf,
           ChargeOf, Taken, Returned, SubAfter
  <2> QED
    BY <1>3, <1>4, <2>1, <2>2, <2>3, <2>4, <2>5, <2>6, <2>7, <2>8
       DEF Step, q, s, j, c, q2, s2, j2, c2, Typed, Books
<1> QED BY <1>2, <1>6, <1>7, <1>8 DEF q, s, j, c, q2, s2, j2, c2

LEMMA ReserveTokenStep ==
  ASSUME TypeOK, NEW r \in Requests, Books(r), ReserveToken(r)
  PROVE  Step(r)
<1> DEFINE q == req[r]  s == ses[r]  j == job[r]  c == rec[r]
           q2 == req'[r]  s2 == ses'[r]  j2 == job'[r]  c2 == rec'[r]
<1>1. q.pc = "rsvToken"
  BY DEF ReserveToken, Goto, UseToken
<1>2. \/ /\ q2 = [q EXCEPT !.pc = "open"]
         /\ s2 = [s EXCEPT !.pre = @ + q.delta, !.tokenConsumed = @ + q.delta, !.extra = @ + q.delta]
         /\ j2 = j /\ c2 = c /\ wallet' = wallet /\ subUsed' = subUsed
         /\ token' = IF q.flag.playground THEN token ELSE token - q.delta
      \/ /\ q2 = [q EXCEPT !.pc = "rsvUndo"]
         /\ s2 = s /\ j2 = j /\ c2 = c /\ wallet' = wallet /\ subUsed' = subUsed /\ token' = token
         /\ ~q.flag.playground
  BY DEF TypeOK, ReserveToken, Goto, UseToken
<1>3. Only(r)
  BY Zenon DEF Only, TypeOK, ReserveToken, Goto, UseToken
<1>4. /\ q \in RequestType /\ s \in SessionType /\ j \in JobType /\ c \in RecType
      /\ BooksOf(q, s, j, c) /\ wallet \in Int /\ token \in Int /\ subUsed \in Nat
  BY DEF TypeOK, Books, RecType
<1>5. FieldTypes(q, s, j)
  BY <1>4, FieldsTyped
<1> HIDE DEF q, s, j, c, q2, s2, j2, c2
<1> USE DEF Same, QFields, SFields, JFields, FieldTypes, Early, Making
<1>6. CASE /\ q2 = [q EXCEPT !.pc = "open"]
           /\ s2 = [s EXCEPT !.pre = @ + q.delta, !.tokenConsumed = @ + q.delta, !.extra = @ + q.delta]
           /\ j2 = j /\ c2 = c /\ wallet' = wallet /\ subUsed' = subUsed
           /\ token' = IF q.flag.playground THEN token ELSE token - q.delta
  <2>1. /\ j2 = j /\ c2 = c /\ wallet' = wallet /\ subUsed' = subUsed
        /\ token' = IF q.flag.playground THEN token ELSE token - q.delta
    BY <1>6
  <2>2. /\ "open" \in ReqPcs /\ s.pre + q.delta \in Nat /\ s.tokenConsumed + q.delta \in Nat
        /\ s.extra + q.delta \in Nat
    BY <1>1, <1>4, <1>5, <2>1
       DEF ReqPcs, JobPcs, RecType, Sources, BooksOf, EarlyBooks, LateBooks, EndBooks, JobBooks
  <2>3. q2 \in RequestType
    BY <1>4, <1>6, <2>2, Zenon DEF RequestType
  <2>4. /\ q2.pc = "open"
        /\ Same(q2, q, QFields \ {"pc"})
    BY <1>4, <1>6, <2>2 DEF RequestType
  <2>5. s2 \in SessionType
    BY <1>4, <1>6, <2>2, Zenon DEF SessionType
  <2>6. /\ s2.pre = s.pre + q.delta
        /\ s2.tokenConsumed = s.tokenConsumed + q.delta
        /\ s2.extra = s.extra + q.delta
        /\ Same(s2, s, SFields \ {"pre", "tokenConsumed", "extra"})
    BY <1>4, <1>6, <2>2 DEF SessionType
  <2>7. BooksOf(q2, s2, j2, c2)
    BY <1>1, <1>4, <1>5, <2>1, <2>2, <2>4, <2>6
       DEF BooksOf, EarlyBooks, LateBooks, EndBooks, JobBooks, PlanBooks
  <2>8. Fairly(q, s, j, q2, s2, j2)
    BY <1>1, <1>4, <1>5, <2>1, <2>2, <2>4, <2>6
       DEF Fairly, BooksOf, EarlyBooks, LateBooks, EndBooks, JobBooks, WalletPart, SubPart,
           TokenPart, Settled
  <2>9. Exactly(q, s, j, q2, s2, j2)
    BY <1>1, <1>4, <1>5, <2>1, <2>2, <2>4, <2>6
       DEF Exactly, Exact, ExactOf, BooksOf, EarlyBooks, LateBooks, EndBooks, JobBooks,
           WalletPart, SubPart, TokenPart, Settled
  <2>10. Phased(q, s, j, q2, s2, j2)
    BY <1>1, <1>4, <1>5, <2>1, <2>2, <2>4, <2>6
       DEF Phased, Exact, ExactOf, BooksOf, EarlyBooks, LateBooks, EndBooks, JobBooks, PhaseOf,
           ChargeOf, Taken, Returned
  <2> QED
    BY <1>3, <1>4, <2>1, <2>2, <2>3, <2>4, <2>5, <2>6, <2>7, <2>8, <2>9, <2>10
       DEF Step, q, s, j, c, q2, s2, j2, c2, Typed, Books
<1>7. CASE /\ q2 = [q EXCEPT !.pc = "rsvUndo"]
           /\ s2 = s /\ j2 = j /\ c2 = c /\ wallet' = wallet /\ subUsed' = subUsed /\ token' = token
           /\ ~q.flag.playground
  <2>1. /\ s2 = s /\ j2 = j /\ c2 = c /\ wallet' = wallet /\ subUsed' = subUsed /\ token' = token
        /\ ~q.flag.playground
    BY <1>7
  <2>2. "rsvUndo" \in ReqPcs
    BY <1>1, <1>4, <1>5, <2>1 DEF ReqPcs, JobPcs, RecType, Sources
  <2>3. q2 \in RequestType
    BY <1>4, <1>7, <2>2, Zenon DEF RequestType
  <2>4. /\ q2.pc = "rsvUndo"
        /\ Same(q2, q, QFields \ {"pc"})
    BY <1>4, <1>7, <2>2 DEF RequestType
  <2>5. BooksOf(q2, s2, j2, c2)
    BY <1>1, <1>4, <1>5, <2>1, <2>2, <2>4
       DEF BooksOf, EarlyBooks, LateBooks, EndBooks, JobBooks, PlanBooks
  <2>6. Fairly(q, s, j, q2, s2, j2)
    BY <1>1, <1>4, <1>5, <2>1, <2>2, <2>4
       DEF Fairly, BooksOf, EarlyBooks, LateBooks, EndBooks, JobBooks, WalletPart, SubPart,
           TokenPart, Settled
  <2>7. Exactly(q, s, j, q2, s2, j2)
    BY <1>1, <1>4, <1>5, <2>1, <2>2, <2>4
       DEF Exactly, Exact, ExactOf, BooksOf, EarlyBooks, LateBooks, EndBooks, JobBooks,
           WalletPart, SubPart, TokenPart, Settled
  <2>8. Phased(q, s, j, q2, s2, j2)
    BY <1>1, <1>4, <1>5, <2>1, <2>2, <2>4
       DEF Phased, Exact, ExactOf, BooksOf, EarlyBooks, LateBooks, EndBooks, JobBooks, PhaseOf,
           ChargeOf, Taken, Returned
  <2> QED
    BY <1>3, <1>4, <2>1, <2>2, <2>3, <2>4, <2>5, <2>6, <2>7, <2>8
       DEF Step, q, s, j, c, q2, s2, j2, c2, Typed, Books
<1> QED BY <1>2, <1>6, <1>7 DEF q, s, j, c, q2, s2, j2, c2

LEMMA RollbackFundingReserveStep ==
  ASSUME TypeOK, NEW r \in Requests, Books(r), RollbackFundingReserve(r)
  PROVE  Step(r)
<1> DEFINE q == req[r]  s == ses[r]  j == job[r]  c == rec[r]
           q2 == req'[r]  s2 == ses'[r]  j2 == job'[r]  c2 == rec'[r]
<1>1. q.pc = "rsvUndo"
  BY DEF RollbackFundingReserve, Goto, Consume, SessionType, Sources
<1>2. \/ /\ q2 = [q EXCEPT !.pc = "failing"]
         /\ s2 = [s EXCEPT !.consumed = @ - q.delta]
         /\ j2 = j /\ c2 = c /\ subUsed' = subUsed /\ token' = token
         /\ wallet' = wallet - (-q.delta)
         /\ s.src = "wallet"
      \/ /\ q2 = [q EXCEPT !.pc = "failing"]
         /\ s2 = s /\ j2 = j /\ c2 = c /\ wallet' = wallet /\ token' = token
         /\ subUsed' = SubAfter(-q.delta)
         /\ s.src = "sub"
      \/ /\ q2 = [q EXCEPT !.pc = "failing"]
         /\ s2 = s /\ j2 = j /\ c2 = c /\ wallet' = wallet /\ subUsed' = subUsed /\ token' = token
         /\ Faults # {}
  BY DEF TypeOK, RollbackFundingReserve, Goto, Consume, SessionType, Sources
<1>3. Only(r)
  BY Zenon DEF Only, TypeOK, RollbackFundingReserve, Goto, Consume, SessionType, Sources
<1>4. /\ q \in RequestType /\ s \in SessionType /\ j \in JobType /\ c \in RecType
      /\ BooksOf(q, s, j, c) /\ wallet \in Int /\ token \in Int /\ subUsed \in Nat
  BY DEF TypeOK, Books, RecType
<1>5. FieldTypes(q, s, j)
  BY <1>4, FieldsTyped
<1> HIDE DEF q, s, j, c, q2, s2, j2, c2
<1> USE DEF Same, QFields, SFields, JFields, FieldTypes, Early, Making
<1>6. CASE /\ q2 = [q EXCEPT !.pc = "failing"]
           /\ s2 = [s EXCEPT !.consumed = @ - q.delta]
           /\ j2 = j /\ c2 = c /\ subUsed' = subUsed /\ token' = token
           /\ wallet' = wallet - (-q.delta)
           /\ s.src = "wallet"
  <2>1. /\ j2 = j /\ c2 = c /\ subUsed' = subUsed /\ token' = token
        /\ wallet' = wallet - (-q.delta)
        /\ s.src = "wallet"
    BY <1>6
  <2>2. "failing" \in ReqPcs /\ s.consumed - q.delta \in Nat
    BY <1>1, <1>4, <1>5, <2>1
       DEF ReqPcs, JobPcs, RecType, Sources, BooksOf, EarlyBooks, LateBooks, EndBooks, JobBooks,
           SubAfter
  <2>3. q2 \in RequestType
    BY <1>4, <1>6, <2>2, Zenon DEF RequestType
  <2>4. /\ q2.pc = "failing"
        /\ Same(q2, q, QFields \ {"pc"})
    BY <1>4, <1>6, <2>2 DEF RequestType
  <2>5. s2 \in SessionType
    BY <1>4, <1>6, <2>2, Zenon DEF SessionType
  <2>6. /\ s2.consumed = s.consumed - q.delta
        /\ Same(s2, s, SFields \ {"consumed"})
    BY <1>4, <1>6, <2>2 DEF SessionType
  <2>7. BooksOf(q2, s2, j2, c2)
    BY <1>1, <1>4, <1>5, <2>1, <2>2, <2>4, <2>6
       DEF BooksOf, EarlyBooks, LateBooks, EndBooks, JobBooks, PlanBooks, SubAfter
  <2>8. Fairly(q, s, j, q2, s2, j2)
    BY <1>1, <1>4, <1>5, <2>1, <2>2, <2>4, <2>6
       DEF Fairly, BooksOf, EarlyBooks, LateBooks, EndBooks, JobBooks, WalletPart, SubPart,
           TokenPart, Settled, SubAfter
  <2>9. Exactly(q, s, j, q2, s2, j2)
    BY <1>1, <1>4, <1>5, <2>1, <2>2, <2>4, <2>6
       DEF Exactly, Exact, ExactOf, BooksOf, EarlyBooks, LateBooks, EndBooks, JobBooks,
           WalletPart, SubPart, TokenPart, Settled, SubAfter
  <2>10. Phased(q, s, j, q2, s2, j2)
    BY <1>1, <1>4, <1>5, <2>1, <2>2, <2>4, <2>6
       DEF Phased, Exact, ExactOf, BooksOf, EarlyBooks, LateBooks, EndBooks, JobBooks, PhaseOf,
           ChargeOf, Taken, Returned, SubAfter
  <2> QED
    BY <1>3, <1>4, <2>1, <2>2, <2>3, <2>4, <2>5, <2>6, <2>7, <2>8, <2>9, <2>10
       DEF Step, q, s, j, c, q2, s2, j2, c2, Typed, Books
<1>7. CASE /\ q2 = [q EXCEPT !.pc = "failing"]
           /\ s2 = s /\ j2 = j /\ c2 = c /\ wallet' = wallet /\ token' = token
           /\ subUsed' = SubAfter(-q.delta)
           /\ s.src = "sub"
  <2>1. /\ s2 = s /\ j2 = j /\ c2 = c /\ wallet' = wallet /\ token' = token
        /\ subUsed' = SubAfter(-q.delta)
        /\ s.src = "sub"
    BY <1>7
  <2>2. "failing" \in ReqPcs
    BY <1>1, <1>4, <1>5, <2>1 DEF ReqPcs, JobPcs, RecType, Sources, SubAfter
  <2>3. q2 \in RequestType
    BY <1>4, <1>7, <2>2, Zenon DEF RequestType
  <2>4. /\ q2.pc = "failing"
        /\ Same(q2, q, QFields \ {"pc"})
    BY <1>4, <1>7, <2>2 DEF RequestType
  <2>5. BooksOf(q2, s2, j2, c2)
    BY <1>1, <1>4, <1>5, <2>1, <2>2, <2>4
       DEF BooksOf, EarlyBooks, LateBooks, EndBooks, JobBooks, PlanBooks, SubAfter
  <2>6. Fairly(q, s, j, q2, s2, j2)
    BY <1>1, <1>4, <1>5, <2>1, <2>2, <2>4
       DEF Fairly, BooksOf, EarlyBooks, LateBooks, EndBooks, JobBooks, WalletPart, SubPart,
           TokenPart, Settled, SubAfter
  <2>7. Exactly(q, s, j, q2, s2, j2)
    BY <1>1, <1>4, <1>5, <2>1, <2>2, <2>4
       DEF Exactly, Exact, ExactOf, BooksOf, EarlyBooks, LateBooks, EndBooks, JobBooks,
           WalletPart, SubPart, TokenPart, Settled, SubAfter
  <2>8. Phased(q, s, j, q2, s2, j2)
    BY <1>1, <1>4, <1>5, <2>1, <2>2, <2>4
       DEF Phased, Exact, ExactOf, BooksOf, EarlyBooks, LateBooks, EndBooks, JobBooks, PhaseOf,
           ChargeOf, Taken, Returned, SubAfter
  <2> QED
    BY <1>3, <1>4, <2>1, <2>2, <2>3, <2>4, <2>5, <2>6, <2>7, <2>8
       DEF Step, q, s, j, c, q2, s2, j2, c2, Typed, Books
<1>8. CASE /\ q2 = [q EXCEPT !.pc = "failing"]
           /\ s2 = s /\ j2 = j /\ c2 = c /\ wallet' = wallet /\ subUsed' = subUsed /\ token' = token
           /\ Faults # {}
  <2>1. /\ s2 = s /\ j2 = j /\ c2 = c /\ wallet' = wallet /\ subUsed' = subUsed /\ token' = token
        /\ Faults # {}
    BY <1>8
  <2>2. "failing" \in ReqPcs
    BY <1>1, <1>4, <1>5, <2>1 DEF ReqPcs, JobPcs, RecType, Sources, SubAfter
  <2>3. q2 \in RequestType
    BY <1>4, <1>8, <2>2, Zenon DEF RequestType
  <2>4. /\ q2.pc = "failing"
        /\ Same(q2, q, QFields \ {"pc"})
    BY <1>4, <1>8, <2>2 DEF RequestType
  <2>5. BooksOf(q2, s2, j2, c2)
    BY <1>1, <1>4, <1>5, <2>1, <2>2, <2>4
       DEF BooksOf, EarlyBooks, LateBooks, EndBooks, JobBooks, PlanBooks, SubAfter
  <2>6. Fairly(q, s, j, q2, s2, j2)
    BY <1>1, <1>4, <1>5, <2>1, <2>2, <2>4
       DEF Fairly, BooksOf, EarlyBooks, LateBooks, EndBooks, JobBooks, WalletPart, SubPart,
           TokenPart, Settled, SubAfter
  <2>7. Exactly(q, s, j, q2, s2, j2)
    BY <1>1, <1>4, <1>5, <2>1, <2>2, <2>4
       DEF Exactly, Exact, ExactOf, BooksOf, EarlyBooks, LateBooks, EndBooks, JobBooks,
           WalletPart, SubPart, TokenPart, Settled, SubAfter
  <2>8. Phased(q, s, j, q2, s2, j2)
    BY <1>1, <1>4, <1>5, <2>1, <2>2, <2>4
       DEF Phased, Exact, ExactOf, BooksOf, EarlyBooks, LateBooks, EndBooks, JobBooks, PhaseOf,
           ChargeOf, Taken, Returned, SubAfter
  <2> QED
    BY <1>3, <1>4, <2>1, <2>2, <2>3, <2>4, <2>5, <2>6, <2>7, <2>8
       DEF Step, q, s, j, c, q2, s2, j2, c2, Typed, Books
<1> QED BY <1>2, <1>6, <1>7, <1>8 DEF q, s, j, c, q2, s2, j2, c2

-----------------------------------------------------------------------------
(* Realtime turns, and how the upstream answers. *)

LEMMA TurnStep ==
  ASSUME TypeOK, NEW r \in Requests, Books(r), NEW a \in Nat, Turn(r, a)
  PROVE  Step(r)
<1> DEFINE q == req[r]  s == ses[r]  j == job[r]  c == rec[r]
           q2 == req'[r]  s2 == ses'[r]  j2 == job'[r]  c2 == rec'[r]
<1>1. q.pc = "open" /\ q.turns < Turns
  BY DEF Turn
<1>2. \/ /\ q2 = [q EXCEPT !.turns = @ + 1, !.actual = @ + a, !.delta = a, !.pc = "turnFund", !.ok = FALSE]
         /\ s2 = s /\ j2 = j /\ c2 = c /\ wallet' = wallet /\ subUsed' = subUsed /\ token' = token
      \/ /\ q2 = [q EXCEPT !.turns = @ + 1, !.actual = @ + a, !.delta = a, !.pc = "turnLast", !.ok = TRUE]
         /\ s2 = s /\ j2 = j /\ c2 = c /\ wallet' = wallet /\ subUsed' = subUsed /\ token' = token
  BY DEF TypeOK, Turn
<1>3. Only(r)
  BY Zenon DEF Only, TypeOK, Turn
<1>4. /\ q \in RequestType /\ s \in SessionType /\ j \in JobType /\ c \in RecType
      /\ BooksOf(q, s, j, c) /\ wallet \in Int /\ token \in Int /\ subUsed \in Nat
  BY DEF TypeOK, Books, RecType
<1>5. FieldTypes(q, s, j)
  BY <1>4, FieldsTyped
<1> HIDE DEF q, s, j, c, q2, s2, j2, c2
<1> USE DEF Same, QFields, SFields, JFields, FieldTypes, Early, Making
<1>6. CASE /\ q2 = [q EXCEPT !.turns = @ + 1, !.actual = @ + a, !.delta = a, !.pc = "turnFund", !.ok = FALSE]
           /\ s2 = s /\ j2 = j /\ c2 = c /\ wallet' = wallet /\ subUsed' = subUsed /\ token' = token
  <2>1. /\ s2 = s /\ j2 = j /\ c2 = c /\ wallet' = wallet /\ subUsed' = subUsed /\ token' = token
    BY <1>6
  <2>2. /\ q.turns + 1 \in Nat /\ q.actual + a \in Nat /\ a \in Int /\ "turnFund" \in ReqPcs
        /\ FALSE \in BOOLEAN
    BY <1>1, <1>4, <1>5, <2>1
       DEF ReqPcs, JobPcs, RecType, Sources, BooksOf, EarlyBooks, LateBooks, EndBooks, JobBooks
  <2>3. q2 \in RequestType
    BY <1>4, <1>6, <2>2, Zenon DEF RequestType
  <2>4. /\ q2.turns = q.turns + 1
        /\ q2.actual = q.actual + a
        /\ q2.delta = a
        /\ q2.pc = "turnFund"
        /\ q2.ok = FALSE
        /\ Same(q2, q, QFields \ {"turns", "actual", "delta", "pc", "ok"})
    BY <1>4, <1>6, <2>2 DEF RequestType
  <2>5. BooksOf(q2, s2, j2, c2)
    BY <1>1, <1>4, <1>5, <2>1, <2>2, <2>4
       DEF BooksOf, EarlyBooks, LateBooks, EndBooks, JobBooks, PlanBooks
  <2>6. Fairly(q, s, j, q2, s2, j2)
    BY <1>1, <1>4, <1>5, <2>1, <2>2, <2>4
       DEF Fairly, BooksOf, EarlyBooks, LateBooks, EndBooks, JobBooks, WalletPart, SubPart,
           TokenPart, Settled
  <2>7. Exactly(q, s, j, q2, s2, j2)
    BY <1>1, <1>4, <1>5, <2>1, <2>2, <2>4
       DEF Exactly, Exact, ExactOf, BooksOf, EarlyBooks, LateBooks, EndBooks, JobBooks,
           WalletPart, SubPart, TokenPart, Settled
  <2>8. Phased(q, s, j, q2, s2, j2)
    BY <1>1, <1>4, <1>5, <2>1, <2>2, <2>4
       DEF Phased, Exact, ExactOf, BooksOf, EarlyBooks, LateBooks, EndBooks, JobBooks, PhaseOf,
           ChargeOf, Taken, Returned
  <2> QED
    BY <1>3, <1>4, <2>1, <2>2, <2>3, <2>4, <2>5, <2>6, <2>7, <2>8
       DEF Step, q, s, j, c, q2, s2, j2, c2, Typed, Books
<1>7. CASE /\ q2 = [q EXCEPT !.turns = @ + 1, !.actual = @ + a, !.delta = a, !.pc = "turnLast", !.ok = TRUE]
           /\ s2 = s /\ j2 = j /\ c2 = c /\ wallet' = wallet /\ subUsed' = subUsed /\ token' = token
  <2>1. /\ s2 = s /\ j2 = j /\ c2 = c /\ wallet' = wallet /\ subUsed' = subUsed /\ token' = token
    BY <1>7
  <2>2. /\ q.turns + 1 \in Nat /\ q.actual + a \in Nat /\ a \in Int /\ "turnLast" \in ReqPcs
        /\ TRUE \in BOOLEAN
    BY <1>1, <1>4, <1>5, <2>1
       DEF ReqPcs, JobPcs, RecType, Sources, BooksOf, EarlyBooks, LateBooks, EndBooks, JobBooks
  <2>3. q2 \in RequestType
    BY <1>4, <1>7, <2>2, Zenon DEF RequestType
  <2>4. /\ q2.turns = q.turns + 1
        /\ q2.actual = q.actual + a
        /\ q2.delta = a
        /\ q2.pc = "turnLast"
        /\ q2.ok = TRUE
        /\ Same(q2, q, QFields \ {"turns", "actual", "delta", "pc", "ok"})
    BY <1>4, <1>7, <2>2 DEF RequestType
  <2>5. BooksOf(q2, s2, j2, c2)
    BY <1>1, <1>4, <1>5, <2>1, <2>2, <2>4
       DEF BooksOf, EarlyBooks, LateBooks, EndBooks, JobBooks, PlanBooks
  <2>6. Fairly(q, s, j, q2, s2, j2)
    BY <1>1, <1>4, <1>5, <2>1, <2>2, <2>4
       DEF Fairly, BooksOf, EarlyBooks, LateBooks, EndBooks, JobBooks, WalletPart, SubPart,
           TokenPart, Settled
  <2>7. Exactly(q, s, j, q2, s2, j2)
    BY <1>1, <1>4, <1>5, <2>1, <2>2, <2>4
       DEF Exactly, Exact, ExactOf, BooksOf, EarlyBooks, LateBooks, EndBooks, JobBooks,
           WalletPart, SubPart, TokenPart, Settled
  <2>8. Phased(q, s, j, q2, s2, j2)
    BY <1>1, <1>4, <1>5, <2>1, <2>2, <2>4
       DEF Phased, Exact, ExactOf, BooksOf, EarlyBooks, LateBooks, EndBooks, JobBooks, PhaseOf,
           ChargeOf, Taken, Returned
  <2> QED
    BY <1>3, <1>4, <2>1, <2>2, <2>3, <2>4, <2>5, <2>6, <2>7, <2>8
       DEF Step, q, s, j, c, q2, s2, j2, c2, Typed, Books
<1> QED BY <1>2, <1>6, <1>7 DEF q, s, j, c, q2, s2, j2, c2

LEMMA TurnLastStep ==
  ASSUME TypeOK, NEW r \in Requests, Books(r), TurnLast(r)
  PROVE  Step(r)
<1> DEFINE q == req[r]  s == ses[r]  j == job[r]  c == rec[r]
           q2 == req'[r]  s2 == ses'[r]  j2 == job'[r]  c2 == rec'[r]
<1>1. q.pc = "turnLast"
  BY DEF TurnLast
<1>2. /\ q2 = [q EXCEPT !.actual = @ + q.delta, !.pc = (IF Affords(r, q.delta) THEN "turnFund" ELSE "settle")]
      /\ s2 = s /\ j2 = j /\ c2 = c /\ wallet' = wallet /\ subUsed' = subUsed /\ token' = token
  BY DEF TypeOK, TurnLast
<1>3. Only(r)
  BY Zenon DEF Only, TypeOK, TurnLast
<1>4. /\ q \in RequestType /\ s \in SessionType /\ j \in JobType /\ c \in RecType
      /\ BooksOf(q, s, j, c) /\ wallet \in Int /\ token \in Int /\ subUsed \in Nat
  BY DEF TypeOK, Books, RecType
<1>5. FieldTypes(q, s, j)
  BY <1>4, FieldsTyped
<1> HIDE DEF q, s, j, c, q2, s2, j2, c2
<1> USE DEF Same, QFields, SFields, JFields, FieldTypes, Early, Making
<1> QED
  <2>1. /\ s2 = s /\ j2 = j /\ c2 = c /\ wallet' = wallet /\ subUsed' = subUsed /\ token' = token
    BY <1>2
  <2>2. /\ q.actual + q.delta \in Nat
        /\ (IF Affords(r, q.delta) THEN "turnFund" ELSE "settle") \in ReqPcs
    BY <1>1, <1>4, <1>5, <2>1
       DEF ReqPcs, JobPcs, RecType, Sources, BooksOf, EarlyBooks, LateBooks, EndBooks, JobBooks
  <2>3. q2 \in RequestType
    BY <1>2, <1>4, <2>2, Zenon DEF RequestType
  <2>4. /\ q2.actual = q.actual + q.delta
        /\ q2.pc = (IF Affords(r, q.delta) THEN "turnFund" ELSE "settle")
        /\ Same(q2, q, QFields \ {"actual", "pc"})
    BY <1>2, <1>4, <2>2 DEF RequestType
  <2>5. BooksOf(q2, s2, j2, c2)
    BY <1>1, <1>4, <1>5, <2>1, <2>2, <2>4
       DEF BooksOf, EarlyBooks, LateBooks, EndBooks, JobBooks, PlanBooks
  <2>6. Fairly(q, s, j, q2, s2, j2)
    BY <1>1, <1>4, <1>5, <2>1, <2>2, <2>4
       DEF Fairly, BooksOf, EarlyBooks, LateBooks, EndBooks, JobBooks, WalletPart, SubPart,
           TokenPart, Settled
  <2>7. Exactly(q, s, j, q2, s2, j2)
    BY <1>1, <1>4, <1>5, <2>1, <2>2, <2>4
       DEF Exactly, Exact, ExactOf, BooksOf, EarlyBooks, LateBooks, EndBooks, JobBooks,
           WalletPart, SubPart, TokenPart, Settled
  <2>8. Phased(q, s, j, q2, s2, j2)
    BY <1>1, <1>4, <1>5, <2>1, <2>2, <2>4
       DEF Phased, Exact, ExactOf, BooksOf, EarlyBooks, LateBooks, EndBooks, JobBooks, PhaseOf,
           ChargeOf, Taken, Returned
  <2> QED
    BY <1>3, <1>4, <2>1, <2>2, <2>3, <2>4, <2>5, <2>6, <2>7, <2>8
       DEF Step, q, s, j, c, q2, s2, j2, c2, Typed, Books

LEMMA TurnFundStep ==
  ASSUME TypeOK, NEW r \in Requests, Books(r), TurnFund(r)
  PROVE  Step(r)
<1> DEFINE q == req[r]  s == ses[r]  j == job[r]  c == rec[r]
           q2 == req'[r]  s2 == ses'[r]  j2 == job'[r]  c2 == rec'[r]
<1>1. q.pc = "turnFund"
  BY DEF TurnFund, Goto, Consume
<1>2. \/ /\ q2 = [q EXCEPT !.pc = "turnToken"]
         /\ s2 = s /\ j2 = j /\ c2 = c /\ token' = token
         /\ wallet' = IF s.src = "wallet" THEN wallet - q.delta ELSE wallet
         /\ subUsed' = IF s.src = "wallet" THEN subUsed ELSE SubAfter(q.delta)
      \/ /\ q2 = [q EXCEPT !.pc = (IF q.ok THEN "settle" ELSE "turnLast"), !.ok = TRUE]
         /\ s2 = s /\ j2 = j /\ c2 = c /\ wallet' = wallet /\ subUsed' = subUsed /\ token' = token
  BY DEF TypeOK, TurnFund, TurnFails, Goto, Consume
<1>3. Only(r)
  BY Zenon DEF Only, TypeOK, TurnFund, TurnFails, Goto, Consume
<1>4. /\ q \in RequestType /\ s \in SessionType /\ j \in JobType /\ c \in RecType
      /\ BooksOf(q, s, j, c) /\ wallet \in Int /\ token \in Int /\ subUsed \in Nat
  BY DEF TypeOK, Books, RecType
<1>5. FieldTypes(q, s, j)
  BY <1>4, FieldsTyped
<1> HIDE DEF q, s, j, c, q2, s2, j2, c2
<1> USE DEF Same, QFields, SFields, JFields, FieldTypes, Early, Making
<1>6. CASE /\ q2 = [q EXCEPT !.pc = "turnToken"]
           /\ s2 = s /\ j2 = j /\ c2 = c /\ token' = token
           /\ wallet' = IF s.src = "wallet" THEN wallet - q.delta ELSE wallet
           /\ subUsed' = IF s.src = "wallet" THEN subUsed ELSE SubAfter(q.delta)
  <2>1. /\ s2 = s /\ j2 = j /\ c2 = c /\ token' = token
        /\ wallet' = IF s.src = "wallet" THEN wallet - q.delta ELSE wallet
        /\ subUsed' = IF s.src = "wallet" THEN subUsed ELSE SubAfter(q.delta)
    BY <1>6
  <2>2. "turnToken" \in ReqPcs
    BY <1>1, <1>4, <1>5, <2>1 DEF ReqPcs, JobPcs, RecType, Sources, SubAfter
  <2>3. q2 \in RequestType
    BY <1>4, <1>6, <2>2, Zenon DEF RequestType
  <2>4. /\ q2.pc = "turnToken"
        /\ Same(q2, q, QFields \ {"pc"})
    BY <1>4, <1>6, <2>2 DEF RequestType
  <2>5. BooksOf(q2, s2, j2, c2)
    BY <1>1, <1>4, <1>5, <2>1, <2>2, <2>4
       DEF BooksOf, EarlyBooks, LateBooks, EndBooks, JobBooks, PlanBooks, SubAfter, Sources
  <2>6. Fairly(q, s, j, q2, s2, j2)
    BY <1>1, <1>4, <1>5, <2>1, <2>2, <2>4
       DEF Fairly, BooksOf, EarlyBooks, LateBooks, EndBooks, JobBooks, WalletPart, SubPart,
           TokenPart, Settled, SubAfter, Sources
  <2>7. Exactly(q, s, j, q2, s2, j2)
    BY <1>1, <1>4, <1>5, <2>1, <2>2, <2>4
       DEF Exactly, Exact, ExactOf, BooksOf, EarlyBooks, LateBooks, EndBooks, JobBooks,
           WalletPart, SubPart, TokenPart, Settled, SubAfter, Sources
  <2>8. Phased(q, s, j, q2, s2, j2)
    BY <1>1, <1>4, <1>5, <2>1, <2>2, <2>4
       DEF Phased, Exact, ExactOf, BooksOf, EarlyBooks, LateBooks, EndBooks, JobBooks, PhaseOf,
           ChargeOf, Taken, Returned, SubAfter, Sources
  <2> QED
    BY <1>3, <1>4, <2>1, <2>2, <2>3, <2>4, <2>5, <2>6, <2>7, <2>8
       DEF Step, q, s, j, c, q2, s2, j2, c2, Typed, Books
<1>7. CASE /\ q2 = [q EXCEPT !.pc = (IF q.ok THEN "settle" ELSE "turnLast"), !.ok = TRUE]
           /\ s2 = s /\ j2 = j /\ c2 = c /\ wallet' = wallet /\ subUsed' = subUsed /\ token' = token
  <2>1. /\ s2 = s /\ j2 = j /\ c2 = c /\ wallet' = wallet /\ subUsed' = subUsed /\ token' = token
    BY <1>7
  <2>2. (IF q.ok THEN "settle" ELSE "turnLast") \in ReqPcs /\ TRUE \in BOOLEAN
    BY <1>1, <1>4, <1>5, <2>1 DEF ReqPcs, JobPcs, RecType, Sources, SubAfter
  <2>3. q2 \in RequestType
    BY <1>4, <1>7, <2>2, Zenon DEF RequestType
  <2>4. /\ q2.pc = (IF q.ok THEN "settle" ELSE "turnLast")
        /\ q2.ok = TRUE
        /\ Same(q2, q, QFields \ {"pc", "ok"})
    BY <1>4, <1>7, <2>2 DEF RequestType
  <2>5. BooksOf(q2, s2, j2, c2)
    BY <1>1, <1>4, <1>5, <2>1, <2>2, <2>4
       DEF BooksOf, EarlyBooks, LateBooks, EndBooks, JobBooks, PlanBooks, SubAfter, Sources
  <2>6. Fairly(q, s, j, q2, s2, j2)
    BY <1>1, <1>4, <1>5, <2>1, <2>2, <2>4
       DEF Fairly, BooksOf, EarlyBooks, LateBooks, EndBooks, JobBooks, WalletPart, SubPart,
           TokenPart, Settled, SubAfter, Sources
  <2>7. Exactly(q, s, j, q2, s2, j2)
    BY <1>1, <1>4, <1>5, <2>1, <2>2, <2>4
       DEF Exactly, Exact, ExactOf, BooksOf, EarlyBooks, LateBooks, EndBooks, JobBooks,
           WalletPart, SubPart, TokenPart, Settled, SubAfter, Sources
  <2>8. Phased(q, s, j, q2, s2, j2)
    BY <1>1, <1>4, <1>5, <2>1, <2>2, <2>4
       DEF Phased, Exact, ExactOf, BooksOf, EarlyBooks, LateBooks, EndBooks, JobBooks, PhaseOf,
           ChargeOf, Taken, Returned, SubAfter, Sources
  <2> QED
    BY <1>3, <1>4, <2>1, <2>2, <2>3, <2>4, <2>5, <2>6, <2>7, <2>8
       DEF Step, q, s, j, c, q2, s2, j2, c2, Typed, Books
<1> QED BY <1>2, <1>6, <1>7 DEF q, s, j, c, q2, s2, j2, c2

LEMMA TurnTokenStep ==
  ASSUME TypeOK, NEW r \in Requests, Books(r), TurnToken(r)
  PROVE  Step(r)
<1> DEFINE q == req[r]  s == ses[r]  j == job[r]  c == rec[r]
           q2 == req'[r]  s2 == ses'[r]  j2 == job'[r]  c2 == rec'[r]
<1>1. q.pc = "turnToken"
  BY DEF TurnToken, Goto, UseToken
<1>2. \/ /\ q2 = [q EXCEPT !.pc = (IF q.ok THEN "settle" ELSE "open")]
         /\ s2 = s /\ j2 = j /\ c2 = c /\ wallet' = wallet /\ subUsed' = subUsed
         /\ token' = IF q.flag.playground THEN token ELSE token - q.delta
      \/ /\ q2 = [q EXCEPT !.pc = (IF q.ok THEN "settle" ELSE "turnLast"), !.ok = TRUE]
         /\ s2 = s /\ j2 = j /\ c2 = c /\ wallet' = wallet /\ subUsed' = subUsed /\ token' = token
  BY DEF TypeOK, TurnToken, TurnFails, Goto, UseToken
<1>3. Only(r)
  BY Zenon DEF Only, TypeOK, TurnToken, TurnFails, Goto, UseToken
<1>4. /\ q \in RequestType /\ s \in SessionType /\ j \in JobType /\ c \in RecType
      /\ BooksOf(q, s, j, c) /\ wallet \in Int /\ token \in Int /\ subUsed \in Nat
  BY DEF TypeOK, Books, RecType
<1>5. FieldTypes(q, s, j)
  BY <1>4, FieldsTyped
<1> HIDE DEF q, s, j, c, q2, s2, j2, c2
<1> USE DEF Same, QFields, SFields, JFields, FieldTypes, Early, Making
<1>6. CASE /\ q2 = [q EXCEPT !.pc = (IF q.ok THEN "settle" ELSE "open")]
           /\ s2 = s /\ j2 = j /\ c2 = c /\ wallet' = wallet /\ subUsed' = subUsed
           /\ token' = IF q.flag.playground THEN token ELSE token - q.delta
  <2>1. /\ s2 = s /\ j2 = j /\ c2 = c /\ wallet' = wallet /\ subUsed' = subUsed
        /\ token' = IF q.flag.playground THEN token ELSE token - q.delta
    BY <1>6
  <2>2. (IF q.ok THEN "settle" ELSE "open") \in ReqPcs
    BY <1>1, <1>4, <1>5, <2>1 DEF ReqPcs, JobPcs, RecType, Sources
  <2>3. q2 \in RequestType
    BY <1>6, <1>4, <2>2, Zenon DEF RequestType
  <2>4. /\ q2.pc = (IF q.ok THEN "settle" ELSE "open")
        /\ Same(q2, q, QFields \ {"pc"})
    BY <1>6, <1>4, <2>2 DEF RequestType
  <2>5. BooksOf(q2, s2, j2, c2)
    BY <1>1, <1>4, <1>5, <2>1, <2>2, <2>4
       DEF BooksOf, EarlyBooks, LateBooks, EndBooks, JobBooks, PlanBooks
  <2>6. Fairly(q, s, j, q2, s2, j2)
    BY <1>1, <1>4, <1>5, <2>1, <2>2, <2>4
       DEF Fairly, BooksOf, EarlyBooks, LateBooks, EndBooks, JobBooks, WalletPart, SubPart,
           TokenPart, Settled
  <2>7. Exactly(q, s, j, q2, s2, j2)
    BY <1>1, <1>4, <1>5, <2>1, <2>2, <2>4
       DEF Exactly, Exact, ExactOf, BooksOf, EarlyBooks, LateBooks, EndBooks, JobBooks,
           WalletPart, SubPart, TokenPart, Settled
  <2>8. Phased(q, s, j, q2, s2, j2)
    BY <1>1, <1>4, <1>5, <2>1, <2>2, <2>4
       DEF Phased, Exact, ExactOf, BooksOf, EarlyBooks, LateBooks, EndBooks, JobBooks, PhaseOf,
           ChargeOf, Taken, Returned
  <2> QED
    BY <1>3, <1>4, <2>1, <2>2, <2>3, <2>4, <2>5, <2>6, <2>7, <2>8
       DEF Step, q, s, j, c, q2, s2, j2, c2, Typed, Books
<1>7. CASE /\ q2 = [q EXCEPT !.pc = (IF q.ok THEN "settle" ELSE "turnLast"), !.ok = TRUE]
           /\ s2 = s /\ j2 = j /\ c2 = c /\ wallet' = wallet /\ subUsed' = subUsed /\ token' = token
  <2>1. /\ s2 = s /\ j2 = j /\ c2 = c /\ wallet' = wallet /\ subUsed' = subUsed /\ token' = token
    BY <1>7
  <2>2. (IF q.ok THEN "settle" ELSE "turnLast") \in ReqPcs /\ TRUE \in BOOLEAN
    BY <1>1, <1>4, <1>5, <2>1 DEF ReqPcs, JobPcs, RecType, Sources
  <2>3. q2 \in RequestType
    BY <1>4, <1>7, <2>2, Zenon DEF RequestType
  <2>4. /\ q2.pc = (IF q.ok THEN "settle" ELSE "turnLast")
        /\ q2.ok = TRUE
        /\ Same(q2, q, QFields \ {"pc", "ok"})
    BY <1>4, <1>7, <2>2 DEF RequestType
  <2>5. BooksOf(q2, s2, j2, c2)
    BY <1>1, <1>4, <1>5, <2>1, <2>2, <2>4
       DEF BooksOf, EarlyBooks, LateBooks, EndBooks, JobBooks, PlanBooks
  <2>6. Fairly(q, s, j, q2, s2, j2)
    BY <1>1, <1>4, <1>5, <2>1, <2>2, <2>4
       DEF Fairly, BooksOf, EarlyBooks, LateBooks, EndBooks, JobBooks, WalletPart, SubPart,
           TokenPart, Settled
  <2>7. Exactly(q, s, j, q2, s2, j2)
    BY <1>1, <1>4, <1>5, <2>1, <2>2, <2>4
       DEF Exactly, Exact, ExactOf, BooksOf, EarlyBooks, LateBooks, EndBooks, JobBooks,
           WalletPart, SubPart, TokenPart, Settled
  <2>8. Phased(q, s, j, q2, s2, j2)
    BY <1>1, <1>4, <1>5, <2>1, <2>2, <2>4
       DEF Phased, Exact, ExactOf, BooksOf, EarlyBooks, LateBooks, EndBooks, JobBooks, PhaseOf,
           ChargeOf, Taken, Returned
  <2> QED
    BY <1>3, <1>4, <2>1, <2>2, <2>3, <2>4, <2>5, <2>6, <2>7, <2>8
       DEF Step, q, s, j, c, q2, s2, j2, c2, Typed, Books
<1> QED BY <1>2, <1>6, <1>7 DEF q, s, j, c, q2, s2, j2, c2

LEMMA SucceedStep ==
  ASSUME TypeOK, NEW r \in Requests, Books(r), NEW a \in Nat, Succeed(r, a)
  PROVE  Step(r)
<1> DEFINE q == req[r]  s == ses[r]  j == job[r]  c == rec[r]
           q2 == req'[r]  s2 == ses'[r]  j2 == job'[r]  c2 == rec'[r]
<1>1. q.pc = "open"
  BY DEF Succeed
<1>2. /\ q2 = [q EXCEPT !.pc = "settle", !.ok = TRUE, !.actual = (IF q.flag.realtime THEN @ ELSE a)]
      /\ s2 = s /\ j2 = j /\ c2 = c /\ wallet' = wallet /\ subUsed' = subUsed /\ token' = token
  BY DEF TypeOK, Succeed
<1>3. Only(r)
  BY Zenon DEF Only, TypeOK, Succeed
<1>4. /\ q \in RequestType /\ s \in SessionType /\ j \in JobType /\ c \in RecType
      /\ BooksOf(q, s, j, c) /\ wallet \in Int /\ token \in Int /\ subUsed \in Nat
  BY DEF TypeOK, Books, RecType
<1>5. FieldTypes(q, s, j)
  BY <1>4, FieldsTyped
<1> HIDE DEF q, s, j, c, q2, s2, j2, c2
<1> USE DEF Same, QFields, SFields, JFields, FieldTypes, Early, Making
<1> QED
  <2>1. /\ s2 = s /\ j2 = j /\ c2 = c /\ wallet' = wallet /\ subUsed' = subUsed /\ token' = token
    BY <1>2
  <2>2. /\ "settle" \in ReqPcs /\ TRUE \in BOOLEAN /\ (IF q.flag.realtime THEN q.actual ELSE a) \in Nat
    BY <1>1, <1>4, <1>5, <2>1 DEF ReqPcs, JobPcs, RecType, Sources
  <2>3. q2 \in RequestType
    BY <1>2, <1>4, <2>2, Zenon DEF RequestType
  <2>4. /\ q2.pc = "settle"
        /\ q2.ok = TRUE
        /\ q2.actual = (IF q.flag.realtime THEN q.actual ELSE a)
        /\ Same(q2, q, QFields \ {"pc", "ok", "actual"})
    BY <1>2, <1>4, <2>2 DEF RequestType
  <2>5. BooksOf(q2, s2, j2, c2)
    BY <1>1, <1>4, <1>5, <2>1, <2>2, <2>4
       DEF BooksOf, EarlyBooks, LateBooks, EndBooks, JobBooks, PlanBooks
  <2>6. Fairly(q, s, j, q2, s2, j2)
    BY <1>1, <1>4, <1>5, <2>1, <2>2, <2>4
       DEF Fairly, BooksOf, EarlyBooks, LateBooks, EndBooks, JobBooks, WalletPart, SubPart,
           TokenPart, Settled
  <2>7. Exactly(q, s, j, q2, s2, j2)
    BY <1>1, <1>4, <1>5, <2>1, <2>2, <2>4
       DEF Exactly, Exact, ExactOf, BooksOf, EarlyBooks, LateBooks, EndBooks, JobBooks,
           WalletPart, SubPart, TokenPart, Settled
  <2>8. Phased(q, s, j, q2, s2, j2)
    BY <1>1, <1>4, <1>5, <2>1, <2>2, <2>4
       DEF Phased, Exact, ExactOf, BooksOf, EarlyBooks, LateBooks, EndBooks, JobBooks, PhaseOf,
           ChargeOf, Taken, Returned
  <2> QED
    BY <1>3, <1>4, <2>1, <2>2, <2>3, <2>4, <2>5, <2>6, <2>7, <2>8
       DEF Step, q, s, j, c, q2, s2, j2, c2, Typed, Books

LEMMA FailStep ==
  ASSUME TypeOK, NEW r \in Requests, Books(r), Fail(r)
  PROVE  Step(r)
<1> DEFINE q == req[r]  s == ses[r]  j == job[r]  c == rec[r]
           q2 == req'[r]  s2 == ses'[r]  j2 == job'[r]  c2 == rec'[r]
<1>1. q.pc = "open"
  BY DEF Fail, Goto
<1>2. /\ q2 = [q EXCEPT !.pc = "failing"]
      /\ s2 = s /\ j2 = j /\ c2 = c /\ wallet' = wallet /\ subUsed' = subUsed /\ token' = token
  BY DEF TypeOK, Fail, Goto
<1>3. Only(r)
  BY Zenon DEF Only, TypeOK, Fail, Goto
<1>4. /\ q \in RequestType /\ s \in SessionType /\ j \in JobType /\ c \in RecType
      /\ BooksOf(q, s, j, c) /\ wallet \in Int /\ token \in Int /\ subUsed \in Nat
  BY DEF TypeOK, Books, RecType
<1>5. FieldTypes(q, s, j)
  BY <1>4, FieldsTyped
<1> HIDE DEF q, s, j, c, q2, s2, j2, c2
<1> USE DEF Same, QFields, SFields, JFields, FieldTypes, Early, Making
<1> QED
  <2>1. /\ s2 = s /\ j2 = j /\ c2 = c /\ wallet' = wallet /\ subUsed' = subUsed /\ token' = token
    BY <1>2
  <2>2. "failing" \in ReqPcs
    BY <1>1, <1>4, <1>5, <2>1 DEF ReqPcs, JobPcs, RecType, Sources
  <2>3. q2 \in RequestType
    BY <1>2, <1>4, <2>2, Zenon DEF RequestType
  <2>4. /\ q2.pc = "failing"
        /\ Same(q2, q, QFields \ {"pc"})
    BY <1>2, <1>4, <2>2 DEF RequestType
  <2>5. BooksOf(q2, s2, j2, c2)
    BY <1>1, <1>4, <1>5, <2>1, <2>2, <2>4
       DEF BooksOf, EarlyBooks, LateBooks, EndBooks, JobBooks, PlanBooks
  <2>6. Fairly(q, s, j, q2, s2, j2)
    BY <1>1, <1>4, <1>5, <2>1, <2>2, <2>4
       DEF Fairly, BooksOf, EarlyBooks, LateBooks, EndBooks, JobBooks, WalletPart, SubPart,
           TokenPart, Settled
  <2>7. Exactly(q, s, j, q2, s2, j2)
    BY <1>1, <1>4, <1>5, <2>1, <2>2, <2>4
       DEF Exactly, Exact, ExactOf, BooksOf, EarlyBooks, LateBooks, EndBooks, JobBooks,
           WalletPart, SubPart, TokenPart, Settled
  <2>8. Phased(q, s, j, q2, s2, j2)
    BY <1>1, <1>4, <1>5, <2>1, <2>2, <2>4
       DEF Phased, Exact, ExactOf, BooksOf, EarlyBooks, LateBooks, EndBooks, JobBooks, PhaseOf,
           ChargeOf, Taken, Returned
  <2> QED
    BY <1>3, <1>4, <2>1, <2>2, <2>3, <2>4, <2>5, <2>6, <2>7, <2>8
       DEF Step, q, s, j, c, q2, s2, j2, c2, Typed, Books

-----------------------------------------------------------------------------
(* Settle. *)

LEMMA SettleEqualStep ==
  ASSUME TypeOK, NEW r \in Requests, Books(r), SettleEqual(r)
  PROVE  Step(r)
<1> DEFINE q == req[r]  s == ses[r]  j == job[r]  c == rec[r]
           q2 == req'[r]  s2 == ses'[r]  j2 == job'[r]  c2 == rec'[r]
<1>1. q.pc = "settle" /\ q.actual - s.pre = 0
  BY DEF SettleEqual, SettleDelta, Goto
<1>2. /\ q2 = [q EXCEPT !.pc = "ended"]
      /\ s2 = [s EXCEPT !.settled = TRUE]
      /\ j2 = j /\ c2 = c /\ wallet' = wallet /\ subUsed' = subUsed /\ token' = token
  BY DEF TypeOK, SettleEqual, SettleDelta, Goto
<1>3. Only(r)
  BY Zenon DEF Only, TypeOK, SettleEqual, SettleDelta, Goto
<1>4. /\ q \in RequestType /\ s \in SessionType /\ j \in JobType /\ c \in RecType
      /\ BooksOf(q, s, j, c) /\ wallet \in Int /\ token \in Int /\ subUsed \in Nat
  BY DEF TypeOK, Books, RecType
<1>5. FieldTypes(q, s, j)
  BY <1>4, FieldsTyped
<1> HIDE DEF q, s, j, c, q2, s2, j2, c2
<1> USE DEF Same, QFields, SFields, JFields, FieldTypes, Early, Making
<1> QED
  <2>1. /\ j2 = j /\ c2 = c /\ wallet' = wallet /\ subUsed' = subUsed /\ token' = token
    BY <1>2
  <2>2. "ended" \in ReqPcs /\ TRUE \in BOOLEAN
    BY <1>1, <1>4, <1>5, <2>1 DEF ReqPcs, JobPcs, RecType, Sources
  <2>3. /\ ~s.settled /\ ~s.fundingSettled /\ ~s.refunded /\ j.pc = "none" /\ q.ok /\ q.fee = 0
        /\ q.actual = s.pre /\ s.pre = s.want + s.extra /\ s.tokenConsumed = s.pre
        /\ s.src = "sub" => s.consumed = s.want
        /\ s.src = "wallet" => s.consumed >= s.pre
    BY <1>1, <1>4, <1>5, <2>1, <2>2 DEF BooksOf, LateBooks, EndBooks
  <2>4. q2 \in RequestType
    BY <1>2, <1>4, <2>2, Zenon DEF RequestType
  <2>5. /\ q2.pc = "ended"
        /\ Same(q2, q, QFields \ {"pc"})
    BY <1>2, <1>4, <2>2 DEF RequestType
  <2>6. s2 \in SessionType
    BY <1>2, <1>4, <2>2, Zenon DEF SessionType
  <2>7. /\ s2.settled = TRUE
        /\ Same(s2, s, SFields \ {"settled"})
    BY <1>2, <1>4, <2>2 DEF SessionType
  <2>8. BooksOf(q2, s2, j2, c2)
    BY <1>1, <1>4, <1>5, <2>1, <2>2, <2>3, <2>5, <2>7
       DEF BooksOf, EarlyBooks, LateBooks, EndBooks, JobBooks, PlanBooks
  <2>9. Fairly(q, s, j, q2, s2, j2)
    BY <1>1, <1>4, <1>5, <2>1, <2>2, <2>3, <2>5, <2>7
       DEF Fairly, WalletPart, SubPart, TokenPart, Settled
  <2>10. Exactly(q, s, j, q2, s2, j2)
    BY <1>1, <1>4, <1>5, <2>1, <2>2, <2>3, <2>5, <2>7
       DEF Exactly, Exact, ExactOf, WalletPart, SubPart, TokenPart, Settled
  <2>11. Phased(q, s, j, q2, s2, j2)
    BY <1>1, <1>4, <1>5, <2>1, <2>2, <2>3, <2>5, <2>7
       DEF Phased, Exact, ExactOf, BooksOf, EarlyBooks, LateBooks, EndBooks, JobBooks, PhaseOf,
           ChargeOf, Taken, Returned
  <2> QED
    BY <1>3, <1>4, <2>1, <2>2, <2>4, <2>5, <2>6, <2>7, <2>8, <2>9, <2>10, <2>11
       DEF Step, q, s, j, c, q2, s2, j2, c2, Typed, Books

LEMMA SettleFundStep ==
  ASSUME TypeOK, NEW r \in Requests, Books(r), SettleFund(r)
  PROVE  Step(r)
<1> DEFINE q == req[r]  s == ses[r]  j == job[r]  c == rec[r]
           q2 == req'[r]  s2 == ses'[r]  j2 == job'[r]  c2 == rec'[r]
<1>1. q.pc = "settle"
  BY DEF SettleFund, SettleDelta, Goto, Consume
<1>2. /\ q2 = [q EXCEPT !.pc = "settleToken"]
      /\ s2 = [s EXCEPT !.fundingSettled = TRUE]
      /\ j2 = j /\ c2 = c /\ token' = token
      /\ wallet' = IF s.src = "wallet" THEN wallet - (q.actual - s.pre) ELSE wallet
      /\ subUsed' = IF s.src = "wallet" THEN subUsed ELSE SubAfter(q.actual - s.pre)
  BY DEF TypeOK, SettleFund, SettleDelta, Goto, Consume
<1>3. Only(r)
  BY Zenon DEF Only, TypeOK, SettleFund, SettleDelta, Goto, Consume
<1>4. /\ q \in RequestType /\ s \in SessionType /\ j \in JobType /\ c \in RecType
      /\ BooksOf(q, s, j, c) /\ wallet \in Int /\ token \in Int /\ subUsed \in Nat
  BY DEF TypeOK, Books, RecType
<1>5. FieldTypes(q, s, j)
  BY <1>4, FieldsTyped
<1> HIDE DEF q, s, j, c, q2, s2, j2, c2
<1> USE DEF Same, QFields, SFields, JFields, FieldTypes, Early, Making
<1> QED
  <2>1. /\ j2 = j /\ c2 = c /\ token' = token
        /\ wallet' = IF s.src = "wallet" THEN wallet - (q.actual - s.pre) ELSE wallet
        /\ subUsed' = IF s.src = "wallet" THEN subUsed ELSE SubAfter(q.actual - s.pre)
    BY <1>2
  <2>2. "settleToken" \in ReqPcs /\ TRUE \in BOOLEAN
    BY <1>1, <1>4, <1>5, <2>1 DEF ReqPcs, JobPcs, RecType, Sources, SubAfter
  <2>3. q2 \in RequestType
    BY <1>2, <1>4, <2>2, Zenon DEF RequestType
  <2>4. /\ q2.pc = "settleToken"
        /\ Same(q2, q, QFields \ {"pc"})
    BY <1>2, <1>4, <2>2 DEF RequestType
  <2>5. s2 \in SessionType
    BY <1>2, <1>4, <2>2, Zenon DEF SessionType
  <2>6. /\ s2.fundingSettled = TRUE
        /\ Same(s2, s, SFields \ {"fundingSettled"})
    BY <1>2, <1>4, <2>2 DEF SessionType
  <2>7. BooksOf(q2, s2, j2, c2)
    BY <1>1, <1>4, <1>5, <2>1, <2>2, <2>4, <2>6
       DEF BooksOf, EarlyBooks, LateBooks, EndBooks, JobBooks, PlanBooks, SubAfter, Sources
  <2>8. Fairly(q, s, j, q2, s2, j2)
    BY <1>1, <1>4, <1>5, <2>1, <2>2, <2>4, <2>6
       DEF Fairly, BooksOf, EarlyBooks, LateBooks, EndBooks, JobBooks, WalletPart, SubPart,
           TokenPart, Settled, SubAfter, Sources
  <2>9. Exactly(q, s, j, q2, s2, j2)
    BY <1>1, <1>4, <1>5, <2>1, <2>2, <2>4, <2>6
       DEF Exactly, Exact, ExactOf, BooksOf, EarlyBooks, LateBooks, EndBooks, JobBooks,
           WalletPart, SubPart, TokenPart, Settled, SubAfter, Sources
  <2>10. Phased(q, s, j, q2, s2, j2)
    BY <1>1, <1>4, <1>5, <2>1, <2>2, <2>4, <2>6
       DEF Phased, Exact, ExactOf, BooksOf, EarlyBooks, LateBooks, EndBooks, JobBooks, PhaseOf,
           ChargeOf, Taken, Returned, SubAfter, Sources
  <2> QED
    BY <1>3, <1>4, <2>1, <2>2, <2>3, <2>4, <2>5, <2>6, <2>7, <2>8, <2>9, <2>10
       DEF Step, q, s, j, c, q2, s2, j2, c2, Typed, Books

LEMMA SettleErrorStep ==
  ASSUME TypeOK, NEW r \in Requests, Books(r), SettleError(r)
  PROVE  Step(r)
<1> DEFINE q == req[r]  s == ses[r]  j == job[r]  c == rec[r]
           q2 == req'[r]  s2 == ses'[r]  j2 == job'[r]  c2 == rec'[r]
<1>1. q.pc = "settle"
  BY DEF SettleError, Goto
<1>2. /\ q2 = [q EXCEPT !.pc = "ended"]
      /\ s2 = s /\ j2 = j /\ c2 = c /\ wallet' = wallet /\ subUsed' = subUsed /\ token' = token
  BY DEF TypeOK, SettleError, Goto
<1>3. Only(r)
  BY Zenon DEF Only, TypeOK, SettleError, Goto
<1>4. /\ q \in RequestType /\ s \in SessionType /\ j \in JobType /\ c \in RecType
      /\ BooksOf(q, s, j, c) /\ wallet \in Int /\ token \in Int /\ subUsed \in Nat
  BY DEF TypeOK, Books, RecType
<1>5. FieldTypes(q, s, j)
  BY <1>4, FieldsTyped
<1> HIDE DEF q, s, j, c, q2, s2, j2, c2
<1> USE DEF Same, QFields, SFields, JFields, FieldTypes, Early, Making
<1> QED
  <2>1. /\ s2 = s /\ j2 = j /\ c2 = c /\ wallet' = wallet /\ subUsed' = subUsed /\ token' = token
    BY <1>2
  <2>2. "ended" \in ReqPcs
    BY <1>1, <1>4, <1>5, <2>1 DEF ReqPcs, JobPcs, RecType, Sources
  <2>3. q2 \in RequestType
    BY <1>2, <1>4, <2>2, Zenon DEF RequestType
  <2>4. /\ q2.pc = "ended"
        /\ Same(q2, q, QFields \ {"pc"})
    BY <1>2, <1>4, <2>2 DEF RequestType
  <2>5. BooksOf(q2, s2, j2, c2)
    BY <1>1, <1>4, <1>5, <2>1, <2>2, <2>4
       DEF BooksOf, EarlyBooks, LateBooks, EndBooks, JobBooks, PlanBooks
  <2>6. Fairly(q, s, j, q2, s2, j2)
    BY <1>1, <1>4, <1>5, <2>1, <2>2, <2>4
       DEF Fairly, BooksOf, EarlyBooks, LateBooks, EndBooks, JobBooks, WalletPart, SubPart,
           TokenPart, Settled
  <2>7. Exactly(q, s, j, q2, s2, j2)
    BY <1>1, <1>4, <1>5, <2>1, <2>2, <2>4
       DEF Exactly, Exact, ExactOf, BooksOf, EarlyBooks, LateBooks, EndBooks, JobBooks,
           WalletPart, SubPart, TokenPart, Settled
  <2>8. Phased(q, s, j, q2, s2, j2)
    BY <1>1, <1>4, <1>5, <2>1, <2>2, <2>4
       DEF Phased, Exact, ExactOf, BooksOf, EarlyBooks, LateBooks, EndBooks, JobBooks, PhaseOf,
           ChargeOf, Taken, Returned
  <2> QED
    BY <1>3, <1>4, <2>1, <2>2, <2>3, <2>4, <2>5, <2>6, <2>7, <2>8
       DEF Step, q, s, j, c, q2, s2, j2, c2, Typed, Books

LEMMA SettleTokenStep ==
  ASSUME TypeOK, NEW r \in Requests, Books(r), SettleToken(r)
  PROVE  Step(r)
<1> DEFINE q == req[r]  s == ses[r]  j == job[r]  c == rec[r]
           q2 == req'[r]  s2 == ses'[r]  j2 == job'[r]  c2 == rec'[r]
<1>1. q.pc = "settleToken"
  BY DEF SettleToken, SettleDelta, Goto, UseToken
<1>2. \/ /\ q2 = [q EXCEPT !.pc = "ended"]
         /\ s2 = [s EXCEPT !.settled = TRUE]
         /\ j2 = j /\ c2 = c /\ wallet' = wallet /\ subUsed' = subUsed
         /\ token' = IF q.flag.playground THEN token ELSE token - (q.actual - s.pre)
      \/ /\ q2 = [q EXCEPT !.pc = "ended"]
         /\ s2 = [s EXCEPT !.settled = TRUE]
         /\ j2 = j /\ c2 = c /\ wallet' = wallet /\ subUsed' = subUsed /\ token' = token
         /\ "adjust" \in Faults
  BY DEF TypeOK, SettleToken, SettleDelta, Goto, UseToken
<1>3. Only(r)
  BY Zenon DEF Only, TypeOK, SettleToken, SettleDelta, Goto, UseToken
<1>4. /\ q \in RequestType /\ s \in SessionType /\ j \in JobType /\ c \in RecType
      /\ BooksOf(q, s, j, c) /\ wallet \in Int /\ token \in Int /\ subUsed \in Nat
  BY DEF TypeOK, Books, RecType
<1>5. FieldTypes(q, s, j)
  BY <1>4, FieldsTyped
<1> HIDE DEF q, s, j, c, q2, s2, j2, c2
<1> USE DEF Same, QFields, SFields, JFields, FieldTypes, Early, Making
<1>6. CASE /\ q2 = [q EXCEPT !.pc = "ended"]
           /\ s2 = [s EXCEPT !.settled = TRUE]
           /\ j2 = j /\ c2 = c /\ wallet' = wallet /\ subUsed' = subUsed
           /\ token' = IF q.flag.playground THEN token ELSE token - (q.actual - s.pre)
  <2>1. /\ j2 = j /\ c2 = c /\ wallet' = wallet /\ subUsed' = subUsed
        /\ token' = IF q.flag.playground THEN token ELSE token - (q.actual - s.pre)
    BY <1>6
  <2>2. "ended" \in ReqPcs /\ TRUE \in BOOLEAN
    BY <1>1, <1>4, <1>5, <2>1 DEF ReqPcs, JobPcs, RecType, Sources
  <2>3. q2 \in RequestType
    BY <1>4, <1>6, <2>2, Zenon DEF RequestType
  <2>4. /\ q2.pc = "ended"
        /\ Same(q2, q, QFields \ {"pc"})
    BY <1>4, <1>6, <2>2 DEF RequestType
  <2>5. s2 \in SessionType
    BY <1>4, <1>6, <2>2, Zenon DEF SessionType
  <2>6. /\ s2.settled = TRUE
        /\ Same(s2, s, SFields \ {"settled"})
    BY <1>4, <1>6, <2>2 DEF SessionType
  <2>7. BooksOf(q2, s2, j2, c2)
    BY <1>1, <1>4, <1>5, <2>1, <2>2, <2>4, <2>6
       DEF BooksOf, EarlyBooks, LateBooks, EndBooks, JobBooks, PlanBooks
  <2>8. Fairly(q, s, j, q2, s2, j2)
    BY <1>1, <1>4, <1>5, <2>1, <2>2, <2>4, <2>6
       DEF Fairly, BooksOf, EarlyBooks, LateBooks, EndBooks, JobBooks, WalletPart, SubPart,
           TokenPart, Settled
  <2>9. Exactly(q, s, j, q2, s2, j2)
    BY <1>1, <1>4, <1>5, <2>1, <2>2, <2>4, <2>6
       DEF Exactly, Exact, ExactOf, BooksOf, EarlyBooks, LateBooks, EndBooks, JobBooks,
           WalletPart, SubPart, TokenPart, Settled
  <2>10. Phased(q, s, j, q2, s2, j2)
    BY <1>1, <1>4, <1>5, <2>1, <2>2, <2>4, <2>6
       DEF Phased, Exact, ExactOf, BooksOf, EarlyBooks, LateBooks, EndBooks, JobBooks, PhaseOf,
           ChargeOf, Taken, Returned
  <2> QED
    BY <1>3, <1>4, <2>1, <2>2, <2>3, <2>4, <2>5, <2>6, <2>7, <2>8, <2>9, <2>10
       DEF Step, q, s, j, c, q2, s2, j2, c2, Typed, Books
<1>7. CASE /\ q2 = [q EXCEPT !.pc = "ended"]
           /\ s2 = [s EXCEPT !.settled = TRUE]
           /\ j2 = j /\ c2 = c /\ wallet' = wallet /\ subUsed' = subUsed /\ token' = token
           /\ "adjust" \in Faults
  <2>1. /\ j2 = j /\ c2 = c /\ wallet' = wallet /\ subUsed' = subUsed /\ token' = token
        /\ "adjust" \in Faults
    BY <1>7
  <2>2. "ended" \in ReqPcs /\ TRUE \in BOOLEAN
    BY <1>1, <1>4, <1>5, <2>1 DEF ReqPcs, JobPcs, RecType, Sources
  <2>3. q2 \in RequestType
    BY <1>4, <1>7, <2>2, Zenon DEF RequestType
  <2>4. /\ q2.pc = "ended"
        /\ Same(q2, q, QFields \ {"pc"})
    BY <1>4, <1>7, <2>2 DEF RequestType
  <2>5. s2 \in SessionType
    BY <1>4, <1>7, <2>2, Zenon DEF SessionType
  <2>6. /\ s2.settled = TRUE
        /\ Same(s2, s, SFields \ {"settled"})
    BY <1>4, <1>7, <2>2 DEF SessionType
  <2>7. BooksOf(q2, s2, j2, c2)
    BY <1>1, <1>4, <1>5, <2>1, <2>2, <2>4, <2>6
       DEF BooksOf, EarlyBooks, LateBooks, EndBooks, JobBooks, PlanBooks
  <2>8. Fairly(q, s, j, q2, s2, j2)
    BY <1>1, <1>4, <1>5, <2>1, <2>2, <2>4, <2>6
       DEF Fairly, BooksOf, EarlyBooks, LateBooks, EndBooks, JobBooks, WalletPart, SubPart,
           TokenPart, Settled
  <2>9. Exactly(q, s, j, q2, s2, j2)
    BY <1>1, <1>4, <1>5, <2>1, <2>2, <2>4, <2>6
       DEF Exactly, Exact, ExactOf, BooksOf, EarlyBooks, LateBooks, EndBooks, JobBooks,
           WalletPart, SubPart, TokenPart, Settled
  <2>10. Phased(q, s, j, q2, s2, j2)
    BY <1>1, <1>4, <1>5, <2>1, <2>2, <2>4, <2>6
       DEF Phased, Exact, ExactOf, BooksOf, EarlyBooks, LateBooks, EndBooks, JobBooks, PhaseOf,
           ChargeOf, Taken, Returned
  <2> QED
    BY <1>3, <1>4, <2>1, <2>2, <2>3, <2>4, <2>5, <2>6, <2>7, <2>8, <2>9, <2>10
       DEF Step, q, s, j, c, q2, s2, j2, c2, Typed, Books
<1> QED BY <1>2, <1>6, <1>7 DEF q, s, j, c, q2, s2, j2, c2

-----------------------------------------------------------------------------
(* Refund, the violation fee and the refund goroutine. *)

LEMMA RefundStep ==
  ASSUME TypeOK, NEW r \in Requests, Books(r), Refund(r)
  PROVE  Step(r)
<1> DEFINE q == req[r]  s == ses[r]  j == job[r]  c == rec[r]
           q2 == req'[r]  s2 == ses'[r]  j2 == job'[r]  c2 == rec'[r]
<1>1. q.pc = "failing"
  BY DEF Refund, Goto
<1>2. \/ /\ q2 = [q EXCEPT !.pc = "fee"]
         /\ s2 = [s EXCEPT !.refunded = TRUE]
         /\ j2 = [j EXCEPT !.pc = "fund"]
         /\ c2 = c /\ wallet' = wallet /\ subUsed' = subUsed /\ token' = token
         /\ NeedsRefund(s)
      \/ /\ q2 = [q EXCEPT !.pc = "fee"]
         /\ s2 = s /\ j2 = j /\ c2 = c /\ wallet' = wallet /\ subUsed' = subUsed /\ token' = token
         /\ ~NeedsRefund(s)
  BY DEF TypeOK, Refund, Goto
<1>3. Only(r)
  BY Zenon DEF Only, TypeOK, Refund, Goto
<1>4. /\ q \in RequestType /\ s \in SessionType /\ j \in JobType /\ c \in RecType
      /\ BooksOf(q, s, j, c) /\ wallet \in Int /\ token \in Int /\ subUsed \in Nat
  BY DEF TypeOK, Books, RecType
<1>5. FieldTypes(q, s, j)
  BY <1>4, FieldsTyped
<1> HIDE DEF q, s, j, c, q2, s2, j2, c2
<1> USE DEF Same, QFields, SFields, JFields, FieldTypes, Early, Making
<1>6. CASE /\ q2 = [q EXCEPT !.pc = "fee"]
           /\ s2 = [s EXCEPT !.refunded = TRUE]
           /\ j2 = [j EXCEPT !.pc = "fund"]
           /\ c2 = c /\ wallet' = wallet /\ subUsed' = subUsed /\ token' = token
           /\ NeedsRefund(s)
  <2>1. /\ c2 = c /\ wallet' = wallet /\ subUsed' = subUsed /\ token' = token
        /\ NeedsRefund(s)
    BY <1>6
  <2>2. "fee" \in ReqPcs /\ TRUE \in BOOLEAN /\ "fund" \in JobPcs
    BY <1>1, <1>4, <1>5, <2>1 DEF ReqPcs, JobPcs, RecType, Sources, NeedsRefund
  <2>3. /\ ~s.settled /\ ~s.fundingSettled /\ ~s.refunded /\ j.pc = "none" /\ q.fee = 0
    BY <1>1, <1>4, <1>5, <2>1, <2>2
       DEF BooksOf, EarlyBooks, LateBooks, EndBooks, JobBooks, PlanBooks, NeedsRefund, Sources
  <2>4. q2 \in RequestType
    BY <1>4, <1>6, <2>2, Zenon DEF RequestType
  <2>5. /\ q2.pc = "fee"
        /\ Same(q2, q, QFields \ {"pc"})
    BY <1>4, <1>6, <2>2 DEF RequestType
  <2>6. s2 \in SessionType
    BY <1>4, <1>6, <2>2, Zenon DEF SessionType
  <2>7. /\ s2.refunded = TRUE
        /\ Same(s2, s, SFields \ {"refunded"})
    BY <1>4, <1>6, <2>2 DEF SessionType
  <2>8. j2 \in JobType
    BY <1>4, <1>6, <2>2, Zenon DEF JobType
  <2>9. /\ j2.pc = "fund"
        /\ Same(j2, j, JFields \ {"pc"})
    BY <1>4, <1>6, <2>2 DEF JobType
  <2>10. BooksOf(q2, s2, j2, c2)
    BY <1>1, <1>4, <1>5, <2>1, <2>2, <2>3, <2>5, <2>7, <2>9
       DEF BooksOf, EarlyBooks, LateBooks, EndBooks, JobBooks, PlanBooks, NeedsRefund, Sources
  <2>11. Fairly(q, s, j, q2, s2, j2)
    BY <1>1, <1>4, <1>5, <2>1, <2>2, <2>3, <2>5, <2>7, <2>9
       DEF Fairly, WalletPart, SubPart, TokenPart, Settled, NeedsRefund, Sources
  <2>12. Exactly(q, s, j, q2, s2, j2)
    BY <1>1, <1>4, <1>5, <2>1, <2>2, <2>3, <2>5, <2>7, <2>9
       DEF Exactly, Exact, ExactOf, WalletPart, SubPart, TokenPart, Settled, NeedsRefund, Sources
  <2>13. Phased(q, s, j, q2, s2, j2)
    BY <1>1, <1>4, <1>5, <2>1, <2>2, <2>3, <2>5, <2>7, <2>9
       DEF Phased, Exact, ExactOf, BooksOf, EarlyBooks, LateBooks, EndBooks, JobBooks, PhaseOf,
           ChargeOf, Taken, Returned, NeedsRefund, Sources
  <2> QED
    BY <1>3, <1>4, <2>1, <2>2, <2>4, <2>5, <2>6, <2>7, <2>8, <2>9, <2>10, <2>11, <2>12, <2>13
       DEF Step, q, s, j, c, q2, s2, j2, c2, Typed, Books
<1>7. CASE /\ q2 = [q EXCEPT !.pc = "fee"]
           /\ s2 = s /\ j2 = j /\ c2 = c /\ wallet' = wallet /\ subUsed' = subUsed /\ token' = token
           /\ ~NeedsRefund(s)
  <2>1. /\ s2 = s /\ j2 = j /\ c2 = c /\ wallet' = wallet /\ subUsed' = subUsed /\ token' = token
        /\ ~NeedsRefund(s)
    BY <1>7
  <2>2. "fee" \in ReqPcs
    BY <1>1, <1>4, <1>5, <2>1 DEF ReqPcs, JobPcs, RecType, Sources, NeedsRefund
  <2>3. /\ ~s.settled /\ ~s.fundingSettled /\ ~s.refunded /\ j.pc = "none" /\ q.fee = 0
    BY <1>1, <1>4, <1>5, <2>1, <2>2
       DEF BooksOf, EarlyBooks, LateBooks, EndBooks, JobBooks, PlanBooks, NeedsRefund, Sources
  <2>4. q2 \in RequestType
    BY <1>4, <1>7, <2>2, Zenon DEF RequestType
  <2>5. /\ q2.pc = "fee"
        /\ Same(q2, q, QFields \ {"pc"})
    BY <1>4, <1>7, <2>2 DEF RequestType
  <2>6. BooksOf(q2, s2, j2, c2)
    BY <1>1, <1>4, <1>5, <2>1, <2>2, <2>3, <2>5
       DEF BooksOf, EarlyBooks, LateBooks, EndBooks, JobBooks, PlanBooks, NeedsRefund, Sources
  <2>7. Fairly(q, s, j, q2, s2, j2)
    BY <1>1, <1>4, <1>5, <2>1, <2>2, <2>3, <2>5
       DEF Fairly, WalletPart, SubPart, TokenPart, Settled, NeedsRefund, Sources
  <2>8. Exactly(q, s, j, q2, s2, j2)
    BY <1>1, <1>4, <1>5, <2>1, <2>2, <2>3, <2>5
       DEF Exactly, Exact, ExactOf, WalletPart, SubPart, TokenPart, Settled, NeedsRefund, Sources
  <2>9. Phased(q, s, j, q2, s2, j2)
    BY <1>1, <1>4, <1>5, <2>1, <2>2, <2>3, <2>5
       DEF Phased, Exact, ExactOf, BooksOf, EarlyBooks, LateBooks, EndBooks, JobBooks, PhaseOf,
           ChargeOf, Taken, Returned, NeedsRefund, Sources
  <2> QED
    BY <1>3, <1>4, <2>1, <2>2, <2>4, <2>5, <2>6, <2>7, <2>8, <2>9
       DEF Step, q, s, j, c, q2, s2, j2, c2, Typed, Books
<1> QED BY <1>2, <1>6, <1>7 DEF q, s, j, c, q2, s2, j2, c2

LEMMA ViolationFeeStep ==
  ASSUME TypeOK, NEW r \in Requests, Books(r), ViolationFee(r)
  PROVE  Step(r)
<1> DEFINE q == req[r]  s == ses[r]  j == job[r]  c == rec[r]
           q2 == req'[r]  s2 == ses'[r]  j2 == job'[r]  c2 == rec'[r]
<1>1. q.pc = "fee"
  BY DEF ViolationFee, Goto, Consume
<1>2. \/ /\ q2 = [q EXCEPT !.pc = "ended"]
         /\ s2 = s /\ j2 = j /\ c2 = c /\ wallet' = wallet /\ subUsed' = subUsed /\ token' = token
      \/ /\ q2 = [q EXCEPT !.pc = "feeToken", !.fee = Fee]
         /\ s2 = s /\ j2 = j /\ c2 = c /\ token' = token
         /\ wallet' = IF s.src = "wallet" THEN wallet - Fee ELSE wallet
         /\ subUsed' = IF s.src = "wallet" THEN subUsed ELSE SubAfter(Fee)
  BY DEF TypeOK, ViolationFee, Goto, Consume
<1>3. Only(r)
  BY Zenon DEF Only, TypeOK, ViolationFee, Goto, Consume
<1>4. /\ q \in RequestType /\ s \in SessionType /\ j \in JobType /\ c \in RecType
      /\ BooksOf(q, s, j, c) /\ wallet \in Int /\ token \in Int /\ subUsed \in Nat
  BY DEF TypeOK, Books, RecType
<1>5. FieldTypes(q, s, j)
  BY <1>4, FieldsTyped
<1> HIDE DEF q, s, j, c, q2, s2, j2, c2
<1> USE DEF Same, QFields, SFields, JFields, FieldTypes, Early, Making
<1>6. CASE /\ q2 = [q EXCEPT !.pc = "ended"]
           /\ s2 = s /\ j2 = j /\ c2 = c /\ wallet' = wallet /\ subUsed' = subUsed /\ token' = token
  <2>1. /\ s2 = s /\ j2 = j /\ c2 = c /\ wallet' = wallet /\ subUsed' = subUsed /\ token' = token
    BY <1>6
  <2>2. "ended" \in ReqPcs
    BY <1>1, <1>4, <1>5, <2>1, FeeNat DEF ReqPcs, JobPcs, RecType, Sources, SubAfter
  <2>3. q2 \in RequestType
    BY <1>4, <1>6, <2>2, Zenon DEF RequestType
  <2>4. /\ q2.pc = "ended"
        /\ Same(q2, q, QFields \ {"pc"})
    BY <1>4, <1>6, <2>2 DEF RequestType
  <2>5. BooksOf(q2, s2, j2, c2)
    BY <1>1, <1>4, <1>5, <2>1, <2>2, <2>4, FeeNat
       DEF BooksOf, EarlyBooks, LateBooks, EndBooks, JobBooks, PlanBooks, SubAfter, Sources
  <2>6. Fairly(q, s, j, q2, s2, j2)
    BY <1>1, <1>4, <1>5, <2>1, <2>2, <2>4, FeeNat
       DEF Fairly, BooksOf, EarlyBooks, LateBooks, EndBooks, JobBooks, WalletPart, SubPart,
           TokenPart, Settled, SubAfter, Sources
  <2>7. Exactly(q, s, j, q2, s2, j2)
    BY <1>1, <1>4, <1>5, <2>1, <2>2, <2>4, FeeNat
       DEF Exactly, Exact, ExactOf, BooksOf, EarlyBooks, LateBooks, EndBooks, JobBooks,
           WalletPart, SubPart, TokenPart, Settled, SubAfter, Sources
  <2>8. Phased(q, s, j, q2, s2, j2)
    BY <1>1, <1>4, <1>5, <2>1, <2>2, <2>4, FeeNat
       DEF Phased, Exact, ExactOf, BooksOf, EarlyBooks, LateBooks, EndBooks, JobBooks, PhaseOf,
           ChargeOf, Taken, Returned, SubAfter, Sources
  <2> QED
    BY <1>3, <1>4, <2>1, <2>2, <2>3, <2>4, <2>5, <2>6, <2>7, <2>8
       DEF Step, q, s, j, c, q2, s2, j2, c2, Typed, Books
<1>7. CASE /\ q2 = [q EXCEPT !.pc = "feeToken", !.fee = Fee]
           /\ s2 = s /\ j2 = j /\ c2 = c /\ token' = token
           /\ wallet' = IF s.src = "wallet" THEN wallet - Fee ELSE wallet
           /\ subUsed' = IF s.src = "wallet" THEN subUsed ELSE SubAfter(Fee)
  <2>1. /\ s2 = s /\ j2 = j /\ c2 = c /\ token' = token
        /\ wallet' = IF s.src = "wallet" THEN wallet - Fee ELSE wallet
        /\ subUsed' = IF s.src = "wallet" THEN subUsed ELSE SubAfter(Fee)
    BY <1>7
  <2>2. "feeToken" \in ReqPcs /\ Fee \in Nat
    BY <1>1, <1>4, <1>5, <2>1, FeeNat DEF ReqPcs, JobPcs, RecType, Sources, SubAfter
  <2>3. /\ ~s.settled /\ ~s.fundingSettled /\ ~q.ok /\ q.fee = 0
    BY <1>1, <1>4, <1>5, <2>1, <2>2
       DEF BooksOf, EarlyBooks, LateBooks, EndBooks, JobBooks, PlanBooks, SubAfter, Sources
  <2>4. q2 \in RequestType
    BY <1>4, <1>7, <2>2, Zenon DEF RequestType
  <2>5. /\ q2.pc = "feeToken"
        /\ q2.fee = Fee
        /\ Same(q2, q, QFields \ {"pc", "fee"})
    BY <1>4, <1>7, <2>2 DEF RequestType
  <2>6. BooksOf(q2, s2, j2, c2)
    BY <1>1, <1>4, <1>5, <2>1, <2>2, <2>3, <2>5, FeeNat
       DEF BooksOf, EarlyBooks, LateBooks, EndBooks, JobBooks, PlanBooks, SubAfter, Sources
  <2>7. Fairly(q, s, j, q2, s2, j2)
    BY <1>1, <1>4, <1>5, <2>1, <2>2, <2>3, <2>5, FeeNat
       DEF Fairly, WalletPart, SubPart, TokenPart, Settled, SubAfter, Sources
  <2>8. Exactly(q, s, j, q2, s2, j2)
    BY <1>1, <1>4, <1>5, <2>1, <2>2, <2>3, <2>5, FeeNat
       DEF Exactly, Exact, ExactOf, WalletPart, SubPart, TokenPart, Settled, SubAfter, Sources
  <2>9. Phased(q, s, j, q2, s2, j2)
    BY <1>1, <1>4, <1>5, <2>1, <2>2, <2>3, <2>5, FeeNat
       DEF Phased, Exact, ExactOf, BooksOf, EarlyBooks, LateBooks, EndBooks, JobBooks, PhaseOf,
           ChargeOf, Taken, Returned, SubAfter, Sources
  <2> QED
    BY <1>3, <1>4, <2>1, <2>2, <2>4, <2>5, <2>6, <2>7, <2>8, <2>9
       DEF Step, q, s, j, c, q2, s2, j2, c2, Typed, Books
<1> QED BY <1>2, <1>6, <1>7 DEF q, s, j, c, q2, s2, j2, c2

LEMMA ViolationFeeTokenStep ==
  ASSUME TypeOK, NEW r \in Requests, Books(r), ViolationFeeToken(r)
  PROVE  Step(r)
<1> DEFINE q == req[r]  s == ses[r]  j == job[r]  c == rec[r]
           q2 == req'[r]  s2 == ses'[r]  j2 == job'[r]  c2 == rec'[r]
<1>1. q.pc = "feeToken"
  BY DEF ViolationFeeToken, Goto, UseToken
<1>2. /\ q2 = [q EXCEPT !.pc = "ended"]
      /\ s2 = s /\ j2 = j /\ c2 = c /\ wallet' = wallet /\ subUsed' = subUsed
      /\ token' = IF q.flag.playground THEN token ELSE token - Fee
  BY DEF TypeOK, ViolationFeeToken, Goto, UseToken
<1>3. Only(r)
  BY Zenon DEF Only, TypeOK, ViolationFeeToken, Goto, UseToken
<1>4. /\ q \in RequestType /\ s \in SessionType /\ j \in JobType /\ c \in RecType
      /\ BooksOf(q, s, j, c) /\ wallet \in Int /\ token \in Int /\ subUsed \in Nat
  BY DEF TypeOK, Books, RecType
<1>5. FieldTypes(q, s, j)
  BY <1>4, FieldsTyped
<1> HIDE DEF q, s, j, c, q2, s2, j2, c2
<1> USE DEF Same, QFields, SFields, JFields, FieldTypes, Early, Making
<1> QED
  <2>1. /\ s2 = s /\ j2 = j /\ c2 = c /\ wallet' = wallet /\ subUsed' = subUsed
        /\ token' = IF q.flag.playground THEN token ELSE token - Fee
    BY <1>2
  <2>2. "ended" \in ReqPcs
    BY <1>1, <1>4, <1>5, <2>1, FeeNat DEF ReqPcs, JobPcs, RecType, Sources
  <2>3. q2 \in RequestType
    BY <1>2, <1>4, <2>2, Zenon DEF RequestType
  <2>4. /\ q2.pc = "ended"
        /\ Same(q2, q, QFields \ {"pc"})
    BY <1>2, <1>4, <2>2 DEF RequestType
  <2>5. BooksOf(q2, s2, j2, c2)
    BY <1>1, <1>4, <1>5, <2>1, <2>2, <2>4, FeeNat
       DEF BooksOf, EarlyBooks, LateBooks, EndBooks, JobBooks, PlanBooks
  <2>6. Fairly(q, s, j, q2, s2, j2)
    BY <1>1, <1>4, <1>5, <2>1, <2>2, <2>4, FeeNat
       DEF Fairly, BooksOf, EarlyBooks, LateBooks, EndBooks, JobBooks, WalletPart, SubPart,
           TokenPart, Settled
  <2>7. Exactly(q, s, j, q2, s2, j2)
    BY <1>1, <1>4, <1>5, <2>1, <2>2, <2>4, FeeNat
       DEF Exactly, Exact, ExactOf, BooksOf, EarlyBooks, LateBooks, EndBooks, JobBooks,
           WalletPart, SubPart, TokenPart, Settled
  <2>8. Phased(q, s, j, q2, s2, j2)
    BY <1>1, <1>4, <1>5, <2>1, <2>2, <2>4, FeeNat
       DEF Phased, Exact, ExactOf, BooksOf, EarlyBooks, LateBooks, EndBooks, JobBooks, PhaseOf,
           ChargeOf, Taken, Returned
  <2> QED
    BY <1>3, <1>4, <2>1, <2>2, <2>3, <2>4, <2>5, <2>6, <2>7, <2>8
       DEF Step, q, s, j, c, q2, s2, j2, c2, Typed, Books

LEMMA RefundWalletStep ==
  ASSUME TypeOK, NEW r \in Requests, Books(r), RefundWallet(r)
  PROVE  Step(r)
<1> DEFINE q == req[r]  s == ses[r]  j == job[r]  c == rec[r]
           q2 == req'[r]  s2 == ses'[r]  j2 == job'[r]  c2 == rec'[r]
<1>1. j.pc = "fund" /\ s.src = "wallet"
  BY DEF RefundWallet, JobGoto, Consume
<1>2. \/ /\ j2 = [j EXCEPT !.pc = "extra"]
         /\ q2 = q /\ s2 = s /\ c2 = c /\ subUsed' = subUsed /\ token' = token
         /\ wallet' = wallet - (-s.consumed)
      \/ /\ j2 = [j EXCEPT !.pc = "extra"]
         /\ q2 = q /\ s2 = s /\ c2 = c /\ wallet' = wallet /\ subUsed' = subUsed /\ token' = token
         /\ Faults # {}
  BY DEF TypeOK, RefundWallet, JobGoto, Consume
<1>3. Only(r)
  BY Zenon DEF Only, TypeOK, RefundWallet, JobGoto, Consume
<1>4. /\ q \in RequestType /\ s \in SessionType /\ j \in JobType /\ c \in RecType
      /\ BooksOf(q, s, j, c) /\ wallet \in Int /\ token \in Int /\ subUsed \in Nat
  BY DEF TypeOK, Books, RecType
<1>5. FieldTypes(q, s, j)
  BY <1>4, FieldsTyped
<1> HIDE DEF q, s, j, c, q2, s2, j2, c2
<1> USE DEF Same, QFields, SFields, JFields, FieldTypes, Early, Making
<1>6. CASE /\ j2 = [j EXCEPT !.pc = "extra"]
           /\ q2 = q /\ s2 = s /\ c2 = c /\ subUsed' = subUsed /\ token' = token
           /\ wallet' = wallet - (-s.consumed)
  <2>1. /\ q2 = q /\ s2 = s /\ c2 = c /\ subUsed' = subUsed /\ token' = token
        /\ wallet' = wallet - (-s.consumed)
    BY <1>6
  <2>2. "extra" \in JobPcs
    BY <1>1, <1>4, <1>5, <2>1 DEF ReqPcs, JobPcs, RecType, Sources
  <2>3. j2 \in JobType
    BY <1>4, <1>6, <2>2, Zenon DEF JobType
  <2>4. /\ j2.pc = "extra"
        /\ Same(j2, j, JFields \ {"pc"})
    BY <1>4, <1>6, <2>2 DEF JobType
  <2>5. BooksOf(q2, s2, j2, c2)
    BY <1>1, <1>4, <1>5, <2>1, <2>2, <2>4
       DEF BooksOf, EarlyBooks, LateBooks, EndBooks, JobBooks, PlanBooks
  <2>6. Fairly(q, s, j, q2, s2, j2)
    BY <1>1, <1>4, <1>5, <2>1, <2>2, <2>4
       DEF Fairly, BooksOf, EarlyBooks, LateBooks, EndBooks, JobBooks, WalletPart, SubPart,
           TokenPart, Settled
  <2>7. Exactly(q, s, j, q2, s2, j2)
    BY <1>1, <1>4, <1>5, <2>1, <2>2, <2>4
       DEF Exactly, Exact, ExactOf, BooksOf, EarlyBooks, LateBooks, EndBooks, JobBooks,
           WalletPart, SubPart, TokenPart, Settled
  <2>8. Phased(q, s, j, q2, s2, j2)
    BY <1>1, <1>4, <1>5, <2>1, <2>2, <2>4
       DEF Phased, Exact, ExactOf, BooksOf, EarlyBooks, LateBooks, EndBooks, JobBooks, PhaseOf,
           ChargeOf, Taken, Returned
  <2> QED
    BY <1>3, <1>4, <2>1, <2>2, <2>3, <2>4, <2>5, <2>6, <2>7, <2>8
       DEF Step, q, s, j, c, q2, s2, j2, c2, Typed, Books
<1>7. CASE /\ j2 = [j EXCEPT !.pc = "extra"]
           /\ q2 = q /\ s2 = s /\ c2 = c /\ wallet' = wallet /\ subUsed' = subUsed /\ token' = token
           /\ Faults # {}
  <2>1. /\ q2 = q /\ s2 = s /\ c2 = c /\ wallet' = wallet /\ subUsed' = subUsed /\ token' = token
        /\ Faults # {}
    BY <1>7
  <2>2. "extra" \in JobPcs
    BY <1>1, <1>4, <1>5, <2>1 DEF ReqPcs, JobPcs, RecType, Sources
  <2>3. j2 \in JobType
    BY <1>4, <1>7, <2>2, Zenon DEF JobType
  <2>4. /\ j2.pc = "extra"
        /\ Same(j2, j, JFields \ {"pc"})
    BY <1>4, <1>7, <2>2 DEF JobType
  <2>5. BooksOf(q2, s2, j2, c2)
    BY <1>1, <1>4, <1>5, <2>1, <2>2, <2>4
       DEF BooksOf, EarlyBooks, LateBooks, EndBooks, JobBooks, PlanBooks
  <2>6. Fairly(q, s, j, q2, s2, j2)
    BY <1>1, <1>4, <1>5, <2>1, <2>2, <2>4
       DEF Fairly, BooksOf, EarlyBooks, LateBooks, EndBooks, JobBooks, WalletPart, SubPart,
           TokenPart, Settled
  <2>7. Exactly(q, s, j, q2, s2, j2)
    BY <1>1, <1>4, <1>5, <2>1, <2>2, <2>4
       DEF Exactly, Exact, ExactOf, BooksOf, EarlyBooks, LateBooks, EndBooks, JobBooks,
           WalletPart, SubPart, TokenPart, Settled
  <2>8. Phased(q, s, j, q2, s2, j2)
    BY <1>1, <1>4, <1>5, <2>1, <2>2, <2>4
       DEF Phased, Exact, ExactOf, BooksOf, EarlyBooks, LateBooks, EndBooks, JobBooks, PhaseOf,
           ChargeOf, Taken, Returned
  <2> QED
    BY <1>3, <1>4, <2>1, <2>2, <2>3, <2>4, <2>5, <2>6, <2>7, <2>8
       DEF Step, q, s, j, c, q2, s2, j2, c2, Typed, Books
<1> QED BY <1>2, <1>6, <1>7 DEF q, s, j, c, q2, s2, j2, c2

LEMMA RefundSubUsageStep ==
  ASSUME TypeOK, NEW r \in Requests, Books(r), RefundSubUsage(r)
  PROVE  Step(r)
<1> DEFINE q == req[r]  s == ses[r]  j == job[r]  c == rec[r]
           q2 == req'[r]  s2 == ses'[r]  j2 == job'[r]  c2 == rec'[r]
<1>1. j.pc = "fund" /\ s.src = "sub"
  BY DEF RefundSubUsage, JobGoto, Consume
<1>2. \/ /\ j2 = [j EXCEPT !.pc = "extra"]
         /\ q2 = q /\ s2 = s /\ c2 = c /\ wallet' = wallet /\ subUsed' = subUsed /\ token' = token
         /\ c = "refunded"
      \/ /\ j2 = [j EXCEPT !.pc = "record"]
         /\ q2 = q /\ s2 = s /\ c2 = c /\ wallet' = wallet /\ token' = token
         /\ subUsed' = SubAfter(-s.consumed)
  BY DEF TypeOK, RefundSubUsage, JobGoto, Consume
<1>3. Only(r)
  BY Zenon DEF Only, TypeOK, RefundSubUsage, JobGoto, Consume
<1>4. /\ q \in RequestType /\ s \in SessionType /\ j \in JobType /\ c \in RecType
      /\ BooksOf(q, s, j, c) /\ wallet \in Int /\ token \in Int /\ subUsed \in Nat
  BY DEF TypeOK, Books, RecType
<1>5. FieldTypes(q, s, j)
  BY <1>4, FieldsTyped
<1> HIDE DEF q, s, j, c, q2, s2, j2, c2
<1> USE DEF Same, QFields, SFields, JFields, FieldTypes, Early, Making
<1>6. CASE /\ j2 = [j EXCEPT !.pc = "extra"]
           /\ q2 = q /\ s2 = s /\ c2 = c /\ wallet' = wallet /\ subUsed' = subUsed /\ token' = token
           /\ c = "refunded"
  <2>1. /\ q2 = q /\ s2 = s /\ c2 = c /\ wallet' = wallet /\ subUsed' = subUsed /\ token' = token
        /\ c = "refunded"
    BY <1>6
  <2>2. "extra" \in JobPcs
    BY <1>1, <1>4, <1>5, <2>1 DEF ReqPcs, JobPcs, RecType, Sources, SubAfter
  <2>3. j2 \in JobType
    BY <1>4, <1>6, <2>2, Zenon DEF JobType
  <2>4. /\ j2.pc = "extra"
        /\ Same(j2, j, JFields \ {"pc"})
    BY <1>4, <1>6, <2>2 DEF JobType
  <2>5. BooksOf(q2, s2, j2, c2)
    BY <1>1, <1>4, <1>5, <2>1, <2>2, <2>4
       DEF BooksOf, EarlyBooks, LateBooks, EndBooks, JobBooks, PlanBooks, SubAfter
  <2>6. Fairly(q, s, j, q2, s2, j2)
    BY <1>1, <1>4, <1>5, <2>1, <2>2, <2>4
       DEF Fairly, BooksOf, EarlyBooks, LateBooks, EndBooks, JobBooks, WalletPart, SubPart,
           TokenPart, Settled, SubAfter
  <2>7. Exactly(q, s, j, q2, s2, j2)
    BY <1>1, <1>4, <1>5, <2>1, <2>2, <2>4
       DEF Exactly, Exact, ExactOf, BooksOf, EarlyBooks, LateBooks, EndBooks, JobBooks,
           WalletPart, SubPart, TokenPart, Settled, SubAfter
  <2>8. Phased(q, s, j, q2, s2, j2)
    BY <1>1, <1>4, <1>5, <2>1, <2>2, <2>4
       DEF Phased, Exact, ExactOf, BooksOf, EarlyBooks, LateBooks, EndBooks, JobBooks, PhaseOf,
           ChargeOf, Taken, Returned, SubAfter
  <2> QED
    BY <1>3, <1>4, <2>1, <2>2, <2>3, <2>4, <2>5, <2>6, <2>7, <2>8
       DEF Step, q, s, j, c, q2, s2, j2, c2, Typed, Books
<1>7. CASE /\ j2 = [j EXCEPT !.pc = "record"]
           /\ q2 = q /\ s2 = s /\ c2 = c /\ wallet' = wallet /\ token' = token
           /\ subUsed' = SubAfter(-s.consumed)
  <2>1. /\ q2 = q /\ s2 = s /\ c2 = c /\ wallet' = wallet /\ token' = token
        /\ subUsed' = SubAfter(-s.consumed)
    BY <1>7
  <2>2. "record" \in JobPcs
    BY <1>1, <1>4, <1>5, <2>1 DEF ReqPcs, JobPcs, RecType, Sources, SubAfter
  <2>3. j2 \in JobType
    BY <1>4, <1>7, <2>2, Zenon DEF JobType
  <2>4. /\ j2.pc = "record"
        /\ Same(j2, j, JFields \ {"pc"})
    BY <1>4, <1>7, <2>2 DEF JobType
  <2>5. BooksOf(q2, s2, j2, c2)
    BY <1>1, <1>4, <1>5, <2>1, <2>2, <2>4
       DEF BooksOf, EarlyBooks, LateBooks, EndBooks, JobBooks, PlanBooks, SubAfter
  <2>6. Fairly(q, s, j, q2, s2, j2)
    BY <1>1, <1>4, <1>5, <2>1, <2>2, <2>4
       DEF Fairly, BooksOf, EarlyBooks, LateBooks, EndBooks, JobBooks, WalletPart, SubPart,
           TokenPart, Settled, SubAfter
  <2>7. Exactly(q, s, j, q2, s2, j2)
    BY <1>1, <1>4, <1>5, <2>1, <2>2, <2>4
       DEF Exactly, Exact, ExactOf, BooksOf, EarlyBooks, LateBooks, EndBooks, JobBooks,
           WalletPart, SubPart, TokenPart, Settled, SubAfter
  <2>8. Phased(q, s, j, q2, s2, j2)
    BY <1>1, <1>4, <1>5, <2>1, <2>2, <2>4
       DEF Phased, Exact, ExactOf, BooksOf, EarlyBooks, LateBooks, EndBooks, JobBooks, PhaseOf,
           ChargeOf, Taken, Returned, SubAfter
  <2> QED
    BY <1>3, <1>4, <2>1, <2>2, <2>3, <2>4, <2>5, <2>6, <2>7, <2>8
       DEF Step, q, s, j, c, q2, s2, j2, c2, Typed, Books
<1> QED BY <1>2, <1>6, <1>7 DEF q, s, j, c, q2, s2, j2, c2

LEMMA RefundSubRecordStep ==
  ASSUME TypeOK, NEW r \in Requests, Books(r), RefundSubRecord(r)
  PROVE  Step(r)
<1> DEFINE q == req[r]  s == ses[r]  j == job[r]  c == rec[r]
           q2 == req'[r]  s2 == ses'[r]  j2 == job'[r]  c2 == rec'[r]
<1>1. j.pc = "record"
  BY DEF RefundSubRecord, JobGoto
<1>2. /\ j2 = [j EXCEPT !.pc = "extra"]
      /\ q2 = q /\ s2 = s /\ c2 = "refunded" /\ wallet' = wallet /\ subUsed' = subUsed /\ token' = token
  BY DEF TypeOK, RefundSubRecord, JobGoto
<1>3. Only(r)
  BY Zenon DEF Only, TypeOK, RefundSubRecord, JobGoto
<1>4. /\ q \in RequestType /\ s \in SessionType /\ j \in JobType /\ c \in RecType
      /\ BooksOf(q, s, j, c) /\ wallet \in Int /\ token \in Int /\ subUsed \in Nat
  BY DEF TypeOK, Books, RecType
<1>5. FieldTypes(q, s, j)
  BY <1>4, FieldsTyped
<1> HIDE DEF q, s, j, c, q2, s2, j2, c2
<1> USE DEF Same, QFields, SFields, JFields, FieldTypes, Early, Making
<1> QED
  <2>1. /\ q2 = q /\ s2 = s /\ c2 = "refunded" /\ wallet' = wallet /\ subUsed' = subUsed /\ token' = token
    BY <1>2
  <2>2. "extra" \in JobPcs /\ c2 \in RecType
    BY <1>1, <1>4, <1>5, <2>1 DEF ReqPcs, JobPcs, RecType, Sources
  <2>3. j2 \in JobType
    BY <1>2, <1>4, <2>2, Zenon DEF JobType
  <2>4. /\ j2.pc = "extra"
        /\ Same(j2, j, JFields \ {"pc"})
    BY <1>2, <1>4, <2>2 DEF JobType
  <2>5. BooksOf(q2, s2, j2, c2)
    BY <1>1, <1>4, <1>5, <2>1, <2>2, <2>4
       DEF BooksOf, EarlyBooks, LateBooks, EndBooks, JobBooks, PlanBooks
  <2>6. Fairly(q, s, j, q2, s2, j2)
    BY <1>1, <1>4, <1>5, <2>1, <2>2, <2>4
       DEF Fairly, BooksOf, EarlyBooks, LateBooks, EndBooks, JobBooks, WalletPart, SubPart,
           TokenPart, Settled
  <2>7. Exactly(q, s, j, q2, s2, j2)
    BY <1>1, <1>4, <1>5, <2>1, <2>2, <2>4
       DEF Exactly, Exact, ExactOf, BooksOf, EarlyBooks, LateBooks, EndBooks, JobBooks,
           WalletPart, SubPart, TokenPart, Settled
  <2>8. Phased(q, s, j, q2, s2, j2)
    BY <1>1, <1>4, <1>5, <2>1, <2>2, <2>4
       DEF Phased, Exact, ExactOf, BooksOf, EarlyBooks, LateBooks, EndBooks, JobBooks, PhaseOf,
           ChargeOf, Taken, Returned
  <2> QED
    BY <1>3, <1>4, <2>1, <2>2, <2>3, <2>4, <2>5, <2>6, <2>7, <2>8
       DEF Step, q, s, j, c, q2, s2, j2, c2, Typed, Books

LEMMA RefundSubErrorStep ==
  ASSUME TypeOK, NEW r \in Requests, Books(r), RefundSubError(r)
  PROVE  Step(r)
<1> DEFINE q == req[r]  s == ses[r]  j == job[r]  c == rec[r]
           q2 == req'[r]  s2 == ses'[r]  j2 == job'[r]  c2 == rec'[r]
<1>1. s.src = "sub" /\ j.pc \in {"fund", "record"} /\ (j.pc = "record" => "record" \in Faults) /\ Faults # {}
  BY DEF RefundSubError
<1>2. /\ j2 = [j EXCEPT !.tries = @ + 1, !.pc = (IF RetryAgain(j.tries + 1) THEN "fund" ELSE "extra")]
      /\ q2 = q /\ s2 = s /\ c2 = c /\ wallet' = wallet /\ subUsed' = subUsed /\ token' = token
  BY DEF TypeOK, RefundSubError
<1>3. Only(r)
  BY Zenon DEF Only, TypeOK, RefundSubError
<1>4. /\ q \in RequestType /\ s \in SessionType /\ j \in JobType /\ c \in RecType
      /\ BooksOf(q, s, j, c) /\ wallet \in Int /\ token \in Int /\ subUsed \in Nat
  BY DEF TypeOK, Books, RecType
<1>5. FieldTypes(q, s, j)
  BY <1>4, FieldsTyped
<1> HIDE DEF q, s, j, c, q2, s2, j2, c2
<1> USE DEF Same, QFields, SFields, JFields, FieldTypes, Early, Making
<1> QED
  <2>1. /\ q2 = q /\ s2 = s /\ c2 = c /\ wallet' = wallet /\ subUsed' = subUsed /\ token' = token
    BY <1>2
  <2>2. /\ j.tries + 1 \in 0..MaxAttempts
        /\ (IF RetryAgain(j.tries + 1) THEN "fund" ELSE "extra") \in JobPcs
    BY <1>1, <1>4, <1>5, <2>1
       DEF ReqPcs, JobPcs, RecType, Sources, BooksOf, EarlyBooks, LateBooks, EndBooks, JobBooks,
           RetryAgain, MaxAttempts
  <2>3. j2 \in JobType
    BY <1>2, <1>4, <2>2, Zenon DEF JobType
  <2>4. /\ j2.tries = j.tries + 1
        /\ j2.pc = (IF RetryAgain(j.tries + 1) THEN "fund" ELSE "extra")
        /\ Same(j2, j, JFields \ {"tries", "pc"})
    BY <1>2, <1>4, <2>2 DEF JobType
  <2>5. BooksOf(q2, s2, j2, c2)
    BY <1>1, <1>4, <1>5, <2>1, <2>2, <2>4
       DEF BooksOf, EarlyBooks, LateBooks, EndBooks, JobBooks, PlanBooks, RetryAgain, MaxAttempts
  <2>6. Fairly(q, s, j, q2, s2, j2)
    BY <1>1, <1>4, <1>5, <2>1, <2>2, <2>4
       DEF Fairly, BooksOf, EarlyBooks, LateBooks, EndBooks, JobBooks, WalletPart, SubPart,
           TokenPart, Settled, RetryAgain, MaxAttempts
  <2>7. Exactly(q, s, j, q2, s2, j2)
    BY <1>1, <1>4, <1>5, <2>1, <2>2, <2>4
       DEF Exactly, Exact, ExactOf, BooksOf, EarlyBooks, LateBooks, EndBooks, JobBooks,
           WalletPart, SubPart, TokenPart, Settled, RetryAgain, MaxAttempts
  <2>8. Phased(q, s, j, q2, s2, j2)
    BY <1>1, <1>4, <1>5, <2>1, <2>2, <2>4
       DEF Phased, Exact, ExactOf, BooksOf, EarlyBooks, LateBooks, EndBooks, JobBooks, PhaseOf,
           ChargeOf, Taken, Returned, RetryAgain, MaxAttempts
  <2> QED
    BY <1>3, <1>4, <2>1, <2>2, <2>3, <2>4, <2>5, <2>6, <2>7, <2>8
       DEF Step, q, s, j, c, q2, s2, j2, c2, Typed, Books

LEMMA RefundExtraStep ==
  ASSUME TypeOK, NEW r \in Requests, Books(r), RefundExtra(r)
  PROVE  Step(r)
<1> DEFINE q == req[r]  s == ses[r]  j == job[r]  c == rec[r]
           q2 == req'[r]  s2 == ses'[r]  j2 == job'[r]  c2 == rec'[r]
<1>1. j.pc = "extra"
  BY DEF RefundExtra, JobGoto, Consume
<1>2. \/ /\ j2 = [j EXCEPT !.pc = "token"]
         /\ q2 = q /\ s2 = s /\ c2 = c /\ wallet' = wallet /\ token' = token
         /\ subUsed' = IF s.src = "sub" THEN SubAfter(-s.extra) ELSE subUsed
      \/ /\ j2 = [j EXCEPT !.pc = "token"]
         /\ q2 = q /\ s2 = s /\ c2 = c /\ wallet' = wallet /\ subUsed' = subUsed /\ token' = token
         /\ Faults # {}
  BY DEF TypeOK, RefundExtra, JobGoto, Consume
<1>3. Only(r)
  BY Zenon DEF Only, TypeOK, RefundExtra, JobGoto, Consume
<1>4. /\ q \in RequestType /\ s \in SessionType /\ j \in JobType /\ c \in RecType
      /\ BooksOf(q, s, j, c) /\ wallet \in Int /\ token \in Int /\ subUsed \in Nat
  BY DEF TypeOK, Books, RecType
<1>5. FieldTypes(q, s, j)
  BY <1>4, FieldsTyped
<1> HIDE DEF q, s, j, c, q2, s2, j2, c2
<1> USE DEF Same, QFields, SFields, JFields, FieldTypes, Early, Making
<1>6. CASE /\ j2 = [j EXCEPT !.pc = "token"]
           /\ q2 = q /\ s2 = s /\ c2 = c /\ wallet' = wallet /\ token' = token
           /\ subUsed' = IF s.src = "sub" THEN SubAfter(-s.extra) ELSE subUsed
  <2>1. /\ q2 = q /\ s2 = s /\ c2 = c /\ wallet' = wallet /\ token' = token
        /\ subUsed' = IF s.src = "sub" THEN SubAfter(-s.extra) ELSE subUsed
    BY <1>6
  <2>2. "token" \in JobPcs
    BY <1>1, <1>4, <1>5, <2>1 DEF ReqPcs, JobPcs, RecType, Sources, SubAfter
  <2>3. j2 \in JobType
    BY <1>4, <1>6, <2>2, Zenon DEF JobType
  <2>4. /\ j2.pc = "token"
        /\ Same(j2, j, JFields \ {"pc"})
    BY <1>4, <1>6, <2>2 DEF JobType
  <2>5. BooksOf(q2, s2, j2, c2)
    BY <1>1, <1>4, <1>5, <2>1, <2>2, <2>4
       DEF BooksOf, EarlyBooks, LateBooks, EndBooks, JobBooks, PlanBooks, SubAfter, Sources
  <2>6. Fairly(q, s, j, q2, s2, j2)
    BY <1>1, <1>4, <1>5, <2>1, <2>2, <2>4
       DEF Fairly, BooksOf, EarlyBooks, LateBooks, EndBooks, JobBooks, WalletPart, SubPart,
           TokenPart, Settled, SubAfter, Sources
  <2>7. Exactly(q, s, j, q2, s2, j2)
    BY <1>1, <1>4, <1>5, <2>1, <2>2, <2>4
       DEF Exactly, Exact, ExactOf, BooksOf, EarlyBooks, LateBooks, EndBooks, JobBooks,
           WalletPart, SubPart, TokenPart, Settled, SubAfter, Sources
  <2>8. Phased(q, s, j, q2, s2, j2)
    BY <1>1, <1>4, <1>5, <2>1, <2>2, <2>4
       DEF Phased, Exact, ExactOf, BooksOf, EarlyBooks, LateBooks, EndBooks, JobBooks, PhaseOf,
           ChargeOf, Taken, Returned, SubAfter, Sources
  <2> QED
    BY <1>3, <1>4, <2>1, <2>2, <2>3, <2>4, <2>5, <2>6, <2>7, <2>8
       DEF Step, q, s, j, c, q2, s2, j2, c2, Typed, Books
<1>7. CASE /\ j2 = [j EXCEPT !.pc = "token"]
           /\ q2 = q /\ s2 = s /\ c2 = c /\ wallet' = wallet /\ subUsed' = subUsed /\ token' = token
           /\ Faults # {}
  <2>1. /\ q2 = q /\ s2 = s /\ c2 = c /\ wallet' = wallet /\ subUsed' = subUsed /\ token' = token
        /\ Faults # {}
    BY <1>7
  <2>2. "token" \in JobPcs
    BY <1>1, <1>4, <1>5, <2>1 DEF ReqPcs, JobPcs, RecType, Sources, SubAfter
  <2>3. j2 \in JobType
    BY <1>4, <1>7, <2>2, Zenon DEF JobType
  <2>4. /\ j2.pc = "token"
        /\ Same(j2, j, JFields \ {"pc"})
    BY <1>4, <1>7, <2>2 DEF JobType
  <2>5. BooksOf(q2, s2, j2, c2)
    BY <1>1, <1>4, <1>5, <2>1, <2>2, <2>4
       DEF BooksOf, EarlyBooks, LateBooks, EndBooks, JobBooks, PlanBooks, SubAfter, Sources
  <2>6. Fairly(q, s, j, q2, s2, j2)
    BY <1>1, <1>4, <1>5, <2>1, <2>2, <2>4
       DEF Fairly, BooksOf, EarlyBooks, LateBooks, EndBooks, JobBooks, WalletPart, SubPart,
           TokenPart, Settled, SubAfter, Sources
  <2>7. Exactly(q, s, j, q2, s2, j2)
    BY <1>1, <1>4, <1>5, <2>1, <2>2, <2>4
       DEF Exactly, Exact, ExactOf, BooksOf, EarlyBooks, LateBooks, EndBooks, JobBooks,
           WalletPart, SubPart, TokenPart, Settled, SubAfter, Sources
  <2>8. Phased(q, s, j, q2, s2, j2)
    BY <1>1, <1>4, <1>5, <2>1, <2>2, <2>4
       DEF Phased, Exact, ExactOf, BooksOf, EarlyBooks, LateBooks, EndBooks, JobBooks, PhaseOf,
           ChargeOf, Taken, Returned, SubAfter, Sources
  <2> QED
    BY <1>3, <1>4, <2>1, <2>2, <2>3, <2>4, <2>5, <2>6, <2>7, <2>8
       DEF Step, q, s, j, c, q2, s2, j2, c2, Typed, Books
<1> QED BY <1>2, <1>6, <1>7 DEF q, s, j, c, q2, s2, j2, c2

LEMMA RefundTokenStep ==
  ASSUME TypeOK, NEW r \in Requests, Books(r), RefundToken(r)
  PROVE  Step(r)
<1> DEFINE q == req[r]  s == ses[r]  j == job[r]  c == rec[r]
           q2 == req'[r]  s2 == ses'[r]  j2 == job'[r]  c2 == rec'[r]
<1>1. j.pc = "token"
  BY DEF RefundToken, JobGoto, UseToken
<1>2. \/ /\ j2 = [j EXCEPT !.pc = "done"]
         /\ q2 = q /\ s2 = s /\ c2 = c /\ wallet' = wallet /\ subUsed' = subUsed
         /\ token' = IF q.flag.playground THEN token ELSE token - (-s.tokenConsumed)
      \/ /\ j2 = [j EXCEPT !.pc = "done"]
         /\ q2 = q /\ s2 = s /\ c2 = c /\ wallet' = wallet /\ subUsed' = subUsed /\ token' = token
         /\ Faults # {}
  BY DEF TypeOK, RefundToken, JobGoto, UseToken
<1>3. Only(r)
  BY Zenon DEF Only, TypeOK, RefundToken, JobGoto, UseToken
<1>4. /\ q \in RequestType /\ s \in SessionType /\ j \in JobType /\ c \in RecType
      /\ BooksOf(q, s, j, c) /\ wallet \in Int /\ token \in Int /\ subUsed \in Nat
  BY DEF TypeOK, Books, RecType
<1>5. FieldTypes(q, s, j)
  BY <1>4, FieldsTyped
<1> HIDE DEF q, s, j, c, q2, s2, j2, c2
<1> USE DEF Same, QFields, SFields, JFields, FieldTypes, Early, Making
<1>6. CASE /\ j2 = [j EXCEPT !.pc = "done"]
           /\ q2 = q /\ s2 = s /\ c2 = c /\ wallet' = wallet /\ subUsed' = subUsed
           /\ token' = IF q.flag.playground THEN token ELSE token - (-s.tokenConsumed)
  <2>1. /\ q2 = q /\ s2 = s /\ c2 = c /\ wallet' = wallet /\ subUsed' = subUsed
        /\ token' = IF q.flag.playground THEN token ELSE token - (-s.tokenConsumed)
    BY <1>6
  <2>2. "done" \in JobPcs
    BY <1>1, <1>4, <1>5, <2>1 DEF ReqPcs, JobPcs, RecType, Sources
  <2>3. j2 \in JobType
    BY <1>4, <1>6, <2>2, Zenon DEF JobType
  <2>4. /\ j2.pc = "done"
        /\ Same(j2, j, JFields \ {"pc"})
    BY <1>4, <1>6, <2>2 DEF JobType
  <2>5. BooksOf(q2, s2, j2, c2)
    BY <1>1, <1>4, <1>5, <2>1, <2>2, <2>4
       DEF BooksOf, EarlyBooks, LateBooks, EndBooks, JobBooks, PlanBooks
  <2>6. Fairly(q, s, j, q2, s2, j2)
    BY <1>1, <1>4, <1>5, <2>1, <2>2, <2>4
       DEF Fairly, BooksOf, EarlyBooks, LateBooks, EndBooks, JobBooks, WalletPart, SubPart,
           TokenPart, Settled
  <2>7. Exactly(q, s, j, q2, s2, j2)
    BY <1>1, <1>4, <1>5, <2>1, <2>2, <2>4
       DEF Exactly, Exact, ExactOf, BooksOf, EarlyBooks, LateBooks, EndBooks, JobBooks,
           WalletPart, SubPart, TokenPart, Settled
  <2>8. Phased(q, s, j, q2, s2, j2)
    BY <1>1, <1>4, <1>5, <2>1, <2>2, <2>4
       DEF Phased, Exact, ExactOf, BooksOf, EarlyBooks, LateBooks, EndBooks, JobBooks, PhaseOf,
           ChargeOf, Taken, Returned
  <2> QED
    BY <1>3, <1>4, <2>1, <2>2, <2>3, <2>4, <2>5, <2>6, <2>7, <2>8
       DEF Step, q, s, j, c, q2, s2, j2, c2, Typed, Books
<1>7. CASE /\ j2 = [j EXCEPT !.pc = "done"]
           /\ q2 = q /\ s2 = s /\ c2 = c /\ wallet' = wallet /\ subUsed' = subUsed /\ token' = token
           /\ Faults # {}
  <2>1. /\ q2 = q /\ s2 = s /\ c2 = c /\ wallet' = wallet /\ subUsed' = subUsed /\ token' = token
        /\ Faults # {}
    BY <1>7
  <2>2. "done" \in JobPcs
    BY <1>1, <1>4, <1>5, <2>1 DEF ReqPcs, JobPcs, RecType, Sources
  <2>3. j2 \in JobType
    BY <1>4, <1>7, <2>2, Zenon DEF JobType
  <2>4. /\ j2.pc = "done"
        /\ Same(j2, j, JFields \ {"pc"})
    BY <1>4, <1>7, <2>2 DEF JobType
  <2>5. BooksOf(q2, s2, j2, c2)
    BY <1>1, <1>4, <1>5, <2>1, <2>2, <2>4
       DEF BooksOf, EarlyBooks, LateBooks, EndBooks, JobBooks, PlanBooks
  <2>6. Fairly(q, s, j, q2, s2, j2)
    BY <1>1, <1>4, <1>5, <2>1, <2>2, <2>4
       DEF Fairly, BooksOf, EarlyBooks, LateBooks, EndBooks, JobBooks, WalletPart, SubPart,
           TokenPart, Settled
  <2>7. Exactly(q, s, j, q2, s2, j2)
    BY <1>1, <1>4, <1>5, <2>1, <2>2, <2>4
       DEF Exactly, Exact, ExactOf, BooksOf, EarlyBooks, LateBooks, EndBooks, JobBooks,
           WalletPart, SubPart, TokenPart, Settled
  <2>8. Phased(q, s, j, q2, s2, j2)
    BY <1>1, <1>4, <1>5, <2>1, <2>2, <2>4
       DEF Phased, Exact, ExactOf, BooksOf, EarlyBooks, LateBooks, EndBooks, JobBooks, PhaseOf,
           ChargeOf, Taken, Returned
  <2> QED
    BY <1>3, <1>4, <2>1, <2>2, <2>3, <2>4, <2>5, <2>6, <2>7, <2>8
       DEF Step, q, s, j, c, q2, s2, j2, c2, Typed, Books
<1> QED BY <1>2, <1>6, <1>7 DEF q, s, j, c, q2, s2, j2, c2

-----------------------------------------------------------------------------
(* Every step of the system is such a step of one request. *)

\* The handler's steps ...
LEMMA RequestSteps ==
  ASSUME TypeOK, NEW r \in Requests, Books(r), RequestStep(r)
  PROVE  Step(r)
BY TryWalletStep, TrySubscriptionStep, PreConsumeTokenStep, PreConsumeTokenErrorStep,
   PreConsumeFundStep, PreConsumeFundShortStep, PreConsumeFundErrorStep, RollbackStep,
   ReserveFundingStep, ReserveTokenStep, RollbackFundingReserveStep, TurnLastStep, TurnFundStep,
   TurnTokenStep, SettleEqualStep, SettleFundStep, SettleErrorStep, SettleTokenStep, RefundStep,
   ViolationFeeStep, ViolationFeeTokenStep, Zenon
   DEF RequestStep

\* ... those of the refund goroutine ...
LEMMA JobSteps ==
  ASSUME TypeOK, NEW r \in Requests, Books(r), JobStep(r)
  PROVE  Step(r)
BY RefundWalletStep, RefundSubUsageStep, RefundSubRecordStep, RefundSubErrorStep,
   RefundExtraStep, RefundTokenStep, Zenon
   DEF JobStep

\* ... and all together.
LEMMA NextSteps ==
  ASSUME TypeOK, AllBooks, Next
  PROVE  \E r \in Requests : Step(r)
<1>1. PICK r \in Requests :
        \/ \E p \in Prefs, f \in Flags, e \in Estimates : Begin(r, p, f, e)
        \/ \E t \in Estimates : Reserve(r, t)
        \/ \E a \in Actuals \ {0} : Turn(r, a)
        \/ RequestStep(r) \/ Upstream(r) \/ JobStep(r)
  BY Zenon DEF Next
<1>2. Books(r)
  BY Zenon DEF AllBooks
<1>3. ASSUME NEW p \in Prefs, NEW f \in Flags, NEW e \in Estimates, Begin(r, p, f, e)
      PROVE  Step(r)
  BY <1>2, <1>3, BeginStep, Zenon
<1>4. ASSUME NEW t \in Estimates, Reserve(r, t) PROVE Step(r)
  <2>1. t \in Nat
    BY BillingConstants
  <2> QED BY <1>2, <1>4, <2>1, ReserveStep, Zenon
<1>5. ASSUME NEW a \in Actuals \ {0}, Turn(r, a) PROVE Step(r)
  <2>1. a \in Nat
    BY BillingConstants
  <2> QED BY <1>2, <1>5, <2>1, TurnStep, Zenon
<1>6. CASE Upstream(r)
  <2>1. ASSUME NEW a \in Actuals, Succeed(r, a) PROVE Step(r)
    <3>1. a \in Nat
      BY BillingConstants
    <3> QED BY <1>2, <2>1, <3>1, SucceedStep, Zenon
  <2>2. CASE Fail(r)
    BY <1>2, <2>2, FailStep, Zenon
  <2> QED BY <1>6, <2>1, <2>2, Zenon DEF Upstream
<1>7. CASE RequestStep(r)
  BY <1>2, <1>7, RequestSteps, Zenon
<1>8. CASE JobStep(r)
  BY <1>2, <1>8, JobSteps, Zenon
<1> QED BY <1>1, <1>3, <1>4, <1>5, <1>6, <1>7, <1>8, Zenon

\* A step leaves the other requests' records alone.
LEMMA OthersSame ==
  ASSUME TypeOK, NEW r \in Requests, Only(r), NEW x \in Requests \ {r}
  PROVE  req'[x] = req[x] /\ ses'[x] = ses[x] /\ job'[x] = job[x] /\ rec'[x] = rec[x]
BY Zenon DEF TypeOK, Only

\* The books are right at the start ...
LEMMA BooksInit == Init => TypeOK /\ AllBooks
<1> SUFFICES ASSUME Init PROVE TypeOK /\ AllBooks
  OBVIOUS
<1>1. TypeOK
  BY BillingConstants, EmptyRecords DEF Init, TypeOK
<1>2. ASSUME NEW r \in Requests PROVE Books(r)
  <2>1. req[r] = NewRequest /\ ses[r] = NoSession /\ job[r] = NoJob /\ rec[r] = "none"
    BY DEF Init
  <2>2. BooksOf(NewRequest, NoSession, NoJob, "none")
    BY DEF BooksOf, EarlyBooks, PlanBooks, LateBooks, EndBooks, JobBooks, Making, Early,
           NewRequest, NoSession, NoJob, MaxAttempts
  <2> QED BY <2>1, <2>2 DEF Books
<1> QED BY <1>1, <1>2 DEF AllBooks

\* ... a step of one request keeps them all ...
LEMMA StepKeepsBooks ==
  ASSUME TypeOK, AllBooks, NEW r \in Requests, Step(r)
  PROVE  TypeOK' /\ AllBooks'
<1>1. Only(r) /\ Typed(r)' /\ Books(r)'
  BY DEF Step
<1>2. \A x \in Requests \ {r} :
        req'[x] = req[x] /\ ses'[x] = ses[x] /\ job'[x] = job[x] /\ rec'[x] = rec[x]
  BY <1>1, OthersSame
<1>3. ASSUME NEW x \in Requests PROVE Books(x)'
  <2>1. CASE x = r
    BY <1>1, <2>1
  <2>2. CASE x # r
    BY <1>2, <2>2 DEF AllBooks, Books
  <2> QED BY <2>1, <2>2
<1>4. wallet' \in Int /\ token' \in Int /\ subUsed' \in Nat
  BY DEF Step, Fairly
<1>5. req'[r] \in RequestType /\ ses'[r] \in SessionType /\ job'[r] \in JobType /\ rec'[r] \in RecType
  BY <1>1 DEF Typed
<1>6. /\ rec' \in [Requests -> RecType] /\ req' \in [Requests -> RequestType]
      /\ ses' \in [Requests -> SessionType] /\ job' \in [Requests -> JobType]
  BY <1>1, <1>5, Zenon DEF TypeOK, Only, RecType
<1> QED BY <1>3, <1>4, <1>6 DEF TypeOK, AllBooks, RecType

\* ... and so does every step of the system.
LEMMA BooksNext == TypeOK /\ AllBooks /\ [Next]_vars => TypeOK' /\ AllBooks'
<1> SUFFICES ASSUME TypeOK, AllBooks, [Next]_vars PROVE TypeOK' /\ AllBooks'
  OBVIOUS
<1>1. CASE Next
  BY <1>1, NextSteps, StepKeepsBooks, Zenon
<1>2. CASE UNCHANGED vars
  BY <1>2 DEF vars, TypeOK, AllBooks, Books
<1> QED BY <1>1, <1>2

\* Whatever requests, jobs and failures interleave, amounts never leave their
\* types: no hold, reservation or refund of a session becomes negative.
THEOREM BillingTypeCorrect == Spec => []TypeOK
BY BooksInit, BooksNext, PTL DEF Spec

-----------------------------------------------------------------------------
(* The balances and what the requests have taken from them. *)

\* What the books of a request say was taken is never negative.
LEMMA PartsNat ==
  ASSUME NEW q \in RequestType, NEW s \in SessionType, NEW j \in JobType, NEW c,
         BooksOf(q, s, j, c)
  PROVE  WalletPart(q, s, j) \in Nat /\ SubPart(q, s, j) \in Nat /\ TokenPart(q, s, j) \in Nat
<1>1. FieldTypes(q, s, j)
  BY FieldsTyped
<1>2. Making(q) \in Nat
  BY <1>1 DEF FieldTypes, BooksOf, LateBooks, Making, Early
<1>3. WalletPart(q, s, j) \in Nat
  BY <1>1 DEF FieldTypes, WalletPart
<1>4. SubPart(q, s, j) \in Nat
  BY <1>1, <1>2 DEF FieldTypes, SubPart
<1>5. TokenPart(q, s, j) \in Nat
  BY <1>1 DEF FieldTypes, TokenPart
<1> QED BY <1>3, <1>4, <1>5

\* The same of all requests.
NatParts ==
    \A r \in Requests : FromWallet[r] \in Nat /\ FromSub[r] \in Nat /\ FromToken[r] \in Nat

LEMMA AllPartsNat == TypeOK /\ AllBooks => NatParts
<1> SUFFICES ASSUME TypeOK, AllBooks, NEW r \in Requests
             PROVE  FromWallet[r] \in Nat /\ FromSub[r] \in Nat /\ FromToken[r] \in Nat
  BY DEF NatParts
<1>1. req[r] \in RequestType /\ ses[r] \in SessionType /\ job[r] \in JobType
  BY DEF TypeOK
<1>2. BooksOf(req[r], ses[r], job[r], rec[r])
  BY DEF AllBooks, Books
<1> QED BY <1>1, <1>2, PartsNat DEF FromWallet, FromSub, FromToken

\* Nothing is taken at the start.
LEMMA NoneTaken ==
  ASSUME Init
  PROVE  /\ SumFunctionOnSet(FromWallet, Requests) = 0
         /\ SumFunctionOnSet(FromSub, Requests) = 0
         /\ SumFunctionOnSet(FromToken, Requests) = 0
<1>1. ASSUME NEW r \in Requests
      PROVE  FromWallet[r] = 0 /\ FromSub[r] = 0 /\ FromToken[r] = 0
  <2>1. req[r] = NewRequest /\ ses[r] = NoSession /\ job[r] = NoJob
    BY DEF Init
  <2>2. /\ WalletPart(NewRequest, NoSession, NoJob) = 0
        /\ SubPart(NewRequest, NoSession, NoJob) = 0
        /\ TokenPart(NewRequest, NoSession, NoJob) = 0
    BY DEF WalletPart, SubPart, TokenPart, Settled, NewRequest, NoSession, NoJob, NoFlag
  <2> QED BY <2>1, <2>2 DEF FromWallet, FromSub, FromToken
<1> QED BY <1>1, SumZero, BillingConstants

\* The sums move by what one request's part moves.
LEMMA StepSums ==
  ASSUME TypeOK, AllBooks, NEW r \in Requests, Step(r)
  PROVE  /\ SumFunctionOnSet(FromWallet', Requests)
              = SumFunctionOnSet(FromWallet, Requests) + FromWallet'[r] - FromWallet[r]
         /\ SumFunctionOnSet(FromSub', Requests)
              = SumFunctionOnSet(FromSub, Requests) + FromSub'[r] - FromSub[r]
         /\ SumFunctionOnSet(FromToken', Requests)
              = SumFunctionOnSet(FromToken, Requests) + FromToken'[r] - FromToken[r]
         /\ SumFunctionOnSet(FromWallet, Requests) \in Nat
         /\ SumFunctionOnSet(FromSub, Requests) \in Nat
         /\ SumFunctionOnSet(FromToken, Requests) \in Nat
         /\ FromSub[r] <= SumFunctionOnSet(FromSub, Requests)
         /\ FromWallet[r] \in Nat /\ FromSub[r] \in Nat /\ FromToken[r] \in Nat
         /\ FromWallet'[r] \in Nat /\ FromSub'[r] \in Nat /\ FromToken'[r] \in Nat
<1>1. IsFiniteSet(Requests)
  BY BillingConstants
<1>2. \A x \in Requests : FromWallet[x] \in Nat /\ FromSub[x] \in Nat /\ FromToken[x] \in Nat
  BY AllPartsNat DEF NatParts
<1>3. \A x \in Requests : FromWallet'[x] \in Nat /\ FromSub'[x] \in Nat /\ FromToken'[x] \in Nat
  <2>1. TypeOK' /\ AllBooks'
    BY StepKeepsBooks
  <2>2. NatParts'
    BY <2>1, AllPartsNat, PTL
  <2> QED BY <2>2 DEF NatParts
<1>4. ASSUME NEW x \in Requests \ {r}
      PROVE  FromWallet'[x] = FromWallet[x] /\ FromSub'[x] = FromSub[x] /\ FromToken'[x] = FromToken[x]
  <2>1. Only(r)
    BY DEF Step
  <2>2. req'[x] = req[x] /\ ses'[x] = ses[x] /\ job'[x] = job[x]
    BY <2>1, OthersSame
  <2> QED BY <2>2 DEF FromWallet, FromSub, FromToken
<1>5. SumFunctionOnSet(FromWallet', Requests)
        = SumFunctionOnSet(FromWallet, Requests) + FromWallet'[r] - FromWallet[r]
  BY <1>1, <1>2, <1>3, <1>4, SumChange
<1>6. SumFunctionOnSet(FromSub', Requests)
        = SumFunctionOnSet(FromSub, Requests) + FromSub'[r] - FromSub[r]
  BY <1>1, <1>2, <1>3, <1>4, SumChange
<1>7. SumFunctionOnSet(FromToken', Requests)
        = SumFunctionOnSet(FromToken, Requests) + FromToken'[r] - FromToken[r]
  BY <1>1, <1>2, <1>3, <1>4, SumChange
<1>8. /\ SumFunctionOnSet(FromWallet, Requests) \in Nat
      /\ SumFunctionOnSet(FromSub, Requests) \in Nat
      /\ SumFunctionOnSet(FromToken, Requests) \in Nat
      /\ FromSub[r] <= SumFunctionOnSet(FromSub, Requests)
  BY <1>1, <1>2, SumNat
<1> QED BY <1>2, <1>3, <1>5, <1>6, <1>7, <1>8

\* What Step says of the parts, in terms of the functions that are summed up.
LEMMA StepParts ==
  ASSUME TypeOK, NEW r \in Requests, Step(r)
  PROVE  /\ wallet' \in Int /\ token' \in Int /\ subUsed' \in Nat
         /\ wallet' + FromWallet'[r] <= wallet + FromWallet[r]
         /\ token' + FromToken'[r] <= token + FromToken[r]
         /\ "record" \notin Faults /\ FromSub[r] <= subUsed =>
               subUsed' - FromSub'[r] >= subUsed - FromSub[r]
         /\ Exact /\ ExactOf(req[r], ses[r]) =>
               /\ ExactOf(req'[r], ses'[r])
               /\ wallet' + FromWallet'[r] = wallet + FromWallet[r]
               /\ token' + FromToken'[r] = token + FromToken[r]
               /\ FromSub[r] <= subUsed => subUsed' - FromSub'[r] = subUsed - FromSub[r]
<1>1. /\ FromWallet[r] = WalletPart(req[r], ses[r], job[r])
      /\ FromSub[r] = SubPart(req[r], ses[r], job[r])
      /\ FromToken[r] = TokenPart(req[r], ses[r], job[r])
      /\ FromWallet'[r] = WalletPart(req'[r], ses'[r], job'[r])
      /\ FromSub'[r] = SubPart(req'[r], ses'[r], job'[r])
      /\ FromToken'[r] = TokenPart(req'[r], ses'[r], job'[r])
  BY Zenon DEF FromWallet, FromSub, FromToken
<1> QED BY <1>1 DEF Step, Fairly, Exactly

\* Sums that move with a balance keep their distance from it.
LEMMA MovesDown ==
  ASSUME NEW x \in Int, NEW x2 \in Int, NEW limit \in Int, NEW sum \in Int, NEW part \in Int,
         NEW part2 \in Int, NEW sum2, sum2 = sum + part2 - part
  PROVE  /\ x + sum <= limit /\ x2 + part2 <= x + part => x2 + sum2 <= limit
         /\ x + sum = limit /\ x2 + part2 = x + part => x2 + sum2 = limit
         /\ x >= sum /\ x2 - part2 >= x - part => x2 >= sum2
         /\ x = sum /\ x2 - part2 = x - part => x2 = sum2
OBVIOUS

\* No balance comes to hold more than it should.
LEMMA WithinNext ==
  ASSUME "record" \notin Faults, TypeOK, AllBooks, Within, [Next]_vars
  PROVE  Within'
<1>1. CASE Next
  <2>1. PICK r \in Requests : Step(r)
    BY <1>1, NextSteps
  <2>2. wallet \in Int /\ token \in Int /\ subUsed \in Nat /\ InitWallet \in Nat /\ InitToken \in Nat
    BY BillingConstants DEF TypeOK
  <2> DEFINE pw == FromWallet[r]  pu == FromSub[r]  pt == FromToken[r]
             pw2 == FromWallet'[r]  pu2 == FromSub'[r]  pt2 == FromToken'[r]
             sw == SumFunctionOnSet(FromWallet, Requests)
             su == SumFunctionOnSet(FromSub, Requests)
             st == SumFunctionOnSet(FromToken, Requests)
             sw2 == SumFunctionOnSet(FromWallet', Requests)
             su2 == SumFunctionOnSet(FromSub', Requests)
             st2 == SumFunctionOnSet(FromToken', Requests)
  <2>3. /\ sw2 = sw + pw2 - pw /\ su2 = su + pu2 - pu /\ st2 = st + pt2 - pt
        /\ sw \in Nat /\ su \in Nat /\ st \in Nat /\ pu <= su
        /\ pw \in Nat /\ pu \in Nat /\ pt \in Nat /\ pw2 \in Nat /\ pu2 \in Nat /\ pt2 \in Nat
    BY <2>1, StepSums
  <2>4. /\ wallet' \in Int /\ token' \in Int /\ subUsed' \in Nat
        /\ wallet' + pw2 <= wallet + pw /\ token' + pt2 <= token + pt
        /\ pu <= subUsed => subUsed' - pu2 >= subUsed - pu
    BY <2>1, StepParts
  <2>5. wallet + sw <= InitWallet /\ subUsed >= su /\ token + st <= InitToken
    BY DEF Within
  <2>6. wallet' + sw2 <= InitWallet /\ subUsed' >= su2 /\ token' + st2 <= InitToken
    <3>1. wallet' + sw2 <= InitWallet
      BY <2>2, <2>3, <2>4, <2>5, MovesDown
    <3>2. subUsed' >= su2
      BY <2>2, <2>3, <2>4, <2>5, MovesDown
    <3>3. token' + st2 <= InitToken
      BY <2>2, <2>3, <2>4, <2>5, MovesDown
    <3> QED BY <3>1, <3>2, <3>3
  <2> QED BY <2>6 DEF Within
<1>2. CASE UNCHANGED vars
  BY <1>2 DEF vars, Within, FromWallet, FromSub, FromToken
<1> QED BY <1>1, <1>2

\* What a running request holds is part of what its books say was taken.
LEMMA HeldPart ==
  ASSUME TypeOK, AllBooks, NEW r \in Requests
  PROVE  /\ Held(r) \in Nat
         /\ ses[r].src = "wallet" => Held(r) <= FromWallet[r]
         /\ ses[r].src = "sub" => Held(r) <= FromSub[r]
<1> DEFINE q == req[r]  s == ses[r]  j == job[r]  c == rec[r]
<1>1. /\ FromWallet[r] = WalletPart(q, s, j) /\ FromSub[r] = SubPart(q, s, j)
      /\ ses[r].src = s.src
      /\ Held(r) = IF q.pc \in {"open", "rsvFund", "rsvToken", "rsvUndo", "turnLast", "turnFund",
                                "turnToken", "settle", "failing"}
                   THEN s.consumed + (IF s.src = "sub" THEN s.extra ELSE 0) ELSE 0
  BY Zenon DEF FromWallet, FromSub, Held
<1>2. q \in RequestType /\ s \in SessionType /\ j \in JobType /\ BooksOf(q, s, j, c)
  BY DEF TypeOK, AllBooks, Books
<1> HIDE DEF q, s, j, c
<1>3. FieldTypes(q, s, j)
  BY <1>2, FieldsTyped
<1>4. WalletPart(q, s, j) \in Nat /\ SubPart(q, s, j) \in Nat
  BY <1>2, PartsNat
<1>5. CASE q.pc \in {"open", "rsvFund", "rsvToken", "rsvUndo", "turnLast", "turnFund", "turnToken",
                     "settle", "failing"}
  <2>1. ~Settled(s) /\ j.pc = "none" /\ q.pc \notin Early /\ Making(q) >= 0 /\ Making(q) \in Int
    BY <1>2, <1>3, <1>5 DEF FieldTypes, BooksOf, EndBooks, LateBooks, Settled, Early, Making
  <2>2. Held(r) = s.consumed + (IF s.src = "sub" THEN s.extra ELSE 0)
    BY <1>1, <1>5
  <2> QED BY <1>1, <1>3, <2>1, <2>2 DEF FieldTypes, WalletPart, SubPart
<1>6. CASE ~(q.pc \in {"open", "rsvFund", "rsvToken", "rsvUndo", "turnLast", "turnFund", "turnToken",
                       "settle", "failing"})
  <2>1. Held(r) = 0
    BY <1>1, <1>6
  <2> QED BY <1>1, <1>4, <2>1
<1> QED BY <1>5, <1>6

\* The same of the sums.
LEMMA HeldWithin ==
  ASSUME TypeOK, AllBooks
  PROVE  /\ HeldBy("wallet") \in Int /\ HeldBy("wallet") <= SumFunctionOnSet(FromWallet, Requests)
         /\ HeldBy("sub") \in Int /\ HeldBy("sub") <= SumFunctionOnSet(FromSub, Requests)
<1>1. IsFiniteSet(Requests)
  BY BillingConstants
<1>2. \A r \in Requests : FromWallet[r] \in Nat /\ FromSub[r] \in Nat
  BY AllPartsNat DEF NatParts
<1>3. ASSUME NEW src, NEW part, \A r \in Requests : part[r] \in Nat,
             \A r \in Requests : ses[r].src = src => Held(r) <= part[r]
      PROVE  HeldBy(src) \in Int /\ HeldBy(src) <= SumFunctionOnSet(part, Requests)
  <2> DEFINE f == [r \in Requests |-> Held(r)]
             A == {r \in Requests : ses[r].src = src}
             g == [r \in Requests |-> IF r \in A THEN Held(r) ELSE 0]
  <2>1. \A r \in Requests : Held(r) \in Nat
    BY HeldPart
  <2>2. SumFunctionOnSet(f, A) = SumFunctionOnSet(g, Requests)
    <3>1. \A x \in A : f[x] \in Int /\ g[x] = f[x]
      BY <2>1
    <3>2. \A x \in Requests \ A : g[x] = 0
      OBVIOUS
    <3>3. A \in SUBSET Requests
      OBVIOUS
    <3> HIDE DEF f, g, A
    <3> QED BY <1>1, <3>1, <3>2, <3>3, SumPart
  <2>3. \A x \in Requests : g[x] \in Int /\ part[x] \in Int /\ g[x] <= part[x]
    BY <1>3, <2>1
  <2>4. SumFunctionOnSet(g, Requests) \in Int /\ SumFunctionOnSet(g, Requests) <= SumFunctionOnSet(part, Requests)
    <3> HIDE DEF g
    <3> QED BY <1>1, <2>3, SumInt, SumLeq
  <2>5. HeldBy(src) = SumFunctionOnSet(f, A)
    BY Zenon DEF HeldBy
  <2> QED BY <2>2, <2>4, <2>5, Zenon
<1>4. \A r \in Requests : /\ ses[r].src = "wallet" => Held(r) <= FromWallet[r]
                          /\ ses[r].src = "sub" => Held(r) <= FromSub[r]
  BY HeldPart
<1>5. HeldBy("wallet") \in Int /\ HeldBy("wallet") <= SumFunctionOnSet(FromWallet, Requests)
  BY <1>2, <1>3, <1>4
<1>6. HeldBy("sub") \in Int /\ HeldBy("sub") <= SumFunctionOnSet(FromSub, Requests)
  BY <1>2, <1>3, <1>4
<1> QED BY <1>5, <1>6

\* The totals taken are natural numbers.
LEMMA SumsNat ==
  ASSUME TypeOK, AllBooks
  PROVE  /\ SumFunctionOnSet(FromWallet, Requests) \in Nat
         /\ SumFunctionOnSet(FromSub, Requests) \in Nat
         /\ SumFunctionOnSet(FromToken, Requests) \in Nat
<1>1. \A r \in Requests : FromWallet[r] \in Nat /\ FromSub[r] \in Nat /\ FromToken[r] \in Nat
  BY AllPartsNat DEF NatParts
<1> QED BY <1>1, SumNat, BillingConstants

\* Whatever else fails and is retried or only logged, and however requests and
\* refund goroutines interleave, no refund, rollback or undo pays out more than
\* was taken.  The marking of a refunded record must not fail on its own:
\* RefundSubscriptionPreConsume then lowers the usage again on each retry.
THEOREM NeverOverRefunded ==
  ASSUME "record" \notin Faults
  PROVE  Spec => []NoOverRefund
<1>1. Init => Within
  <2> SUFFICES ASSUME Init PROVE Within
    OBVIOUS
  <2>1. wallet = InitWallet /\ token = InitToken /\ subUsed = 0
    BY DEF Init
  <2> QED BY <2>1, NoneTaken, BillingConstants DEF Within
<1>2. TypeOK /\ AllBooks /\ Within /\ [Next]_vars => Within'
  BY WithinNext
<1>3. TypeOK /\ AllBooks /\ Within => NoOverRefund
  <2> SUFFICES ASSUME TypeOK, AllBooks, Within PROVE NoOverRefund
    OBVIOUS
  <2>1. wallet \in Int /\ token \in Int /\ subUsed \in Nat /\ InitWallet \in Nat /\ InitToken \in Nat
    BY BillingConstants DEF TypeOK
  <2> QED BY <2>1, HeldWithin, SumsNat DEF Within, NoOverRefund
<1> QED BY <1>1, <1>2, <1>3, BooksInit, BooksNext, PTL DEF Spec

-----------------------------------------------------------------------------
(* When nothing fails, the books are exact. *)

\* Every step keeps the books exact ...
LEMMA ExactNext ==
  ASSUME Exact, TypeOK, AllBooks, AllExact, [Next]_vars
  PROVE  AllExact'
<1>0. Balanced /\ \A x \in Requests : ExactOf(req[x], ses[x])
  BY Zenon DEF AllExact
<1>1. CASE Next
  <2>1. PICK r \in Requests : Step(r)
    BY <1>1, NextSteps
  <2>2. wallet \in Int /\ token \in Int /\ subUsed \in Nat /\ InitWallet \in Nat /\ InitToken \in Nat
    BY BillingConstants DEF TypeOK
  <2> DEFINE pw == FromWallet[r]  pu == FromSub[r]  pt == FromToken[r]
             pw2 == FromWallet'[r]  pu2 == FromSub'[r]  pt2 == FromToken'[r]
             sw == SumFunctionOnSet(FromWallet, Requests)
             su == SumFunctionOnSet(FromSub, Requests)
             st == SumFunctionOnSet(FromToken, Requests)
             sw2 == SumFunctionOnSet(FromWallet', Requests)
             su2 == SumFunctionOnSet(FromSub', Requests)
             st2 == SumFunctionOnSet(FromToken', Requests)
  <2>3. /\ sw2 = sw + pw2 - pw /\ su2 = su + pu2 - pu /\ st2 = st + pt2 - pt
        /\ sw \in Nat /\ su \in Nat /\ st \in Nat /\ pu <= su
        /\ pw \in Nat /\ pu \in Nat /\ pt \in Nat /\ pw2 \in Nat /\ pu2 \in Nat /\ pt2 \in Nat
    BY <2>1, StepSums
  <2>4. wallet + sw = InitWallet /\ subUsed = su /\ token + st = InitToken
    BY <1>0 DEF Balanced
  <2>5. /\ wallet' \in Int /\ token' \in Int /\ subUsed' \in Nat
        /\ wallet' + pw2 = wallet + pw /\ token' + pt2 = token + pt
        /\ subUsed' - pu2 = subUsed - pu
        /\ ExactOf(req'[r], ses'[r])
    BY <1>0, <2>1, <2>3, <2>4, StepParts
  <2>6. wallet' + sw2 = InitWallet /\ subUsed' = su2 /\ token' + st2 = InitToken
    <3>1. wallet' + sw2 = InitWallet
      <4>1. wallet \in Int /\ wallet' \in Int /\ sw \in Int /\ pw \in Int /\ pw2 \in Int
        BY <2>2, <2>3, <2>5
      <4>2. sw2 = sw + pw2 - pw /\ wallet + sw = InitWallet /\ wallet' + pw2 = wallet + pw
        BY <2>3, <2>4, <2>5
      <4> QED BY <4>1, <4>2
    <3>2. subUsed' = su2
      <4>1. subUsed \in Int /\ subUsed' \in Int /\ su \in Int /\ pu \in Int /\ pu2 \in Int
        BY <2>2, <2>3, <2>5
      <4>2. su2 = su + pu2 - pu /\ subUsed = su /\ subUsed' - pu2 = subUsed - pu
        BY <2>3, <2>4, <2>5
      <4> QED BY <4>1, <4>2
    <3>3. token' + st2 = InitToken
      BY <2>2, <2>3, <2>4, <2>5
    <3> QED BY <3>1, <3>2, <3>3
  <2>7. ASSUME NEW x \in Requests PROVE ExactOf(req'[x], ses'[x])
    <3>1. CASE x = r
      BY <2>5, <3>1
    <3>2. CASE x # r
      <4>1. req'[x] = req[x] /\ ses'[x] = ses[x]
        BY <2>1, <3>2, OthersSame DEF Step
      <4> QED BY <1>0, <4>1
    <3> QED BY <3>1, <3>2
  <2> QED BY <2>6, <2>7 DEF AllExact, Balanced
<1>2. CASE UNCHANGED vars
  BY <1>0, <1>2 DEF vars, AllExact, Balanced, FromWallet, FromSub, FromToken
<1> QED BY <1>1, <1>2

\* ... and they are exact at the start.
LEMMA ExactInit == ASSUME Exact PROVE Init => AllExact
<1> SUFFICES ASSUME Init PROVE AllExact
  OBVIOUS
<1>1. wallet = InitWallet /\ token = InitToken /\ subUsed = 0
  BY DEF Init
<1>2. Balanced
  BY <1>1, NoneTaken, BillingConstants DEF Balanced
<1>3. ExactOf(NewRequest, NoSession)
  BY DEF ExactOf, NewRequest, NoSession, Early
<1>4. \A r \in Requests : req[r] = NewRequest /\ ses[r] = NoSession
  BY DEF Init
<1> QED BY <1>2, <1>3, <1>4 DEF AllExact

\* What an exact request that is over has taken is what it had to pay.
LEMMA OverPaid ==
  ASSUME Exact, TypeOK, AllBooks, AllExact, NEW r \in Requests, Over(r)
  PROVE  /\ FromWallet[r] = IF r \in PaysBy("wallet") THEN Charge(r) ELSE 0
         /\ FromSub[r] = IF r \in PaysBy("sub") THEN Charge(r) ELSE 0
         /\ FromToken[r] = IF req[r].pc = "ended" /\ ~req[r].flag.playground THEN Charge(r) ELSE 0
         /\ Charge(r) \in Nat
<1> DEFINE q == req[r]  s == ses[r]  j == job[r]  c == rec[r]
<1>1. /\ FromWallet[r] = WalletPart(q, s, j) /\ FromSub[r] = SubPart(q, s, j)
      /\ FromToken[r] = TokenPart(q, s, j)
      /\ Charge(r) = (IF s.settled THEN q.actual ELSE IF q.ok THEN s.pre ELSE 0) + q.fee
      /\ q.pc \in {"new", "rejected", "ended"} /\ j.pc \in {"none", "done"}
  BY Zenon DEF FromWallet, FromSub, FromToken, Charge, Over
<1>2. /\ r \in PaysBy("wallet") <=> q.pc = "ended" /\ s.src = "wallet"
      /\ r \in PaysBy("sub") <=> q.pc = "ended" /\ s.src = "sub"
      /\ req[r].pc = q.pc /\ req[r].flag.playground = q.flag.playground
  BY Zenon DEF PaysBy
<1>3. q \in RequestType /\ s \in SessionType /\ j \in JobType /\ BooksOf(q, s, j, c)
  BY DEF TypeOK, AllBooks, Books
<1>4. ExactOf(q, s)
  BY DEF AllExact
<1> DEFINE paid == (IF s.settled THEN q.actual ELSE IF q.ok THEN s.pre ELSE 0) + q.fee
<1> HIDE DEF q, s, j, c
<1>5. FieldTypes(q, s, j)
  BY <1>3, FieldsTyped
<1>6. paid \in Nat
  BY <1>5 DEF FieldTypes
<1>7. CASE q.pc \in {"new", "rejected"}
  <2>1. /\ s.consumed = 0 /\ s.extra = 0 /\ q.fee = 0 /\ ~Settled(s) /\ j.pc = "none"
        /\ s.tokenConsumed = 0 \/ q.flag.playground
        /\ Making(q) = 0 /\ q.pc # "ended"
    BY <1>3, <1>5, <1>7 DEF BooksOf, EarlyBooks, Early, Making, Settled
  <2>2. WalletPart(q, s, j) = 0 /\ SubPart(q, s, j) = 0 /\ TokenPart(q, s, j) = 0
    BY <1>5, <2>1 DEF FieldTypes, WalletPart, SubPart, TokenPart, Settled
  <2> QED BY <1>1, <1>2, <1>6, <2>1, <2>2
<1>8. CASE q.pc = "ended"
  <2>1. /\ s.pre = s.want + s.extra /\ s.tokenConsumed = s.pre /\ Making(q) = 0
        /\ s.src = "sub" => s.consumed = s.want
        /\ s.src = "wallet" => s.consumed = s.pre
        /\ s.fundingSettled => s.settled
    BY <1>3, <1>4, <1>5, <1>8 DEF FieldTypes, BooksOf, LateBooks, EndBooks, Making, ExactOf, Early
  <2>2. CASE s.settled
    <3>1. "adjust" \notin Faults /\ paid = q.actual + q.fee
      BY <1>5, <2>2 DEF Exact, FieldTypes
    <3>2. /\ WalletPart(q, s, j) = IF s.src = "wallet" THEN q.actual + q.fee ELSE 0
          /\ SubPart(q, s, j) = IF s.src = "sub" THEN q.actual + q.fee ELSE 0
          /\ TokenPart(q, s, j) = IF ~q.flag.playground THEN q.actual + q.fee ELSE 0
      BY <1>5, <1>8, <2>2, <3>1 DEF FieldTypes, WalletPart, SubPart, TokenPart, Settled, Sources
    <3> QED BY <1>1, <1>2, <1>6, <1>8, <3>1, <3>2
  <2>3. CASE ~s.settled /\ q.ok
    <3>1. j.pc = "none" /\ paid = s.pre + q.fee /\ ~Settled(s)
      BY <1>3, <1>5, <2>1, <2>3 DEF BooksOf, EndBooks, Settled, FieldTypes
    <3>2. /\ WalletPart(q, s, j) = IF s.src = "wallet" THEN s.pre + q.fee ELSE 0
          /\ SubPart(q, s, j) = IF s.src = "sub" THEN s.pre + q.fee ELSE 0
          /\ TokenPart(q, s, j) = IF ~q.flag.playground THEN s.pre + q.fee ELSE 0
      BY <1>5, <1>8, <2>1, <2>3, <3>1 DEF FieldTypes, WalletPart, SubPart, TokenPart, Sources
    <3> QED BY <1>1, <1>2, <1>6, <1>8, <3>1, <3>2
  <2>4. CASE ~s.settled /\ ~q.ok
    <3>1. paid = q.fee /\ ~Settled(s)
      BY <1>5, <2>1, <2>4 DEF Settled, FieldTypes
    <3>2. j.pc = "done" \/ (j.pc = "none" /\ s.src = "wallet" /\ s.consumed = 0 /\ s.tokenConsumed = 0)
      BY <1>1, <1>3, <1>5, <1>8, <2>1, <2>4 DEF BooksOf, EndBooks, FieldTypes
    <3>3. /\ WalletPart(q, s, j) = IF s.src = "wallet" THEN q.fee ELSE 0
          /\ SubPart(q, s, j) = IF s.src = "sub" THEN q.fee ELSE 0
          /\ TokenPart(q, s, j) = IF ~q.flag.playground THEN q.fee ELSE 0
      BY <1>5, <1>8, <2>4, <3>1, <3>2 DEF FieldTypes, WalletPart, SubPart, TokenPart, Sources
    <3> QED BY <1>1, <1>2, <1>6, <1>8, <3>1, <3>3
  <2> QED BY <2>2, <2>3, <2>4
<1> QED BY <1>1, <1>7, <1>8

\* With no database error and no realtime turns, the balances of a user whose
\* requests are over have fallen by exactly what those had to pay, whatever
\* sources were tried, fallen back from, topped up or refunded on the way.
THEOREM BooksAlwaysBalance ==
  ASSUME Exact
  PROVE  Spec => []BooksBalance
<1>1. TypeOK /\ AllBooks /\ AllExact => BooksBalance
  <2> SUFFICES ASSUME TypeOK, AllBooks, AllExact, \A r \in Requests : Over(r)
               PROVE  /\ wallet = InitWallet - Paid(PaysBy("wallet"))
                      /\ subUsed = Paid(PaysBy("sub"))
                      /\ token = InitToken
                           - Paid({r \in Requests : req[r].pc = "ended" /\ ~req[r].flag.playground})
    BY DEF BooksBalance
  <2> DEFINE f == [r \in Requests |-> Charge(r)]
             T == {r \in Requests : req[r].pc = "ended" /\ ~req[r].flag.playground}
  <2>1. IsFiniteSet(Requests)
    BY BillingConstants
  <2>2. \A r \in Requests :
           /\ FromWallet[r] = IF r \in PaysBy("wallet") THEN f[r] ELSE 0
           /\ FromSub[r] = IF r \in PaysBy("sub") THEN f[r] ELSE 0
           /\ FromToken[r] = IF r \in T THEN f[r] ELSE 0
           /\ f[r] \in Int
    BY OverPaid
  <2>3. PaysBy("wallet") \in SUBSET Requests /\ PaysBy("sub") \in SUBSET Requests /\ T \in SUBSET Requests
    BY DEF PaysBy
  <2>4. Balanced
    BY DEF AllExact
  <2>5. wallet \in Int /\ token \in Int /\ subUsed \in Nat
    BY DEF TypeOK
  <2>6. \A S : Paid(S) = SumFunctionOnSet(f, S)
    BY Zenon DEF Paid
  <2> HIDE DEF f, T
  <2>7. SumFunctionOnSet(f, PaysBy("wallet")) = SumFunctionOnSet(FromWallet, Requests)
    BY <2>1, <2>2, <2>3, SumPart
  <2>8. SumFunctionOnSet(f, PaysBy("sub")) = SumFunctionOnSet(FromSub, Requests)
    BY <2>1, <2>2, <2>3, SumPart
  <2>9. SumFunctionOnSet(f, T) = SumFunctionOnSet(FromToken, Requests)
    BY <2>1, <2>2, <2>3, SumPart
  <2>10. /\ wallet = InitWallet - SumFunctionOnSet(FromWallet, Requests)
         /\ subUsed = SumFunctionOnSet(FromSub, Requests)
         /\ token = InitToken - SumFunctionOnSet(FromToken, Requests)
    BY <2>4, <2>5, SumsNat DEF Balanced
  <2> QED BY <2>6, <2>7, <2>8, <2>9, <2>10, Zenon DEF T
<1>2. TypeOK /\ AllBooks /\ AllExact /\ [Next]_vars => AllExact'
  BY ExactNext
<1> QED BY <1>1, <1>2, ExactInit, BooksInit, BooksNext, PTL DEF Spec

-----------------------------------------------------------------------------
(* The refinement of Escrow. *)

\* A request's charge and fee are what it has taken from the two sources.
LEMMA ChargeParts ==
  ASSUME NEW q \in RequestType, NEW s \in SessionType, NEW j \in JobType, NEW c,
         BooksOf(q, s, j, c), ExactOf(q, s)
  PROVE  /\ ChargeOf(q, s, j) \in Nat /\ q.fee \in Nat
         /\ ChargeOf(q, s, j) + q.fee = WalletPart(q, s, j) + SubPart(q, s, j)
<1>1. FieldTypes(q, s, j)
  BY FieldsTyped
<1>2. q.fee \in Nat
  BY <1>1 DEF FieldTypes
<1>3. CASE Settled(s)
  <2>1. PhaseOf(q, s, j) = "committed"
    BY <1>3 DEF PhaseOf, Settled
  <2> QED BY <1>1, <1>3, <2>1 DEF FieldTypes, ChargeOf, WalletPart, SubPart, Sources
<1>4. CASE ~Settled(s) /\ Returned(q, s, j)
  <2>1. ChargeOf(q, s, j) = 0
    BY <1>4 DEF PhaseOf, ChargeOf, Settled
  <2>2. WalletPart(q, s, j) + SubPart(q, s, j) = q.fee
    BY <1>1, <1>4 DEF FieldTypes, Returned, Settled, BooksOf, EarlyBooks, LateBooks, EndBooks, JobBooks,
       ExactOf, Early, Making, WalletPart, SubPart, Sources
  <2> QED BY <1>2, <2>1, <2>2
<1>5. CASE ~Settled(s) /\ ~Returned(q, s, j) /\ q.pc \in {"new", "try", "token", "fund", "rollback"}
  <2>1. ChargeOf(q, s, j) = 0
    BY <1>5 DEF PhaseOf, ChargeOf, Settled
  <2>2. s.consumed = 0 /\ s.extra = 0 /\ Making(q) = 0
    BY <1>5 DEF BooksOf, EarlyBooks, Early, Making
  <2> QED BY <1>1, <1>5, <2>1, <2>2 DEF FieldTypes, WalletPart, SubPart, Sources
<1>6. CASE ~Settled(s) /\ ~Returned(q, s, j) /\ q.pc \notin {"new", "try", "token", "fund", "rollback"}
  <2>1. ChargeOf(q, s, j) = Taken(q, s, j)
    BY <1>6 DEF PhaseOf, ChargeOf, Settled
  <2>2. Making(q) \in Nat
    BY <1>1 DEF FieldTypes, BooksOf, LateBooks, Making, Early
  <2>3. /\ s.src = "wallet" => j.pc \notin {"record", "extra", "token", "done"}
        /\ j.pc \notin {"token", "done"}
        /\ j.pc \in {"record", "extra"} => Making(q) = 0
    BY <1>1, <1>6 DEF FieldTypes, Returned, BooksOf, EndBooks, JobBooks, Making
  <2>4. Taken(q, s, j) = (IF j.pc \in {"record", "extra"} THEN 0 ELSE s.consumed)
                         + (IF s.src = "wallet" THEN 0 ELSE s.extra + Making(q))
    BY <1>1, <2>2 DEF FieldTypes, Taken, Making
  <2> QED BY <1>1, <1>6, <2>1, <2>2, <2>3, <2>4 DEF FieldTypes, WalletPart, SubPart, Sources
<1> QED BY <1>3, <1>4, <1>5, <1>6

\* The values of Escrow's variables under the refinement mapping.
ChargeMap == [r \in Requests |-> ChargeOf(req[r], ses[r], job[r])]
PhaseMap == [r \in Requests |-> PhaseOf(req[r], ses[r], job[r])]
FeeMap == [r \in Requests |-> req[r].fee]
Pool == wallet + SubTotal - subUsed + Fees

\* Charges and fees are natural numbers that add up to what was taken.
ChargesTyped ==
    \A r \in Requests : /\ ChargeMap[r] \in Nat /\ FeeMap[r] \in Nat
                        /\ ChargeMap[r] + FeeMap[r] = FromWallet[r] + FromSub[r]

\* The exact books imply it.
LEMMA AllChargesTyped == Exact /\ TypeOK /\ AllBooks /\ AllExact => ChargesTyped
<1> SUFFICES ASSUME Exact, TypeOK, AllBooks, AllExact, NEW r \in Requests
             PROVE  /\ ChargeMap[r] \in Nat /\ FeeMap[r] \in Nat
                    /\ ChargeMap[r] + FeeMap[r] = FromWallet[r] + FromSub[r]
  BY DEF ChargesTyped
<1>1. /\ req[r] \in RequestType /\ ses[r] \in SessionType /\ job[r] \in JobType
      /\ BooksOf(req[r], ses[r], job[r], rec[r]) /\ ExactOf(req[r], ses[r])
  BY DEF TypeOK, AllBooks, Books, AllExact
<1> QED BY <1>1, ChargeParts DEF ChargeMap, FeeMap, FromWallet, FromSub

\* The pool moves by what the request's charge moves.
LEMMA PoolMoves ==
  ASSUME Exact, TypeOK, AllBooks, AllExact, NEW r \in Requests, Step(r), ChargesTyped, ChargesTyped'
  PROVE  /\ Pool \in Int
         /\ Pool' = Pool + ChargeMap[r] - ChargeMap'[r]
<1>1. /\ ChargeMap[r] \in Nat /\ FeeMap[r] \in Nat
      /\ ChargeMap[r] + FeeMap[r] = FromWallet[r] + FromSub[r]
      /\ ChargeMap'[r] \in Nat /\ FeeMap'[r] \in Nat
      /\ ChargeMap'[r] + FeeMap'[r] = FromWallet'[r] + FromSub'[r]
  BY DEF ChargesTyped
<1>2. /\ SumFunctionOnSet(FeeMap, Requests) \in Int
      /\ SumFunctionOnSet(FeeMap', Requests) = SumFunctionOnSet(FeeMap, Requests) + FeeMap'[r] - FeeMap[r]
  <2>1. \A x \in Requests : FeeMap[x] \in Int /\ FeeMap'[x] \in Int
    BY DEF ChargesTyped
  <2>2. Only(r)
    BY DEF Step
  <2>3. \A x \in Requests \ {r} : FeeMap[x] = FeeMap'[x]
    BY <2>2, OthersSame DEF FeeMap
  <2> QED BY <2>1, <2>3, SumChange, BillingConstants
<1>3. Fees = SumFunctionOnSet(FeeMap, Requests) /\ Fees' = SumFunctionOnSet(FeeMap', Requests)
  BY Zenon DEF Fees, FeeMap
<1>4. /\ FromSub[r] \in Nat /\ FromWallet[r] \in Nat /\ FromSub'[r] \in Nat /\ FromWallet'[r] \in Nat
      /\ FromSub[r] <= SumFunctionOnSet(FromSub, Requests)
  BY StepSums
<1>5. subUsed = SumFunctionOnSet(FromSub, Requests) /\ ExactOf(req[r], ses[r])
  BY Zenon DEF AllExact, Balanced
<1>6. /\ wallet' \in Int /\ subUsed' \in Nat
      /\ wallet' + FromWallet'[r] = wallet + FromWallet[r]
      /\ subUsed' - FromSub'[r] = subUsed - FromSub[r]
  BY <1>4, <1>5, StepParts
<1>7. wallet \in Int /\ subUsed \in Nat /\ SubTotal \in Nat
  BY BillingConstants DEF TypeOK
<1>8. Pool = wallet + SubTotal - subUsed + Fees /\ Pool' = wallet' + SubTotal - subUsed' + Fees'
  BY DEF Pool
<1>9. wallet' - subUsed' = wallet - subUsed + ChargeMap[r] + FeeMap[r] - ChargeMap'[r] - FeeMap'[r]
  BY <1>1, <1>4, <1>6, <1>7
<1>10. Fees \in Int /\ Fees' = Fees + FeeMap'[r] - FeeMap[r]
  BY <1>2, <1>3
<1> QED BY <1>1, <1>6, <1>7, <1>8, <1>9, <1>10

\* A step of the system is one of Escrow's, or changes nothing there.
LEMMA StepIsMove ==
  ASSUME Exact, TypeOK, AllBooks, AllExact, NEW r \in Requests, Step(r), ChargesTyped, ChargesTyped'
  PROVE  [Esc!EscrowNext]_(Esc!escrowVars)
<1>1. Only(r)
  BY DEF Step
<1>2. ASSUME NEW x \in Requests \ {r}
      PROVE  ChargeMap'[x] = ChargeMap[x] /\ PhaseMap'[x] = PhaseMap[x]
  BY <1>1, OthersSame DEF ChargeMap, PhaseMap
<1>3. /\ DOMAIN ChargeMap' = Requests /\ DOMAIN ChargeMap = Requests /\ ChargeMap' \in [Requests -> Nat]
  BY DEF ChargeMap, ChargesTyped
<1>4. /\ PhaseMap[r] = PhaseOf(req[r], ses[r], job[r]) /\ PhaseMap'[r] = PhaseOf(req'[r], ses'[r], job'[r])
      /\ ChargeMap[r] = ChargeOf(req[r], ses[r], job[r]) /\ ChargeMap'[r] = ChargeOf(req'[r], ses'[r], job'[r])
  BY Zenon DEF PhaseMap, ChargeMap
<1>5. \A p : PhaseMap'[r] = p => PhaseMap' = [PhaseMap EXCEPT ![r] = p]
  BY <1>2 DEF PhaseMap
<1>6. Pool \in Int /\ Pool' = Pool + ChargeMap[r] - ChargeMap'[r]
  BY PoolMoves
<1>7. Esc!Move(r)
  BY <1>2, <1>3, <1>6 DEF Esc!Move, ChargeMap, Pool
<1>8. Phased(req[r], ses[r], job[r], req'[r], ses'[r], job'[r]) /\ ExactOf(req[r], ses[r])
  BY DEF Step, AllExact
<1>9. \/ PhaseMap'[r] = PhaseMap[r] /\ (PhaseMap[r] = "held" \/ ChargeMap'[r] = ChargeMap[r])
      \/ PhaseMap[r] \in {"idle", "held"} /\ PhaseMap'[r] \in {"held", "released"}
      \/ PhaseMap[r] = "held" /\ PhaseMap'[r] = "committed"
  BY <1>4, <1>8 DEF Phased
<1>10. CASE PhaseMap[r] \in {"idle", "held"} /\ PhaseMap'[r] = "held"
  <2>1. Esc!EscrowHold(r)
    BY <1>5, <1>7, <1>10 DEF Esc!EscrowHold, PhaseMap
  <2> QED BY <2>1 DEF Esc!EscrowNext
<1>11. CASE PhaseMap[r] \in {"idle", "held"} /\ PhaseMap'[r] = "released"
  <2>1. ChargeMap'[r] = 0
    BY <1>4, <1>11 DEF ChargeOf
  <2>2. Esc!EscrowRelease(r)
    BY <1>5, <1>7, <1>11, <2>1 DEF Esc!EscrowRelease, PhaseMap, ChargeMap
  <2> QED BY <2>2 DEF Esc!EscrowNext
<1>12. CASE PhaseMap[r] = "held" /\ PhaseMap'[r] = "committed"
  <2>1. Esc!EscrowCommit(r)
    BY <1>5, <1>7, <1>12 DEF Esc!EscrowCommit, PhaseMap
  <2> QED BY <2>1 DEF Esc!EscrowNext
<1>13. CASE PhaseMap'[r] = PhaseMap[r] /\ ChargeMap'[r] = ChargeMap[r]
  <2>1. ChargeMap' = ChargeMap
    BY <1>2, <1>13 DEF ChargeMap
  <2>2. PhaseMap' = PhaseMap
    BY <1>2, <1>13 DEF PhaseMap
  <2>3. Pool' = Pool
    BY <1>3, <1>6, <1>13
  <2> QED BY <2>1, <2>2, <2>3 DEF Esc!escrowVars, ChargeMap, PhaseMap, Pool
<1> QED BY <1>9, <1>10, <1>11, <1>12, <1>13

\* With no database error and no realtime turns, a user's requests are an
\* escrow: each step of a handler or a refund goroutine moves one request's
\* charge by exactly what the balances move, a settled charge is final, and a
\* failed request gets everything back once and for all.
THEOREM SessionsImplementEscrow ==
  ASSUME Exact
  PROVE  Spec => ImplementsEscrow
<1>1. Init => Esc!EscrowInit
  <2> SUFFICES ASSUME Init PROVE Esc!EscrowInit
    OBVIOUS
  <2>1. \A r \in Requests : req[r] = NewRequest /\ ses[r] = NoSession /\ job[r] = NoJob
    BY DEF Init
  <2>2. /\ PhaseOf(NewRequest, NoSession, NoJob) = "idle" /\ ChargeOf(NewRequest, NoSession, NoJob) = 0
        /\ NewRequest.fee = 0
    BY DEF PhaseOf, ChargeOf, Returned, NewRequest, NoSession, NoJob
  <2>3. Fees = 0
    <3> DEFINE f == [r \in Requests |-> req[r].fee]
    <3>1. \A r \in Requests : f[r] = 0
      BY <2>1, <2>2
    <3>2. SumFunctionOnSet(f, Requests) = 0
      <4> HIDE DEF f
      <4> QED BY <3>1, SumZero, BillingConstants
    <3> QED BY <3>2 DEF Fees
  <2>4. wallet + SubTotal - subUsed + Fees = InitWallet + SubTotal
    BY <2>3, BillingConstants DEF Init
  <2> QED BY <2>1, <2>2, <2>4 DEF Esc!EscrowInit
<1>2. /\ TypeOK /\ AllBooks /\ AllExact /\ ChargesTyped
      /\ TypeOK' /\ AllBooks' /\ AllExact' /\ ChargesTyped' /\ [Next]_vars
      => [Esc!EscrowNext]_(Esc!escrowVars)
  <2> SUFFICES ASSUME TypeOK, AllBooks, AllExact, ChargesTyped, ChargesTyped', [Next]_vars
               PROVE  [Esc!EscrowNext]_(Esc!escrowVars)
    OBVIOUS
  <2>1. CASE Next
    BY <2>1, NextSteps, StepIsMove
  <2>2. CASE UNCHANGED vars
    BY <2>2 DEF vars, Esc!escrowVars, Fees
  <2> QED BY <2>1, <2>2
<1>3. TypeOK /\ AllBooks /\ AllExact => ChargesTyped
  BY AllChargesTyped
<1>4. TypeOK /\ AllBooks /\ AllExact /\ [Next]_vars => AllExact'
  BY ExactNext
<1> QED BY <1>1, <1>2, <1>3, <1>4, ExactInit, BooksInit, BooksNext, PTL DEF Spec, ImplementsEscrow, Esc!EscrowSpec
=============================================================================
