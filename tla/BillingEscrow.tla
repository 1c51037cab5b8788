---------------------------- MODULE BillingEscrow ----------------------------
(***************************************************************************)
(* BillingSession implements Escrow: the pool is the wallet together with  *)
(* what is left of the subscription and the violation fees, and the charge *)
(* of a request is what its session remembers having taken.  The mapping   *)
(* therefore relates the session's own books to the balances at every step. *)
(***************************************************************************)
EXTENDS BillingSession

\* The definitions below read one request q with its session s and job j.

\* The source has been given back everything (the token may still be due).
Returned(q, s, j) ==
    \/ q.pc = "rejected"
    \/ j.pc \in {"token", "done"}
    \/ j.pc = "extra" /\ s.src = "wallet"
    \/ q.pc \in {"fee", "feeToken"} /\ ~s.refunded
    \/ q.pc = "ended" /\ ~s.refunded /\ ~s.settled /\ ~q.ok

PhaseOf(q, s, j) ==
    IF s.settled \/ s.fundingSettled THEN "committed"
    ELSE IF Returned(q, s, j) THEN "released"
    ELSE IF q.pc \in {"new", "try", "token", "fund", "rollback"} THEN "idle"
    ELSE "held"

\* WalletFunding.consumed already contains the extra reservations, a
\* subscription keeps them apart, and one that is being made is in neither.
Taken(q, s, j) ==
    LET making == IF q.pc \in {"rsvToken", "rsvUndo"} THEN q.delta ELSE 0
        main == IF j.pc \in {"record", "extra"} THEN 0 ELSE s.consumed
    IN  IF s.src = "wallet" THEN main ELSE main + s.extra + making

ChargeOf(q, s, j) ==
    IF PhaseOf(q, s, j) = "committed" THEN q.actual
    ELSE IF PhaseOf(q, s, j) = "held" THEN Taken(q, s, j) ELSE 0

\* Violation fees are charged beside the session.
Fees == SumFunctionOnSet([r \in Requests |-> req[r].fee], Requests)

Esc == INSTANCE Escrow WITH
    Clients <- Requests,
    Total <- InitWallet + SubTotal,
    pool <- wallet + SubTotal - subUsed + Fees,
    charge <- [r \in Requests |-> ChargeOf(req[r], ses[r], job[r])],
    phase <- [r \in Requests |-> PhaseOf(req[r], ses[r], job[r])]

\* Without database errors, every step of every request moves
\* exactly one request's charge by exactly what the balances move, a settled
\* charge is final, and a failed request gets everything back once and for all.
ImplementsEscrow == Esc!EscrowSpec
=============================================================================
