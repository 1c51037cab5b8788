-------------------------------- MODULE Escrow --------------------------------
(***************************************************************************)
(* What request billing promises, without sessions, tokens or jobs: money  *)
(* moves between a pool and the charge of one client at a time.  A charge  *)
(* may move while it is held; a commit fixes it, a release returns all of  *)
(* it, and both are final.  BillingEscrow shows that BillingSession        *)
(* implements this.                                                        *)
(***************************************************************************)
EXTENDS Integers

CONSTANTS Clients, Total

VARIABLES pool, charge, phase

escrowVars == <<pool, charge, phase>>

EscrowInit ==
    /\ pool = Total
    /\ charge = [c \in Clients |-> 0]
    /\ phase = [c \in Clients |-> "idle"]

\* Only the charge of c moves, paid by the pool or returned to it.
Move(c) ==
    /\ charge' \in [Clients -> Nat]
    /\ \A d \in Clients \ {c} : charge'[d] = charge[d]
    /\ pool' = pool + charge[c] - charge'[c]

EscrowHold(c) ==
    /\ phase[c] \in {"idle", "held"}
    /\ Move(c)
    /\ phase' = [phase EXCEPT ![c] = "held"]

EscrowCommit(c) ==
    /\ phase[c] = "held"
    /\ Move(c)
    /\ phase' = [phase EXCEPT ![c] = "committed"]

EscrowRelease(c) ==
    /\ phase[c] \in {"idle", "held"}
    /\ Move(c)
    /\ charge'[c] = 0
    /\ phase' = [phase EXCEPT ![c] = "released"]

EscrowNext == \E c \in Clients : EscrowHold(c) \/ EscrowCommit(c) \/ EscrowRelease(c)

EscrowSpec == EscrowInit /\ [][EscrowNext]_escrowVars
=============================================================================
