-------------------------- MODULE MCBillingSession --------------------------
\* Small instances of BillingSession.
EXTENDS BillingEscrow, TLC

Symmetry == Permutations(Requests)

Playground == [NoFlag EXCEPT !.playground = TRUE]
Realtime == [NoFlag EXCEPT !.realtime = TRUE]

ApiAndPlayground == {NoFlag, Playground}
ApiAndRealtime == {NoFlag, Realtime}
RealtimeOnly == {Realtime}
=============================================================================
