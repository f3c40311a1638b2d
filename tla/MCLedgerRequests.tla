-------------------------- MODULE MCLedgerRequests --------------------------
EXTENDS LedgerRequests, TLC

CONSTANTS ann, p1, p2, alice, bob, may, t1, t2

\* Two students who pay for the same month.
PayerOf == p1 :> alice @@ p2 :> bob

DatedIn == [p \in Payload |-> may]

Symmetry == Permutations(Tx) \cup Permutations(Report)

=============================================================================
