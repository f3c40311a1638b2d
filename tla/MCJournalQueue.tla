--------------------------- MODULE MCJournalQueue ---------------------------
EXTENDS JournalQueue, TLC

CONSTANTS c1, c2, blank, raw, clean

\* raw is a comment the backend stores as clean.
Sanitizer == [v \in Value |-> IF v = raw THEN clean ELSE v]

Symmetry == Permutations(Cell)

=============================================================================
