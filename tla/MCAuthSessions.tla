--------------------------- MODULE MCAuthSessions ---------------------------
EXTENDS AuthSessions, TLC

Symmetry == Permutations(Tab) \cup Permutations(Request)

=============================================================================
