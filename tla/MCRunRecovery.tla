--------------------------- MODULE MCRunRecovery ---------------------------
EXTENDS RunRecovery

\* The safety properties speak of a root until a save overwrites another: what
\* follows an overwrite is not explored.
UntilOverwritten == clean

=============================================================================
