--------------------------- MODULE MCRunOwnership ---------------------------
EXTENDS RunOwnership

CONSTANTS p1, p2

=============================================================================
