---------------------------- MODULE MCOrderedWindow ----------------------------
EXTENDS OrderedWindow

\* ASC sorts NULLs last, DESC first
NullsByOrder == [unique |-> {0}, tied |-> {}]

=============================================================================
