--------------------------- MODULE MCClientGroups ---------------------------
(* Instances of ClientGroups for TLC. *)
EXTENDS ClientGroups

CONSTANTS t1, t2

OneQuery == [h \in Queries |-> Values]

(* Two queries that overlap in one content. *)
Overlapping == [h \in Queries |-> IF h = "p" THEN {"a"} ELSE {"a", "b"}]

(* What the table holds at the start: nothing, or one row. *)
NoneEarlier == <<>>
RowEarlier == <<[key |-> "k", value |-> "a", by |-> NoTab, refused |-> FALSE]>>

SymmetricTabs == Permutations(Tabs)
=============================================================================
