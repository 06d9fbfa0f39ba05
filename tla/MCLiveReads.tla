----------------------------- MODULE MCLiveReads -----------------------------
(* Instances of LiveReads for TLC. *)
EXTENDS LiveReads, TLC

CONSTANTS k1, k2, a, b, x, y, s1, s2, r1

Row(small, large) == [small |-> small, large |-> large]
AnyLarge == Large \cup {Omitted}

(* Queries: one value of the small column, every row, one large value. *)
OneQuery     == {[small |-> {a}, large |-> AnyLarge]}
SmallQueries == OneQuery \cup {[small |-> Small, large |-> AnyLarge]}
LargeQuery   == {[small |-> {a}, large |-> {x}]}
MixedQueries == SmallQueries \cup LargeQuery

(* One row updated with and without its large value, deleted, inserted. *)
FewTransactions == [{k1} -> {Row(a, x), Row(a, Omitted), Row(b, Omitted), NoRow}]

(* Two rows at once: one entering an answer as the other leaves it. *)
TwoKeyTransactions ==
    {k1 :> Row(a, y) @@ k2 :> Row(b, Omitted),
     k1 :> NoRow @@ k2 :> Row(a, Omitted),
     k1 :> Row(b, Omitted) @@ k2 :> NoRow}

AllRows == [k \in Keys |-> Row(b, x)]

SymmetricSubs == Permutations({s1, s2})
=============================================================================
