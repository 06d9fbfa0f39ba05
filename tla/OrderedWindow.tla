---------------------------- MODULE OrderedWindow ----------------------------
(***************************************************************************)
(* The window of one ORDER BY / LIMIT subscription of streamgres           *)
(*                                                                         *)
(*   src/streamgres/src/ivm/window.rs    held rows, frontier, refills      *)
(*   src/streamgres/src/ivm/frames.rs    a storage read lands              *)
(*   src/streamgres/src/sync/runtime.rs  and is brought up to date first   *)
(*                                                                         *)
(* The window holds up to twice the limit of the matching rows.  Its       *)
(* frontier is the order value up to which storage is covered: a matching  *)
(* row strictly better is held, and a write is let in only if it is        *)
(* strictly better.  A window that drains asks for a refill read from the  *)
(* frontier on.  The read is answered at an older location, writes route   *)
(* meanwhile, and the frontier is derived anew when it lands.              *)
(*                                                                         *)
(* One subscription without twins, not a page under a gate.  The filter is *)
(* abstracted: a row is in the table when it exists and matches.  Smaller  *)
(* order values are better, and Nulls is where an order has its NULLs:     *)
(* last for ASC, first for DESC.                                           *)
(***************************************************************************)
EXTENDS Naturals, Sequences, FiniteSets

CONSTANTS
    None,
    Keys,
    Values,      \* of the ORDER BY column
    Orders,      \* "unique": ORDER BY ends in the row key, "tied": it does not
    Nulls,       \* of an order: the values no comparison of a predicate is true of
    Limit,       \* LIMIT
    MaxWrites    \* bound: writes after the registration

Capacity == 2 * Limit
Tables == [Keys -> Values \cup {None}]

OrderValues == Values \X (Keys \cup {0})
Frontiers == [at : OrderValues \cup {None}, inclusive : BOOLEAN]
Reads == [kind : {"snapshot", "refill"}, limit : 1 .. Capacity,
          from : OrderValues \cup {None}, strict : BOOLEAN]

ASSUME WindowAssumption ==
    /\ IsFiniteSet(Keys) /\ Keys \subseteq Nat \ {0}
    /\ Values \subseteq Nat
    /\ None \notin Values \cup OrderValues \cup Reads
    /\ Orders \subseteq {"unique", "tied"} /\ Nulls \in [Orders -> SUBSET Values]
    /\ Limit \in Nat \ {0}
    /\ MaxWrites \in Nat

VARIABLES
    recent,      \* the table, as of every location a read may be answered at
    writes,      \* how many there were
    order,       \* the subscription's ORDER BY
    held,        \* the rows it holds
    frontier,    \* how far storage is covered, and whether the row there is read
    unique,      \* the window has learned that its order is unique
    stalled,     \* the last refill brought nothing new
    read,        \* the storage read that is out
    owed,        \* history: the window fell short where nobody checks it
    turnedAway   \* history: rows kept out for being where the frontier is

vars == <<recent, writes, order, held, frontier, unique, stalled, read, owed, turnedAway>>

Db == recent[Len(recent)]

OrderValue(t, k) == <<t[k], IF order = "unique" THEN k ELSE 0>>

Worse(o, p) == o[1] > p[1] \/ (o[1] = p[1] /\ o[2] > p[2])
Enforceable(o) == o[1] \notin Nulls[order]
AtMost(a, b) == IF a <= b THEN a ELSE b

Matching(t) == {k \in Keys : t[k] # None}

\* n of the rows S of t, and none left out is better: ties as they come
Best(t, S, n) ==
    {B \in SUBSET S :
        /\ Cardinality(B) = AtMost(n, Cardinality(S))
        /\ \A in \in B, out \in S \ B :
              ~Worse(OrderValue(t, in), OrderValue(t, out))}

----------------------------------------------------------------------------
(* The frontier *)

NoFrontier == [at |-> None, inclusive |-> TRUE]

\* mutant: a worse row evicted later widens it
CoverLatest(f, o, inclusive) == [at |-> o, inclusive |-> inclusive]

Cover(f, o, inclusive) ==
    IF f.at = None \/ Worse(f.at, o) THEN [at |-> o, inclusive |-> inclusive]
    ELSE IF f.at = o THEN [f EXCEPT !.inclusive = @ \/ inclusive]
    ELSE f

\* after the rows S are evicted, worst first: the best of them goes last
Evicted(f, t, S) ==
    IF S = {} THEN {f}
    ELSE {Cover(f, OrderValue(t, k), TRUE) :
             k \in {i \in S : \A j \in S : ~Worse(OrderValue(t, i), OrderValue(t, j))}}

Inside(f, t, k) == f.at # None => Worse(f.at, OrderValue(t, k))

\* the boundary in the routing index, absent while a read is out
Admits(t, k) ==
    read = None /\ frontier.at # None /\ Enforceable(frontier.at) =>
        Enforceable(OrderValue(t, k)) /\ Worse(frontier.at, OrderValue(t, k))

----------------------------------------------------------------------------
(* Reads *)

Whole(kind) == [kind |-> kind, limit |-> Capacity, from |-> None, strict |-> FALSE]

Passes(r, o) ==
    r.from # None =>
        Enforceable(o) /\ (Worse(o, r.from) \/ (o = r.from /\ ~r.strict))

Covers(f, t, H) == Cardinality({k \in H : Inside(f, t, k)}) >= Limit

\* mutant: rows that worsened past the frontier count as well
NeedsRefillDrained(f, t, H, st) == ~st /\ Cardinality(H) <= Limit

\* mutant: asked again although the last refill brought nothing
NeedsRefillStill(f, t, H, st) == Cardinality(H) <= Limit \/ ~Covers(f, t, H)

NeedsRefill(f, t, H, st) ==
    ~st /\ (Cardinality(H) <= Limit \/ ~Covers(f, t, H))

Learned(H) == unique \/ (order = "unique" /\ H # {})

\* mutant: sized for the capacity, as an unthresholded read is
RefillToCapacity(f, t, H) ==
    LET strict == Learned(H) /\ ~f.inclusive
        again  == {k \in H : LET o == OrderValue(t, k) IN
                                Worse(o, f.at) \/ (o = f.at /\ ~strict)}
    IN  [kind |-> "refill", from |-> f.at, strict |-> strict,
         limit |-> Capacity + Cardinality(again)]

\* the rows missing, and the held ones the threshold returns again
Refill(f, t, H) ==
    LET strict == Learned(H) /\ ~f.inclusive
        again  == {k \in H : LET o == OrderValue(t, k) IN
                                Worse(o, f.at) \/ (o = f.at /\ ~strict)}
    IN  [kind |-> "refill", from |-> f.at, strict |-> strict,
         limit |-> (Capacity - Cardinality(H)) + Cardinality(again)]

RefillPlan(f, t, H) ==
    IF f.at = None THEN None
    ELSE IF ~Enforceable(f.at) THEN Whole("refill")
    ELSE IF Refill(f, t, H).limit = 0 THEN None
    ELSE Refill(f, t, H)

Answers(r, t) ==
    Best(t, {k \in Matching(t) : Passes(r, OrderValue(t, k))}, r.limit)

\* the worst row read, when the read came back full
WorstRead(r, t, S) ==
    IF Cardinality(S) < r.limit THEN {None}
    ELSE {OrderValue(t, k) :
             k \in {i \in S : \A j \in S : ~Worse(OrderValue(t, j), OrderValue(t, i))}}

WrittenSince(k, at) == \E i \in at .. Len(recent) : recent[i][k] # Db[k]

\* the answer S of r at a location, brought up to the engine's position
BroughtUp(r, at, S, worst) ==
    LET Beyond(k) == worst # None /\ Worse(OrderValue(Db, k), worst)
    IN  {k \in S : ~WrittenSince(k, at)}
            \cup {k \in Matching(Db) : /\ WrittenSince(k, at)
                                       /\ Passes(r, OrderValue(Db, k)) /\ ~Beyond(k)}

----------------------------------------------------------------------------
(* The window holds the rows H of t: it evicts down to its capacity and, if *)
(* this is a moment at which it checks, asks for a refill.                  *)
Maintain(t, H, f, st, out, checks) ==
    \E K \in Best(t, H, Capacity) : \E g \in Evicted(f, t, H \ K) :
        LET plan == IF out = None /\ checks /\ NeedsRefill(g, t, K, st)
                    THEN RefillPlan(g, t, K) ELSE out
        IN  /\ held' = K
            /\ read' = plan
            /\ frontier' = IF plan # out THEN NoFrontier ELSE g
            /\ stalled' = st

Written(k, v) == [Db EXCEPT ![k] = v]

Commit(k, v) ==
    /\ writes < MaxWrites
    /\ v # Db[k]
    /\ recent' = Append(recent, Written(k, v))
    /\ writes' = writes + 1
    /\ UNCHANGED order

\* the refill to come starts strictly past this row
TurnsAway(o) == o = frontier.at /\ order = "unique" /\ ~frontier.inclusive

\* a row that is not held and that the boundary keeps out, or that is gone
Elsewhere(k, v) ==
    /\ k \notin held
    /\ v # None => ~Admits(Written(k, v), k)
    /\ Commit(k, v)
    /\ turnedAway' = IF v # None /\ TurnsAway(OrderValue(Written(k, v), k))
                     THEN turnedAway \cup {k} ELSE turnedAway \ {k}
    /\ UNCHANGED <<held, frontier, unique, stalled, read, owed>>

Enters(k, v) ==
    /\ k \notin held
    /\ v # None /\ Admits(Written(k, v), k)
    /\ Commit(k, v)
    /\ unique' = Learned({k})
    /\ turnedAway' = turnedAway \ {k}
    /\ Maintain(Written(k, v), held \cup {k}, frontier, FALSE, read, FALSE)
    /\ UNCHANGED owed

\* a held row keeps its place, however much worse it has become
Rewrites(k, v) ==
    /\ k \in held
    /\ v # None
    /\ Commit(k, v)
    /\ Maintain(Written(k, v), held, frontier, FALSE, read, FALSE)
    /\ owed' = \/ owed
               \/ /\ frontier.at # None
                  /\ Worse(OrderValue(Written(k, v), k), frontier.at)
    /\ UNCHANGED <<unique, turnedAway>>

Leaves(k) ==
    /\ k \in held
    /\ Commit(k, None)
    /\ Maintain(Written(k, None), held \ {k}, frontier, FALSE, read, TRUE)
    /\ owed' = FALSE
    /\ UNCHANGED <<unique, turnedAway>>

\* the answer of the read, given at an older location, lands
Land ==
    /\ read # None
    /\ \E at \in 1 .. Len(recent) : \E S \in Answers(read, recent[at]) :
       \E worst \in WorstRead(read, recent[at], S) :
         LET new   == BroughtUp(read, at, S, worst) \ held
             f     == IF worst = None THEN frontier ELSE Cover(frontier, worst, FALSE)
             still == IF new # {} THEN FALSE ELSE stalled \/ read.kind = "refill"
         IN  /\ recent' = SubSeq(recent, at, Len(recent))
             /\ unique' = Learned(held \cup new)
             /\ turnedAway' = turnedAway \ new
             /\ owed' = (still /\ f.at # None)
             /\ Maintain(Db, held \cup new, f, still, None, TRUE)
    /\ UNCHANGED <<writes, order>>

Init ==
    /\ \E t \in Tables : recent = <<t>>
    /\ writes = 0
    /\ order \in Orders
    /\ held = {} /\ frontier = NoFrontier
    /\ unique = FALSE /\ stalled = FALSE
    /\ read = Whole("snapshot")
    /\ owed = FALSE /\ turnedAway = {}

Next ==
    \/ \E k \in Keys, v \in Values \cup {None} :
          Elsewhere(k, v) \/ Enters(k, v) \/ Rewrites(k, v)
    \/ \E k \in Keys : Leaves(k)
    \/ Land

Spec == Init /\ [][Next]_vars /\ WF_vars(Land)

----------------------------------------------------------------------------
(* Properties *)

(* Every variable keeps its type, and no more than twice the limit of rows  *)
(* is ever held (pop_overflow) or asked for.                                *)
TypeOK ==
    /\ recent \in Seq(Tables) /\ Len(recent) > 0
    /\ writes \in 0 .. MaxWrites
    /\ order \in Orders
    /\ held \subseteq Matching(Db) /\ Cardinality(held) <= Capacity
    /\ frontier \in Frontiers
    /\ unique \in BOOLEAN /\ stalled \in BOOLEAN
    /\ read \in Reads \cup {None}
    /\ owed \in BOOLEAN /\ turnedAway \subseteq Keys \ held

\* a row that the refills can still bring
Reachable(k) ==
    k \in Matching(Db) \ turnedAway /\ Enforceable(OrderValue(Db, k))

(* While no read is out, every matching row strictly better than the        *)
(* frontier is held: every one, when storage is said to be exhausted.  Rows *)
(* with a NULL in the order and rows turned away at the frontier excepted.  *)
FrontierCovers ==
    read = None =>
        \A k \in Keys : Reachable(k) /\ Inside(frontier, Db, k) => k \in held

(* While no read is out and the window was checked since it last fell       *)
(* short, no row missing from it belongs in the page of the best Limit.     *)
PageIsBest ==
    read = None /\ ~owed =>
        \A k \in Keys \ held : Reachable(k) =>
            Cardinality({h \in held :
                ~Worse(OrderValue(Db, h), OrderValue(Db, k))}) >= Limit

\* no more rows tie than the window holds
FewTies(t) ==
    \A k \in Keys : Cardinality({i \in Matching(t) : OrderValue(t, i) = OrderValue(t, k)}) <= Capacity

(* However the reads come back, the window stops asking: the refills it     *)
(* asks for as each lands come to an end, while few rows tie.               *)
RefillsEnd == []<>(read = None \/ \E i \in DOMAIN recent : ~FewTies(recent[i]))

(* What the module header of window.rs says of the frontier, without        *)
(* exceptions: "every matching row strictly better than it is held".        *)
EveryBetterRowHeld ==
    read = None => \A k \in Matching(Db) : Inside(frontier, Db, k) => k \in held

(* What it says the client is sent: "exactly the best `L` rows".            *)
ExactlyTheBest ==
    read = None =>
        \A k \in Matching(Db) \ held :
            Cardinality({h \in held :
                ~Worse(OrderValue(Db, h), OrderValue(Db, k))}) >= Limit

(* What note_refill says of a refill that brought nothing: "storage has     *)
(* nothing the window lacks".  Here for a page that is short of rows.       *)
StalledIsExhausted ==
    stalled /\ read = None /\ Cardinality(held) < Limit => held = Matching(Db)

=============================================================================
